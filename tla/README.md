# klusterOne in TLA+

klusterOne is a Kubernetes operator. A `NodeMaintenance` object names a set of
nodes and a list of actions (`Cordon`, `Drain`, `Script`, `Uncordon`); the
controller walks a budgeted number of nodes at a time through that list and
records its progress in the object's status. `kubectl nm` creates, attaches to,
starts, pauses and inspects such runs.

This directory holds TLA+ models of the controller, of its drain loop and its
script action, and of the commands that change a run; the TLC configurations
that check them; and theorems checked by TLAPS.

Paths below are relative to `src/`.

## 1. The system

| part | source | state | operations |
|---|---|---|---|
| NodeMaintenance | `api/v1alpha1/nodemaintenance_types.go` | spec (people write it), status (the controller writes it), resourceVersion | – |
| Reconciler | `internal/controller/nodemaintenance_controller.go` | none between passes but the work queue and the informer cache of controller-runtime | `Reconcile`: read the cache; return, seed, hold or step; one status write |
| Orchestrator | `internal/orchestrator/orchestrator.go` | none; it edits the reconciler's copy in memory | `Init`, `Step`: admit, runActions/advanceNode, rollup |
| Cordon, Uncordon | `internal/actions/cordon.go`, `uncordon.go` | `node.spec.unschedulable` | one merge patch, skipped when not needed |
| Drain | `internal/actions/drain.go` | locals of one execution | list, evict, poll until empty or until the deadline |
| Script | `internal/actions/script.go` | the script ConfigMap, one runner pod per node, optionally an output ConfigMap, all found by name | EnsureScriptConfigMap, ensurePod, waitForPod, tailLogs, captureOutput, gcPod |
| CLI, editing | `internal/cli/create.go`, `attach_run.go` | none between calls | create, attach, run, pause: one or two reads, then an update or a patch |
| CLI, copying | `internal/cli/copy.go` | the local file | push, pull: create a run, wait for it, fetch its output, delete it |
| CLI, reading | `internal/cli/status_logs.go` | none | status, logs |
| Manifests | `config/` | – | one replica, no leader election, rolling update; admission locks the ConfigMap |

How they interact. The CLI and the controller share only the stored object:
people write the spec, the controller the status subresource, guarded by
`resourceVersion`. The controller reads through an informer cache that trails
the API server, its own writes included. A watch event, an error or a
`RequeueAfter` puts the key back in the work queue, and one worker takes it.
Between reading the object and writing its status, a pass may act on many nodes
and wait minutes for pods; nothing is stored until its single write at the end.

What is hard about it:

- **Stale reads.** A pass may start from an object older than the one the
  controller itself last wrote, and act on nodes before its write conflicts.
- **One write after many effects.** A conflicting edit, a failed write or a
  crash drops the record of everything the pass did, on every node.
- **Idempotence by naming.** A repeated Script finds its runner pod by name, but
  the pod is deleted before the record is written.
- **Two controllers** while the Deployment rolls: nothing elects a leader.
- **Live edits**: pause, attach and apply arrive in the middle of a step, and a
  command is itself several calls that may meet those of another command.
- **Names that outlive a run**: pods and ConfigMaps of a deleted run are found by
  the next one of its name, while the garbage collector comes for them.
- **Runs that share a node** know nothing of each other's cordons.
- **The drain loop** races budgets, returning pods, lost calls and a deadline.

The hazards, each with its line and the properties that watch it, are listed in
`PROJECT.json`.

What would make each part correct, in a word: the *orchestrator* never skips,
repeats or reorders the recorded plan and never exceeds the budget; the
*reconciler* makes the stored record a truthful and gap-free history although
steps are lost and redone, and ends every run; *cordon and uncordon* give back
what was taken; *script* runs what was recorded, once, on a cordoned node;
*drain* succeeds only on an empty node, spares what it must, blames the right
cause, and returns; *create*, *attach*, *run* and *pause* act as if each were
one step, and answer truly; *push* and *pull* deliver a whole file, of their own
run, and leave nothing behind.

## 2. The modules

| module | what it is |
|---|---|
| `NodeMaintenance` | the resource: the record types of spec and status |
| `Orchestrator` | the orchestrator's decisions as operators over the object in memory |
| `Reconciler` | the controller, the API server, cache and queue, runner pods, kubelet, people, faults |
| `ReconcilerProperties` | what is promised; the refinement mapping; what the docs say and the code does not keep |
| `RunLifecycle` | the abstract run: what somebody who watches the stored object may rely on |
| `Drain` | one execution of the drain loop beside the cluster, with its properties |
| `ScriptAction` | one execution of the script action: ConfigMaps with owners, the pod, its log, the garbage collector |
| `CopyFile` | push and pull beside the controller, for runs that share a name; composes `ScriptAction` |
| `Commands` | create, attach, run and pause, call by call, and the controller's status writes |
| `Edits` | the abstract commands: each acts once, at one moment |
| `TwoRuns` | two instances of `Reconciler` over one node, one worker and one process |
| `MCReconciler`, `MCDrain`, `MCCopyFile`, `MCCommands`, `MCTwoRuns` | instances for TLC |
| `OrchestratorProofs` | lemmas: what the decisions do to well-formed objects |
| `ReconcilerProofs` | `TypeCorrect`, `RecordsAreTrue` |
| `RunProofs` | `RunImplemented`, `RecordsFollowPlan` |
| `CordonProofs` | `ScriptStartsOnce`, `ScriptsGuarded`, `CordonsStayWithinBudget`, `CompletedAreGivenBack`, `FailedStaysCordoned` |
| `TwoRunsProofs` | `NodesGivenBackByBoth`, `BothRunsImplemented`, `BothRecordsAreTrue`, `BothRecordsFollowPlan` |
| `DrainProofs` | `DrainLeavesNodeEmpty`, `DrainBlamesTruly`, `DrainSpares`, `DrainTypes` |
| `CommandsProofs` | `CommandsActAtOnce`, `CreateIsSafe`, `ReasonWithPause`, `CommandTypes` |
| `CopyFileProofs` | `CompletedRan`, `CompletedHasOutput`, `TypeCorrect`, `PullIsDelivered` |

`Reconciler` extends `Orchestrator`, which extends `NodeMaintenance`.
`ReconcilerProperties` instantiates `RunLifecycle` with the stored object.
`Drain` details one step of `Reconciler`, its `Drain` action: there it succeeds
or fails; how it does either is `Drain.tla`. `ScriptAction` details the script
action for one node, with what `Reconciler` leaves out: owners, the garbage
collector, the log, and pods of earlier runs. `CopyFile` extends it with a
reconciler for runs of one action on one node, which is what push and pull
create. `Commands` details the commands that are one step each in `Reconciler`;
`ImplementsEdits` is what justifies taking their writes so. Of `kubectl nm run`
that one step is the patch: its check for a script is an earlier read, which
another edit may have overtaken (`run_refuses_empty`), so `Reconciler`'s `Run`
asks for a script only as long as nobody has edited the run. `TwoRuns` extends
`ReconcilerProperties` and instantiates it once more.

### Reconciler, variable by variable

| variable | code |
|---|---|
| `obj` | the stored object; `rv` is `metadata.resourceVersion` |
| `watch[c]` | `Head` is the informer cache of controller `c`, the rest are events on their way |
| `queued[c]` | the work queue holds the key |
| `pc[c]`, `nm[c]`, `todo[c]` | where `Reconcile` is, its copy of the object, the entries `runActions` has still to advance |
| `seen[c]` | what the last `Get` returned: the node handed to an action, or the finished pod's phase |
| `cordonedBy` | `unschedulable`, and who set it (the code cannot tell) |
| `cm`, `pod` | the script ConfigMap's body; the runner pods, with the body each one started with |
| `runs`, `succeeded` | history: starts of the script per node; nodes on which it succeeded |
| `edits`, `faults` | bounds |

An action is one API call and the in-memory code up to the next call:

- `ReturnIfTerminal`, `SeedStatus`, `HoldPaused`, `BeginStep` are the branches
  of `Reconcile`, each with the read of the cache that opens it. A read
  of a cache that lags equals an earlier read, so the read need not be a
  step of its own. A seeding whose node listing fails leaves everything as it
  was, the key included, and is a stuttering step.
- `NothingLeft`, `GetNode`, `GetNodeFails` are `advanceNode` up to `Execute`.
- `Cordon`, `Uncordon`, `Drain`, `ExecuteFails` are the three short actions. A
  patch that reports an error may or may not have been applied.
- `RequireScript` … `GcPod` are `Script.Execute`, call by call: rendering, the
  pod's creation, the wait, the capture of output (of which the model keeps
  only that it may fail), the deletion of the pod and the verdict.
- `UpdateStatus`, `UpdateConflicts`, `UpdateFails` are the write that ends a
  pass. `UpdateFails` covers an error after the write went through. After a
  terminal write the key may still come back: a requeue that an earlier pass
  asked for falls due.
- `Crash` loses the worker and lists the cache afresh; `Deliver` is the watch.
- `StartPod`, `FinishPod` are external: a container starts with the body the
  ConfigMap then holds, and may succeed, fail, or fail before it starts.
- `Pause`, `Run`, `Attach`, `Apply` are `kubectl nm`; `OperatorCordon`,
  `OperatorUncordon`, `DeletePod` are `kubectl`.

Loops over `status.nodes` are stated by what they establish: `Admits(obj, P)`
says which sets of entries `admit` promotes, `IsSortedCopy` what `sort.Strings`
returns, `rollup` the phase the counters lead to.

### Drain

`ListPods`, `Evict…`, `EndPass`, `Cancelled` are the loop; `pending` is the rest
of the pass's slice, `blocked`, `lastBlocked` and `lastListErr` are the locals of
the same name. The cluster moves between any two calls: pods terminate, finish,
arrive (on a cordoned node only a DaemonSet's or a static one), budgets open and
close, an operator uncordons, the deadline passes. A 429 on an eviction comes
from a budget or from throttling; the code, and so the model, treats both alike.
Other pods that come to a cordoned node are not there: the runner pod of a
`Script` that follows the `Drain` names its node and is not kept out by the
cordon. `DrainedStaysEmpty` is about the moment of success; that the node stays
empty afterwards holds in this environment only.

### ScriptAction and CopyFile

A run is a number, its UID and its script at once. `cms` are the two ConfigMaps
of the name with their data and owner references; `pod` is the runner pod, with
the run it is annotated with (`of`), the script its container started with
(`body`) and its log. A file is a sequence of blocks, a log a sequence of chunks:
blocks, and the sentinels and other lines around them. `sent` is history: the
files that a run's script has printed.

`CreateCM`, `GetCM`, `UpdateCM` are `EnsureScriptConfigMap` and the end of
`captureOutput`, which have the same shape: create, and if there is one already,
read it, append this run's owner reference, put the data in, update in the
version read. `aim` says for which of its three callers it runs: the pass, which
ignores its error, `Execute`, which fails, or the capture, which deletes the pod
first. `EnsureFails` is any of the three calls failing, before or after it took
effect. `GetNode`, `TakePod`, `NoPodYet`, `CreatePod`, `WaitForPod` and `GcPod`
are the rest of `Execute`, each with its failure. The log is opened twice, and
each time the call may fail by itself: `TailLogs` and `TailLogsFails` put what
can be read into the status, `CaptureLogs` and `CaptureLogsFails` begin
`captureOutput`, whose failure fails the action. `Collect` is the garbage
collector.

In `CopyFile`, `SeedStatus` … `UpdateFails` are `Reconcile`, with the delayed
requeue (`retry`) as a step of its own; `Create`, `SeeCompleted`, `GiveUp`,
`Summarize`, `Fetch`, `WriteFails`, `FetchFails`, `Delete` are `RunPush` and
`RunPull`, one API call each. `Printed` is `buildPullScript`; `Extracts`,
`Payload` and the `Index` they look for the sentinels with are `extractPayload`.
`got` is the local file: `Fetch` writes it, and `WriteFails` is `os.WriteFile`
failing, at the open, or after it has truncated the file, with any beginning of
the payload in it. `FetchFails` is every error before that write. People delete
the run or the pod, annotate the run, and change the file.

### Commands

Per person: the command under way (`asked`), the call it makes next (`call`), the
object as last read (`copy`) and the answer (`told`). `CheckScript` is the first
read of `RunRun`; `Get` and `AlreadyDone` the read of `setPaused`, `RunAttach` and
`applyNM`; `Patch` a merge patch, which writes its own keys into whatever object is
there and sends no version; `Put` the create or the update of `applyNM`, which
does. `Fail` is a refusal or a call that errs; a write's answer may be lost after
the write. `Seed` and `End` are the controller's writes, `Delete` is kubectl's.

`Edits` has the same commands as one step each between the issue and the answer.

### TwoRuns

Each run has the variables of `Reconciler` that belong to an object, to its
ConfigMap and to its pods; `cordonedBy` and the bounds are shared. A pass over
one run begins only while no pass over the other is under way, since
`MaxConcurrentReconciles` is left at 1, and a crash takes both runs down.

### RunLifecycle

Targets are resolved once; then one step of the record moves every
entry in flight, and newly admitted ones within the budget, by exactly one
action of the plan, or fails it; a paused run records nothing; a terminal phase
is final; an edit of the spec does not touch the record. `ImplementsRun` checks
that the stored object, through all the caches and retries, does this.

## 3. The checks

Every `pass` run finishes without error; every `violation` run checks one
statement of the repository's documentation that the code does not keep.

| run | instance | shows |
|---|---|---|
| `core` | 2 nodes one at a time, ≤ 2 edits (pause, run), ≤ 1 fault | `FollowsPlan`, `RecordedScriptRan`, `CordonsWithinBudget`, `CompletedNodesSchedulable`, `ImplementsRun` |
| `keep_pods` | 1 node, paused at first or not, `--runner-keep-pods`, capture, ≤ 3 edits (pause, run, attach), ≤ 1 fault | `ScriptAtMostOnce`, `ScriptsRunOnCordonedNodes`; `RunEnds`, `EventuallySeeded`, `PausedScriptRendered` |
| `rollout` | 1 node, two controllers, ≤ 1 edit | `RecordedScriptRan`, `FailedScriptLeavesCordon`, `ImplementsRun`, `RunEnds` |
| `variety` | 8 kinds of run, ≤ 1 edit (apply, run, a pod deleted, a node cordoned or uncordoned by hand) | `RecordedScriptRan` and `ImplementsRun` over every selection, repeats, budgets 0, 2 and all at once, missing script, empty plan |
| `drain` | an ordinary, a DaemonSet and a static pod, all options, ≤ 2 transient failures | `DrainedStaysEmpty`, `BlameIsTrue`, `EvictsOnlyEvictable`, `DrainReturns`, `DrainSucceeds` |
| `copy` | two pulls of one name, ≤ 1 upset | `CompletedRunRan`, `CompletedPullHasOutput`, `PullDelivers` |
| `copy_cleanup` | one push or pull, ≤ 2 upsets | `NothingLeft` |
| `commands` | 2 people, ≤ 4 commands | `ReasonOnlyWhilePaused`, `ImplementsEdits`, `CreateReplacesWhatItRead` |
| `two_runs` | a script run with `--runner-keep-pods` and a drain run of 1 node, ≤ 1 cordon or uncordon by a person, ≤ 1 fault | `GivenBackByBoth`, `BothEnd` |
| `script_runs_twice` | 1 node, no edit, no fault | the finding below |
| `output_race` | one pull, no upset | the finding below |
| `run_refuses_empty` | 2 people, ≤ 3 commands | the finding below |

### Bounds, and why they are enough

Two nodes are what ordering, a budget and a step that is lost after one of
several nodes take; the target lists have at most two entries, which includes
one node named twice. Two bodies besides the empty one tell an old attach from a
new one. `MaxEdits` and `MaxFaults` count edits and faults: one edit makes
any write conflict, one fault loses any pass; the second and third edit undo or
repeat the first. `RunsCap = 2` counts script starts to "more than once"; runs
whose properties do not look at the count leave it at 0.
Runs that need two nodes (`core`, `variety`) use one controller, those with
two controllers use one node, because the queue of two caches multiplies the
states of everything else. The watch is not bounded: it holds at most the writes
that the bounds allow.

`CopyFile`: two commands are an earlier and a later run of a name; a file that is
absent, one of one block, which fits an output of 3 chunks with its two
sentinels, and one of three blocks, which does not, cover
the three outcomes of a capture. The longer one begins with the shorter one and
has a second kind of block, so that a beginning of it, the other file and the
file itself can all be told apart. `copy_cleanup` needs no file but the short
one, as nothing it asks depends on the text. An upset is a crash, a failed write or an act of
a person; a pass that fails or is repeated needs none, since any call of the
action may err at any time. `copy_cleanup` takes two upsets, because a deletion
and a crash in the pass that follows it are two.

`Commands`: two people are enough for a read and its write to enclose another
command, three commands for a create, an edit and one that meets it; the fourth
lets a person see the outcome. One non-empty body and one reason suffice, as
nothing depends on which they are.

`CHECK_DEADLOCK FALSE` everywhere: a run that is over, a drain that has
returned and commands that have all been answered really stop.

### Fairness

`RunEnds`, `EventuallySeeded` and `PausedScriptRendered` assume, in `keep_pods`
and `rollout`, weak fairness of `Reconcile(c)` and `Deliver(c)`: controller-runtime's worker keeps taking keys,
every call has a client timeout, every wait in the code has a deadline
(`script.go:514`, `drain.go:123`), and the watch delivers. Nothing is assumed of
pods (a runner pod may hang for ever: the deadline of the wait ends the action)
or of people. Rate limiting and `RequeueAfter` only delay a key, so a key that
will come back is in the queue at once. Crashes are bounded, which is the
assumption that the process does not crash for ever.

For `Drain`: weak fairness of the loop (every call returns) and of the kubelet
taking down terminating pods. The clock is not fair: `DrainReturns` is about
drains whose deadline passes, `DrainSucceeds` about those it does not cut short.

For `TwoRuns`: weak fairness of each watch and strong fairness of each run's
`Reconcile`, since the one worker is free for a run again and again but not
continuously. The work queue of controller-runtime is first in, first out, so
that a key in it is taken after those before it, whatever the other run does.

For `CopyFile`: weak fairness of the worker, of the watch and of the cluster's
garbage collector. Nothing is assumed of the commands, the pods or the delayed
requeue.

### Findings

| run | the repository says | the code |
|---|---|---|
| `script_runs_twice` | actions are idempotent, a repeated Script reuses its pod (`docs/architecture.md:136`) | the finished pod is deleted before the status is written; the write succeeds, but the next pass, over a cache without it, creates the pod and runs the script again; no edit, fault or crash is needed |
| `output_race` | "Reading the CM after completion is race-free" (`copy.go:182`) | the requeue that the seeding pass asked for falls due during the script; the pass that follows reads a cache without the completion, runs the script again and overwrites the output |
| `run_refuses_empty` | run "Refuses to start an NM that has no script body attached" (`attach_run.go:152`) | the check and the patch are two reads apart, and the patch carries no version |

More of the same kind, each a property of its module with a configuration to be
run by hand:

| configuration | property | the repository says | the code |
|---|---|---|---|
| `MCReconcilerUncordonedScript` | `ScriptsRunOnCordonedNodes` | "the node is already cordoned by the time Script runs" (`docs/script-action.md:18`) | a pass over a stale cache creates the pod again; it starts after the Uncordon |
| `MCReconcilerPause` | `NothingStartsWhilePaused` | after a pause "nothing new starts" (`docs/cli.md:113`) | a step already under way goes on to the nodes it has not reached |
| `MCReconcilerReplan` | `CompletedMeansWholePlan` | Actions is "executed against every target node" (`nodemaintenance_types.go:71`) | progress is an index into whatever plan the spec then holds |
| `MCReconcilerPreCordoned` | `UncordonReversesCordon` | "Uncordon reverses Cordon" (`uncordon.go:14`) | it also uncordons a node that was cordoned before the run |
| `MCReconcilerAttach` | `PendingNodesRunNewBody` | pending nodes pick up the new body (`attach_run.go:137`) | a node stored as Pending may be run with the body of the step's copy |
| `MCTwoRunsFailedNode` | `FailedNodeStaysCordoned` | a node whose Script failed "stays cordoned" (`docs/reconcile-flow.md:178`) | another run's Uncordon makes it schedulable |
| `MCCopyFileLogTail` | `TailIsTheEnd` | ScriptLogTail is "the last few KB" (`nodemaintenance_types.go:221`) | the read is limited to the first bytes of the log (`script.go:535`) |

With `--runner-keep-pods` the script runs once and on a cordoned node only:
`keep_pods` checks both statements in that instance, with the same edits and
faults.

Three properties hold only in part, and are checked where they hold.
`CompletedNodesSchedulable` fails with two controllers: one that
read the node schedulable patches it cordoned after the other one has uncordoned
it and completed the run. `FollowsPlan` fails once the plan changes under the
run, as `MCReconcilerReplan` shows. `CompletedRunRan` excepts a run that took the
finished pod of an earlier run of its name for its own (`adopted`): the pod's
run-uid annotation is not looked at (`script.go:323`), so that such a run is
Completed though its own script never ran.

## 4. The theorems

The assumptions are `NodeAssumption` (names are naturals), `BodyAssumption`
(there is an empty body, and no body is `NoScript`) and `ReconcilerAssumption`
(the parameters have their types, `NoNM` is not an object); for two runs also
`TwoRunsAssumption` (the second run's specs are specs). Nodes, controllers,
specs, target lists and bounds are arbitrary; `Node` need not be finite.

**`ReconcilerProofs!TypeCorrect`**: `Spec => []TypeOK`. `TypeOK` is inductive
because it contains `WorkerConsistent`: a worker holds an object exactly
when it is not idle, what it has still to advance are entries of that object,
and while it executes, its first entry's plan has an action left. Without the
last part, `NextAction` could be applied past the end of a plan and what
is recorded would not be an action. `OrchestratorProofs` shows that
seeding, promotion, completion, failure and the rollup map well-formed objects to
well-formed objects with the same entries.

**`ReconcilerProofs!RecordsAreTrue`**: `Spec => []RecordedScriptRan`. A Script in
the stored record has succeeded on that node, for any number of controllers,
crashes, lost writes and edits of any kind, a change of plan included. The
property is not inductive: the stored object is overwritten with a
worker's copy, and a worker's copy grows by what it saw of a pod. The invariant
`RecordsBacked` therefore says the same of every place the
record may come from: of the stored object and every version on a watch (`StoreBacked`),
of every worker's copy and of a finished pod it has seen (`WorkerBacked`), and of
every pod in phase `Succeeded` (`PodsBacked`). The proof has one lemma per
group of actions, and needs `TypeOK` to know what a record is.

**`RunProofs`** proves that the stored object is a run of `RunLifecycle`,
`RunImplemented`: `Spec => ImplementsRun`, with no hypothesis on controllers,
edits or faults. A write records a whole pass, and the pass may have begun long
before; that the two are one step of the abstract run needs `RunInv`:

- `VersionsNamed`: a version on a watch that carries the stored resourceVersion
  *is* the stored object.
- `CopyFaithful`: a worker's copy carries an older version, and then its
  write will conflict; or it carries the stored one, and then it has the stored
  spec and is the stored object in the middle of one step (`MidStep`): entries
  in flight already advanced by exactly one action, or still to be advanced and
  untouched, and all others as stored. An edit of the spec makes every copy an
  older one, which is why a change of plan or budget needs no hypothesis.

The abstract step is then the last write of the pass, and everything else is a
stutter. `RecordsFollowPlan` adds `[][PlanKept]_vars`, that nobody changes the
list of actions, without which the property is false (`MCReconcilerReplan`). It
is proved of the abstract run, step by step, and carried over by the refinement.

**`CordonProofs`** is about the nodes themselves. All but the first theorem
share one part of an invariant, `AllSound(plan, H, F)`: in the store, in every
version on a watch and in every copy, a record follows `plan`, is shorter
than it while its entry is under way, names a node of `H` once it has a `Cordon`
and one of `F` once it has a `Script`. What is read from however old a version is
then true of `H` and `F`, if these only grow; each theorem chooses its own.

- `ScriptStartsOnce`: with `--runner-keep-pods` and nobody deleting pods, a pod
  only moves forward (`PodMoves`), so that `StartsCounted`, no start before a pod
  runs and at most one after, is inductive. A pod that is collected can be
  created and started again by a pass over an older version, which is the finding
  `script_runs_twice`.
- `ScriptsGuarded` (`GuardInv`): `H` is `Held`, the nodes that are cordoned or
  whose pod has ended, and `F` is `Finished`, those whose pod has ended. A worker that uncordons has a
  record with a `Script`, so the node's only pod is over. The hypotheses: pods
  are kept (else a stale pass starts the script again after the `Uncordon`,
  `MCReconcilerUncordonedScript`), nobody else touches nodes and pods, and the
  plan is fixed and `Guarded` (a `Cordon` before each `Script`, a `Script` before
  each `Uncordon`; the default plan is).
- `CordonsStayWithinBudget` and `CompletedAreGivenBack` (`BudgetInv(plan, X)`, here
  with `X = {}`): a node that
  the run has cordoned has an entry among those the *stored* object has in
  progress, failed, or is about to admit (`HeldStored`); those are never more than
  the budget in progress. `admit` is a function of phases and budget, so that a
  pass that was forgotten is taken up by the next one with the same entries. The
  cache of the only controller is at most one recorded pass behind (`Current`,
  `Fresh`, `Lags`); a pass over that older version meets entries that are still
  reserved, or whose last action, an `Uncordon`, is all that it can repeat
  (`Covered`). Hence the hypotheses: one controller (with two the properties
  are false, section 3), a plan that ends in `Uncordon`, and neither plan nor budget
  edited (a smaller budget does not give a node back).
- `FailedStaysCordoned` (`FailInv`): any number of controllers, pods kept or not.
  `H` is `Kept`, the nodes that are cordoned or that an entry of the store has
  got as far as giving back. The store only moves on (`StoreGrows`), so a worker that uncordons, from
  however old a version, does it to a node whose stored entry is already at its
  `Uncordon` or past it (`KeptGrows`). An entry that failed at its `Script` is not,
  if the plan has no `Uncordon` before it and no node is the target of two entries
  (`NoTwins`); the `Cordon` it has recorded is therefore still in force. The
  plan is fixed and nobody else touches nodes.

**`TwoRunsProofs`** is about two runs that share nodes, one worker and one process.
`Run2` instantiates `CordonProofs` for the second run, so that every lemma about a
run is there for both; `SamePass`, `SameAdvance` and `SameOutside` say that it means
the steps of `TwoRuns!Second`, and `Interleaved` that a step of the composition is
one of either run, or of both at once.

- `BothRunsImplemented`, `BothRecordsAreTrue`: no hypothesis. What the runs share,
  `cordonedBy` and the counters, is read into no record, so a step of
  one keeps `TypeOK`, `RunInv` and `RecordsBacked` of the other (`OthersKeepRun`,
  `BackedStutter`). `BothRecordsFollowPlan` takes `PlanKept` of both.
- `NodesGivenBackByBoth` (`BothInv`): neither run's `HeldStored` holds beside the
  other: a node that the first has completed, and is done with, may be cordoned by the
  second, and the first may rely on a cordon that it found there. What is kept is that a node held cordoned is on the list of *one* of them:
  `BothInv` is `BudgetInv(plan, Away2)` of the first run and
  `BudgetInv(plan2, Away1)` of the second, where `Away1` and `Away2` are the nodes
  that the runs' stored objects have in progress, failed or are about to admit,
  and `BudgetInv(plan, X)` asks only for the nodes outside `X`. A node both have
  completed is on neither list.
  A pass may rely on what it read of a node because `OneAtATime` holds: while one
  run's pass is under way, the other makes none, so it writes no status and patches no
  node (`OthersStep`; the rest, pods, people and watch events, takes no node,
  `OutsideKeeps`). The hypotheses are those of `CompletedAreGivenBack`, for each run:
  one controller, a plan that ends in `Uncordon`, plan and budget not edited
  (`Fixed`, `Fixed2`). What each of the two has within its own budget is not asked: the
  budgets are documented per run.

That these hypotheses can hold together is what the runs `core`, `keep_pods`,
`rollout` and `two_runs` show, which check the same properties under them.

**`DrainProofs`** proves the three safety properties of a drain, for any set of
pods, any options and any number of transient failures, under `DrainAssumption`
(the pods are finitely many, mirror and DaemonSet pods are pods, the options are
the three there are). `DrainInv` adds to the properties and the types:
`PendingIsMeant`, that a pass only holds pods the options give it
(`DrainSpares` follows, since the eviction itself looks at the budget); and
`BlockedIsRefused`, that the local `blocked` of a pass that saw a list is exactly
what was refused since that list (`DrainBlamesTruly` follows, since the error is
made at the end of a pass). `DrainLeavesNodeEmpty` rests on `TypeOK`'s link
between the result and the loop being over. `DrainTypes` is `TypeOK` by itself.

**`CommandsProofs`** proves the three properties of `Commands` for any people,
bodies, reasons and number of commands, under `CommandsAssumption` (there is an
empty body and an empty reason) and `NothingAssumption` (having issued no command
is not a command). `CommandsInv` adds to the types: `UnderWay`, that a command is
under way exactly from its issue to its answer and remembers no object after it;
and `VersionsTell`, that a copy with the version of the stored object *is* the
stored object. The latter is what makes a `Put` safe, which compares versions
only, even when the object was deleted and created again meanwhile
(`CreateIsSafe`). `CommandsActAtOnce` is the refinement of `Edits`: the stored
object less its version is the abstract record, the write of a command is the
one step at which it acts, or its read when it finds nothing to do, and every
other call is a stutter.

**`CopyFileProofs`** proves what a Completed run of `CopyFile` stands for, for any
number of runs of one name, any files and limits, and any number of upsets,
under `ScriptActionAssumption` and `CopyFileAssumption`. `CompletedRan` and
`CompletedHasOutput` have one invariant, `CopyInv`:

- `Ordered`: the informer gets to know the runs of the name in the order in which
  they were created, and a command that has not created its run comes later.
- `LeftBehind`: the ConfigMaps and the pod under the name are of the run at work,
  or of one before it, and no run before theirs is going to be seen again.
- `PodKnows`: a pod runs the script of its own run or that of a later one, since
  its script ConfigMap was in place before it was created.
- `WorkerKnows`: from its `TakePod` or `CreatePod` on, the worker's pod is its own
  run's or the run is in `adopted`. Both bounds meet here: a pod of this run runs a script
  that is neither older (`PodKnows`) nor newer (`LeftBehind`) than its own.
- `OutputKnown`: once the output is captured, its ConfigMap belongs to the run.
  For a Completed run, any pass still to come is over the same run, so that the
  output that `output_race` shows being overwritten is overwritten with its own.

`PullIsDelivered`: `Spec => []PullDelivers`, and `TypeCorrect` follow the texts
as well, and add to `CopyInv`:

- `Texts`: the output ConfigMap's text is `Fetchable`: what `extractPayload` finds
  in it, if anything, is a file that the script named in the data has printed
  (`sent`). A log and the worker's copy of it are `Printable`: they stay
  fetchable cut at any length. The heart of it is that a printed text cut
  anywhere has lost its end sentinel or nothing of the file (`PrintedPayload`),
  and that every other log is `Barren`, without a payload however it is cut.
- `Versions`: what the watch carries and the worker holds of the stored run is not
  newer than it, and a pass at work on the stored version began before
  completion. A run that was seen Completed therefore stays so while it lives.
- `Deliveries`: a pull about to read its output has either lost its run or seen it
  Completed, and then the output is secured (`OutputKnown`), its own and fetchable.
  What a pull then writes is a file of its own run; what a failed write leaves
  (`WriteFails`) is any beginning of one, and such a pull reports its failure.
- `Others`: the types of the variables that hold no text.

Only model-checked: liveness (`RunEnds`, `EventuallySeeded`, `PausedScriptRendered`,
`DrainReturns`, `DrainSucceeds`, `NothingLeft`, `BothEnd`), which is out of the
prover's reach.

The theorems about the nodes have the hypotheses above; outside of them the
properties are checked as far as section 3 says, or are false as it shows.

## 5. What is left out

- **Data.** Messages, timestamps, summary counters, images, environment. Nothing
  in the control flow reads them back. Captured output is a sequence of chunks; the
  base64 encoding of a file, which is undone before the local write, is left out.
- **Deletion of the NodeMaintenance** in `Reconciler`; it is in `CopyFile` (with
  incarnations of one name) and in `Commands`.
- **Runner pods with one name for two nodes** (`script.go:561`): the name is a
  string cut to 63 characters, and here every node has its own pod.
- **A pod that lingers while it terminates** is a pod whose deletion failed, for
  the controller: in both cases a later pass finds it by its name.
- **A request still in flight when its process dies** is not applied later.
- **More than two runs**, and two runs that share a node under two controllers.
- **Not modelled** as parts: the action registry and `main.go` (the four actions
  are always registered; flags are constants), status and logs (they read and
  print), argument and selector parsing, generated code: no state that changes.
  The manifests are used as assumptions: one worker, no leader election, the
  status a subresource, the script ConfigMap written by the controller only.

## 6. Plan

Done: every module of section 2, their runs and the theorems of section 4: every
safety invariant of every run, both refinements, and what carries over from one run
to two.

What would come next:

1. Three or more runs on one node: `BothInv` with a set of runs in place of the
   other one, as `BudgetInv(plan, X)` already asks for no more than a set of nodes.
2. Deletion of the NodeMaintenance in `Reconciler`, as `CopyFile` has it for runs of
   one action, so that the theorems about the nodes also cover a run that is gone.
