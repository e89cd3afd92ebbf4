----------------------------- MODULE ScriptAction -----------------------------
(***************************************************************************)
(* One execution of the Script action call by call: the two ConfigMaps it  *)
(* writes in the runner namespace, the runner pod, the pod's log, and what *)
(* may happen to them meanwhile.  Reconciler keeps of this that the action *)
(* renders, creates, waits and deletes; here every ConfigMap has its       *)
(* owners, and the pod and the ConfigMaps are found by the name of the run *)
(* alone, which one run may share with an earlier one that is gone.        *)
(*                                                                         *)
(* A run is known by its number, which stands for its UID and for its      *)
(* script.  A file is a sequence of blocks, and what a script prints is a  *)
(* sequence of chunks: blocks, and the lines around them.                  *)
(***************************************************************************)
EXTENDS Naturals, Sequences

CONSTANTS
  Command,       \* the runs, numbered in the order they are created
  Mix,           \* which sets of them may fetch a file; others put one in place
  Block,         \* what files are made of
  File,          \* the files there may be on the node
  Pushed,        \* the file that a push puts in place
  CaptureLimit,  \* maxCapturedOutputBytes, in chunks
  TailLimit,     \* LogTailBytes, in chunks
  KeepPods       \* the --runner-keep-pods flag

(* What is not part of a file: the two sentinels, and other lines. *)
Line == {"begin", "end", "line", "error", "unread", "absent"}

ASSUME ScriptActionAssumption ==
  /\ Command \subseteq Nat \ {0} /\ Mix \subseteq SUBSET Command
  /\ Block \cap Line = {} /\ File \subseteq Seq(Block) /\ Pushed \in File
  /\ CaptureLimit \in Nat /\ TailLimit \in Nat
  /\ KeepPods \in BOOLEAN

VARIABLES
  pulls,    \* the runs that fetch a file: they carry the output annotation
  nm,       \* the worker's copy of the object
  pc,       \* the call the worker is about to make
  aim,      \* what the ConfigMap being written is for
  read,     \* the ConfigMap as it was last read
  term,     \* the runner pod as it was when the wait ended
  tail,     \* ns.ScriptLogTail, which ends up in the status
  outcome,  \* what the action is going to return
  cms,      \* the script ConfigMap and the output ConfigMap of the name
  pod,      \* the runner pod of the name
  file,     \* the file on the node, or NoFile
  ran,      \* history: the runs whose script has succeeded on the node
  sent,     \* history, per run: the files that its script has printed
  adopted   \* history: the runs that took an earlier run's pod for theirs

action == <<nm, pc, aim, read, term, tail, outcome>>
namespace == <<cms, pod>>
node == <<pulls, file, ran, sent>>
scriptVars == <<action, namespace, node, adopted>>

Chunk == Block \cup Line
Text == Seq(Chunk)
NoFile == <<"absent">>

(* What a ConfigMap holds: a run's script, or what a run's script printed. *)
DataType == [by : Command \cup {0}, text : Text]
NoCM == [data |-> [by |-> 0, text |-> <<>>], owners |-> {}]
CMType == [data : DataType, owners : SUBSET Command]
NoPod == [phase |-> "absent", of |-> 0, body |-> 0, log |-> <<>>]
PodType ==
  [phase : {"absent", "Pending", "Running", "Succeeded", "Failed"},
   of : Command \cup {0},        \* the run-uid annotation, which nobody reads
   body : Command \cup {0},      \* whose script the container runs
   log : Text]

------------------------------------------------------------------------------
(* The worker.                                                             *)

Continue(call) == pc' = call
Return(phase) == nm' = [nm EXCEPT !.phase = phase] /\ pc' = "done"
Fail == Return("Failed")

(* The call of the action that step is about is under way. *)
At(call) == pc = call

------------------------------------------------------------------------------
(* EnsureScriptConfigMap, for the reconcile pass and for the action, and    *)
(* the end of captureOutput: create; if there is one, read it, add this run *)
(* to its owners and write it back.                                         *)

Which == IF aim = "output" THEN "output" ELSE "script"

Limited(text, limit) == SubSeq(text, 1, IF Len(text) < limit THEN Len(text) ELSE limit)

Data ==
  IF aim = "output" THEN [by |-> term.body, text |-> Limited(term.log, CaptureLimit)]
  ELSE [by |-> nm.of, text |-> <<>>]

(* Mutant of Fresh: the ConfigMap carries no owner. *)
Ownerless(data, uid) == [data |-> data, owners |-> {}]

Fresh(data, uid) == [data |-> data, owners |-> {uid}]

(* Mutants of Merged: the owner is not added, the data is not replaced. *)
MergedUnowned(existing, data, uid) == [data |-> data, owners |-> existing.owners]
MergedStale(existing, data, uid) ==
  [data |-> existing.data, owners |-> existing.owners \cup {uid}]

Merged(existing, data, uid) ==
  [data |-> data, owners |-> existing.owners \cup {uid}]

(* What follows when the ConfigMap is in place. *)
Ensured ==
  pc' = IF aim = "render" THEN "node" ELSE IF aim = "script" THEN "pod" ELSE "gc"

(* And when it is not: a pass goes on, the action fails, at once or once *)
(* it has deleted the pod.                                               *)
NotEnsured ==
  \/ aim = "render" /\ pc' = "node" /\ UNCHANGED <<nm, outcome>>
  \/ aim = "script" /\ Fail /\ UNCHANGED outcome
  \/ aim = "output" /\ pc' = "gc" /\ outcome' = "Failed" /\ UNCHANGED nm

CreateCM ==
  /\ At("create")
  /\ \/ /\ cms[Which] = NoCM
        /\ cms' = [cms EXCEPT ![Which] = Fresh(Data, nm.of)]
        /\ Ensured
     \/ /\ cms[Which] # NoCM
        /\ Continue("get")
        /\ UNCHANGED cms
  /\ UNCHANGED <<nm, aim, read, term, tail, outcome, pod, node, adopted>>

GetCM ==
  /\ At("get")
  /\ cms[Which] # NoCM
  /\ read' = cms[Which]
  /\ Continue("update")
  /\ UNCHANGED <<nm, aim, term, tail, outcome, namespace, node, adopted>>

(* The version that was read is the one being replaced. *)
UpdateCM ==
  /\ At("update")
  /\ cms[Which] = read
  /\ cms' = [cms EXCEPT ![Which] = Merged(read, Data, nm.of)]
  /\ read' = NoCM
  /\ Ensured
  /\ UNCHANGED <<nm, aim, term, tail, outcome, pod, node, adopted>>

(* A call errs: it did not get through, its answer was lost, or the *)
(* collector was there in between.                                  *)
EnsureFails ==
  /\ \/ pc \in {"create", "get", "update"} /\ UNCHANGED cms
     \/ /\ At("create") /\ cms[Which] = NoCM
        /\ cms' = [cms EXCEPT ![Which] = Fresh(Data, nm.of)]
     \/ /\ At("update") /\ cms[Which] = read
        /\ cms' = [cms EXCEPT ![Which] = Merged(read, Data, nm.of)]
  /\ read' = NoCM
  /\ NotEnsured
  /\ UNCHANGED <<aim, term, tail, pod, node, adopted>>

------------------------------------------------------------------------------
(* Execute.                                                                *)

(* Nodes().Get, then Execute's own EnsureScriptConfigMap. *)
GetNode ==
  /\ At("node")
  /\ Continue("create")
  /\ aim' = "script"
  /\ UNCHANGED <<nm, read, term, tail, outcome, namespace, node, adopted>>

GetNodeFails ==
  /\ At("node")
  /\ Fail
  /\ UNCHANGED <<aim, read, term, tail, outcome, namespace, node, adopted>>

(* A pod of that name is taken as it is. *)
TakePod ==
  /\ At("pod")
  /\ pod # NoPod
  /\ Continue("wait")
  /\ adopted' = IF pod.of = nm.of THEN adopted ELSE adopted \cup {nm.of}
  /\ UNCHANGED <<nm, aim, read, term, tail, outcome, namespace, node>>

NoPodYet ==
  /\ At("pod")
  /\ pod = NoPod
  /\ Continue("make")
  /\ UNCHANGED <<nm, aim, read, term, tail, outcome, namespace, node, adopted>>

(* With one worker nobody else can have created the pod in between. *)
CreatePod ==
  /\ At("make")
  /\ pod' = [NoPod EXCEPT !.phase = "Pending", !.of = nm.of]
  /\ Continue("wait")
  /\ UNCHANGED <<nm, aim, read, term, tail, outcome, cms, node, adopted>>

EnsurePodFails ==
  /\ \/ pc \in {"pod", "make"} /\ UNCHANGED pod
     \/ At("make") /\ pod' = [NoPod EXCEPT !.phase = "Pending", !.of = nm.of]
  /\ Fail
  /\ UNCHANGED <<aim, read, term, tail, outcome, cms, node, adopted>>

WaitForPod ==
  /\ At("wait")
  /\ pod.phase \in {"Succeeded", "Failed"}
  /\ term' = pod
  /\ outcome' = pod.phase
  /\ Continue("logs")
  /\ UNCHANGED <<nm, aim, read, tail, namespace, node, adopted>>

(* The deadline, a failing read, a pod that is gone; the pod is left behind. *)
WaitForPodFails ==
  /\ At("wait")
  /\ Fail
  /\ UNCHANGED <<aim, read, term, tail, outcome, namespace, node, adopted>>

(* tailLogs: what can be read of the log ends up in the status.  A pod *)
(* whose container never started has no log.                           *)
TailRead(text) ==
  /\ At("logs")
  /\ tail' = text
  /\ Continue(IF nm.of \in pulls THEN "capture" ELSE "gc")
  /\ UNCHANGED <<nm, aim, read, term, outcome, namespace, node, adopted>>

TailLogs == pod.body # 0 /\ TailRead(Limited(pod.log, TailLimit))
TailLogsFails == TailRead(<<"unread">>)

(* captureOutput, for a run that asks for it, opens the log once more. *)
CaptureLogs ==
  /\ At("capture")
  /\ pod.body # 0
  /\ Continue("create")
  /\ aim' = "output"
  /\ UNCHANGED <<nm, read, term, tail, outcome, namespace, node, adopted>>

(* Without it the action fails, whatever the script did. *)
CaptureLogsFails ==
  /\ At("capture")
  /\ Continue("gc")
  /\ outcome' = "Failed"
  /\ UNCHANGED <<nm, aim, read, term, tail, namespace, node, adopted>>

(* Mutant of GcPod: the outcome of the pod is not looked at. *)
GcPodSucceeds ==
  /\ At("gc")
  /\ pod' \in {pod} \cup (IF KeepPods THEN {} ELSE {NoPod})
  /\ Return("Completed")
  /\ term' = NoPod /\ tail' = <<>> /\ outcome' = ""
  /\ UNCHANGED <<aim, read, cms, node, adopted>>

(* gcPod, whose errors are ignored, and the verdict. *)
GcPod ==
  /\ At("gc")
  /\ pod' \in {pod} \cup (IF KeepPods THEN {} ELSE {NoPod})
  /\ Return(IF outcome = "Succeeded" THEN "Completed" ELSE "Failed")
  /\ term' = NoPod /\ tail' = <<>> /\ outcome' = ""
  /\ UNCHANGED <<aim, read, cms, node, adopted>>

Execute ==
  \/ CreateCM \/ GetCM \/ UpdateCM \/ EnsureFails
  \/ GetNode \/ GetNodeFails
  \/ TakePod \/ NoPodYet \/ CreatePod \/ EnsurePodFails
  \/ WaitForPod \/ WaitForPodFails
  \/ TailLogs \/ TailLogsFails \/ CaptureLogs \/ CaptureLogsFails \/ GcPod

------------------------------------------------------------------------------
(* The kubelet, the node and the garbage collector.                        *)

(* The container starts with the script the ConfigMap holds at that moment. *)
StartPod ==
  /\ pod.phase = "Pending"
  /\ cms["script"] # NoCM
  /\ pod' = [pod EXCEPT !.phase = "Running", !.body = cms["script"].data.by]
  /\ UNCHANGED <<action, cms, node, adopted>>

(* buildPullScript: the file between its two sentinels. *)
Printed(f) == <<"begin">> \o f \o <<"end">>

EndPod(phase, log) == pod' = [pod EXCEPT !.phase = phase, !.log = log]

PullScript ==
  /\ pod.phase = "Running" /\ pod.body \in pulls
  /\ \/ /\ file # NoFile
        /\ EndPod("Succeeded", Printed(file))
        /\ ran' = ran \cup {pod.body}
        /\ sent' = [sent EXCEPT ![pod.body] = @ \cup {file}]
     \/ file = NoFile /\ EndPod("Failed", <<"error">>) /\ UNCHANGED <<ran, sent>>
  /\ UNCHANGED <<action, cms, pulls, file, adopted>>

(* buildPushScript: the file is replaced in one move, at the end. *)
PushScript ==
  /\ pod.phase = "Running" /\ pod.body \notin pulls
  /\ file' = Pushed
  /\ ran' = ran \cup {pod.body}
  /\ EndPod("Succeeded", <<"line">>)
  /\ UNCHANGED <<action, cms, pulls, sent, adopted>>

(* A pod may fail at any time, before its container starts too. *)
FailPod ==
  /\ pod.phase \in {"Pending", "Running"}
  /\ EndPod("Failed", <<"error">>)
  /\ UNCHANGED <<action, cms, node, adopted>>

(* An object none of whose owners lives is deleted; otherwise the owners *)
(* that are gone are struck off its list.                                *)
Collect(k, alive) ==
  /\ cms[k].owners \ alive # {}
  /\ LET left == cms[k].owners \cap alive
     IN cms' = [cms EXCEPT ![k] = IF left = {} THEN NoCM ELSE [cms[k] EXCEPT !.owners = left]]
  /\ UNCHANGED <<action, pod, node, adopted>>
==============================================================================
