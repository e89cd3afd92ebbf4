------------------------------- MODULE CopyFile -------------------------------
(***************************************************************************)
(* kubectl nm push and pull: commands that create a one-node run, wait for *)
(* it, fetch what it printed and delete it, beside the controller that     *)
(* executes the run, people at the same objects, and the cluster.  The     *)
(* commands of this model were given one --name, so that what a run leaves *)
(* behind meets the next one.  There is one controller with one worker.    *)
(***************************************************************************)
EXTENDS ScriptAction

CONSTANTS
  MaxUpsets    \* bound: crashes, failed status writes, and what people do to
               \* the object, the pod and the file

ASSUME CopyFileAssumption == MaxUpsets \in Nat

VARIABLES
  obj,       \* the NodeMaintenance of the name in the API server
  watch,     \* Head is what the informer's cache holds, then what is on its way
  queued,    \* the work queue holds the key
  retry,     \* the key is to be added to the queue after a delay
  command,   \* per command: how far it is
  got,       \* per command: what it has made of the local file, or NoFile
  upsets     \* upsets so far

store == <<obj, watch>>
queue == <<queued, retry>>
client == <<command, got>>
vars == <<scriptVars, store, queue, client, upsets>>

(* Of the status, the phase of the run.  The one node of a run that has *)
(* not ended is Pending: a pass records nothing before its action ends. *)
NoNM == [of |-> 0, rv |-> 0, phase |-> ""]
NMType ==
  [of : Command \cup {0}, rv : Nat, phase : {"", "InProgress", "Completed", "Failed"}]

Init ==
  /\ pulls \in Mix
  /\ nm = NoNM /\ pc = "idle" /\ aim = "" /\ read = NoCM /\ term = NoPod /\ tail = <<>> /\ outcome = ""
  /\ cms = [k \in {"script", "output"} |-> NoCM]
  /\ pod = NoPod
  /\ file \in File \cup {NoFile}
  /\ ran = {} /\ sent = [c \in Command |-> {}] /\ adopted = {}
  /\ obj = NoNM
  /\ watch = <<NoNM>>
  /\ queued = FALSE /\ retry = FALSE
  /\ command = [c \in Command |-> "new"]
  /\ got = [c \in Command |-> NoFile]
  /\ upsets = 0

Upset == upsets < MaxUpsets /\ upsets' = upsets + 1

------------------------------------------------------------------------------
(* The API server and its watch, the work queue, the garbage collector.    *)

Write(new) == obj' = new /\ watch' = Append(watch, new)

Deliver ==
  /\ Len(watch) > 1
  /\ watch' = Tail(watch)
  /\ queued' = TRUE
  /\ UNCHANGED <<scriptVars, obj, retry, client, upsets>>

(* A delayed requeue is due; the pass that asked for it may be long over. *)
Requeue ==
  /\ retry
  /\ queued' = TRUE /\ retry' = FALSE
  /\ UNCHANGED <<scriptVars, store, client, upsets>>

GarbageCollect ==
  /\ \E k \in {"script", "output"} : Collect(k, {obj.of} \ {0})
  /\ UNCHANGED <<store, queue, client, upsets>>

------------------------------------------------------------------------------
(* Reconcile.                                                              *)

Cached == Head(watch)
Picked == pc = "idle" /\ queued

IsOver(o) == o = NoNM \/ o.phase \in {"Completed", "Failed"}

ReturnIfOver ==
  /\ Picked
  /\ IsOver(Cached)
  /\ queued' = FALSE
  /\ UNCHANGED <<scriptVars, store, retry, client, upsets>>

(* The target is named, so resolving it finds it. *)
SeedStatus ==
  /\ Picked
  /\ ~IsOver(Cached) /\ Cached.phase = ""
  /\ nm' = [Cached EXCEPT !.phase = "InProgress"]
  /\ pc' = "seed"
  /\ queued' = FALSE
  /\ UNCHANGED <<aim, read, term, tail, outcome, namespace, node, adopted,
                 store, retry, client, upsets>>

(* The pass renders the script, then steps: the node's one action. *)
BeginPass ==
  /\ Picked
  /\ ~IsOver(Cached) /\ Cached.phase # ""
  /\ nm' = Cached
  /\ pc' = "create" /\ aim' = "render"
  /\ queued' = FALSE
  /\ UNCHANGED <<read, term, tail, outcome, namespace, node, adopted,
                 store, retry, client, upsets>>

ActionStep == Execute /\ UNCHANGED <<store, queue, client, upsets>>

(* Mutant of Forget: the next pass finds the copy of the object. *)
ForgetPartly ==
  /\ nm' = nm /\ pc' = "idle" /\ aim' = "" /\ read' = NoCM
  /\ term' = NoPod /\ tail' = <<>> /\ outcome' = ""
  /\ UNCHANGED <<namespace, node, adopted>>

(* A pass, or the process, keeps nothing for the next. *)
Forget ==
  /\ nm' = NoNM /\ pc' = "idle" /\ aim' = "" /\ read' = NoCM
  /\ term' = NoPod /\ tail' = <<>> /\ outcome' = ""
  /\ UNCHANGED <<namespace, node, adopted>>

Persisting == pc \in {"seed", "done"}
IsCurrent == obj.of = nm.of /\ obj.rv = nm.rv

WriteStatus == Write([obj EXCEPT !.rv = @ + 1, !.phase = nm.phase])

UpdateStatus ==
  /\ Persisting
  /\ IsCurrent
  /\ WriteStatus
  /\ retry' = (retry \/ pc = "seed")
  /\ Forget
  /\ UNCHANGED <<queued, client, upsets>>

(* The object was written since, or is gone: what the pass did is not kept. *)
UpdateConflicts ==
  /\ Persisting
  /\ ~IsCurrent
  /\ retry' = TRUE
  /\ Forget
  /\ UNCHANGED <<store, queued, client, upsets>>

UpdateFails ==
  /\ Upset
  /\ Persisting
  /\ \/ UNCHANGED store
     \/ IsCurrent /\ WriteStatus
  /\ retry' = TRUE
  /\ Forget
  /\ UNCHANGED <<queued, client>>

Crash ==
  /\ Upset
  /\ Forget
  /\ watch' = <<obj>>
  /\ queued' = (obj # NoNM) /\ retry' = FALSE
  /\ UNCHANGED <<obj, client>>

------------------------------------------------------------------------------
(* The commands.                                                           *)

Goto(c, step) == command' = [command EXCEPT ![c] = step]
OnlyCommands == UNCHANGED <<scriptVars, queue, upsets>>

(* createCopyNM.  Commands are numbered in the order they get here. *)
Create(c) ==
  /\ command[c] = "new" /\ \A d \in Command : d < c => command[d] # "new"
  /\ IF obj = NoNM
       THEN Write([of |-> c, rv |-> 1, phase |-> ""]) /\ Goto(c, "wait")
       ELSE Goto(c, "failed") /\ UNCHANGED store
  /\ UNCHANGED got /\ OnlyCommands

(* waitForNMCompletion: one poll by name that ends the wait. *)
SeeCompleted(c) ==
  /\ command[c] = "wait"
  /\ obj.phase = "Completed"
  /\ Goto(c, IF c \in pulls THEN "read" ELSE "summary")
  /\ UNCHANGED <<store, got>> /\ OnlyCommands

(* The run failed, is gone, or did not end in time, or the Get failed.  The *)
(* object stays, and push prints what it can of it.                         *)
GiveUp(c) ==
  /\ command[c] = "wait"
  /\ Goto(c, "failed")
  /\ UNCHANGED <<store, got>> /\ OnlyCommands

(* printNodeSummary reads the object once more. *)
Summarize(c) ==
  /\ command[c] = "summary"
  /\ obj # NoNM
  /\ Goto(c, "delete")
  /\ UNCHANGED <<store, got>> /\ OnlyCommands

(* Mutant of Index: where there is no such chunk, the end of the text. *)
IndexOrEnd(text, chunk) ==
  LET places == {i \in 1..Len(text) : text[i] = chunk}
  IN IF places = {} THEN Len(text) + 1 ELSE CHOOSE i \in places : \A j \in places : i <= j

(* strings.Index: the first such chunk of the text, 0 if there is none. *)
Index(text, chunk) ==
  LET places == {i \in 1..Len(text) : text[i] = chunk}
  IN IF places = {} THEN 0 ELSE CHOOSE i \in places : \A j \in places : i <= j

(* extractPayload accepts the text: both sentinels, in this order. *)
Extracts(text) == Index(text, "begin") > 0 /\ Index(text, "end") > Index(text, "begin")

Payload(text) == SubSeq(text, Index(text, "begin") + 1, Index(text, "end") - 1)

(* The output ConfigMap is read, and there is a payload in it. *)
Read(c) ==
  /\ command[c] = "read"
  /\ cms["output"] # NoCM
  /\ Extracts(cms["output"].data.text)

Fetched == Payload(cms["output"].data.text)

(* It is written to the local file. *)
Fetch(c) ==
  /\ Read(c)
  /\ got' = [got EXCEPT ![c] = Fetched]
  /\ Goto(c, "delete")
  /\ UNCHANGED store /\ OnlyCommands

(* The local file cannot be opened; or it is, which truncates it, and only *)
(* the beginning of the payload gets there.                                *)
WriteFails(c) ==
  /\ Read(c)
  /\ \/ UNCHANGED got
     \/ \E n \in 0..Len(Fetched) : got' = [got EXCEPT ![c] = SubSeq(Fetched, 1, n)]
  /\ Goto(c, "failed")
  /\ UNCHANGED store /\ OnlyCommands

(* No ConfigMap, no payload in it, or a failed call. *)
FetchFails(c) ==
  /\ command[c] \in {"read", "summary"}
  /\ Goto(c, "failed")
  /\ UNCHANGED <<store, got>> /\ OnlyCommands

(* Delete by name, its error ignored, unless --keep was given. *)
Delete(c) ==
  /\ command[c] = "delete"
  /\ Goto(c, "done")
  /\ \/ obj # NoNM /\ Write(NoNM)
     \/ UNCHANGED store
  /\ UNCHANGED got /\ OnlyCommands

------------------------------------------------------------------------------
(* People.                                                                 *)

Edit ==
  /\ Upset
  /\ UNCHANGED <<action, pulls, ran, sent, adopted, queue, client>>

DeleteNM == Edit /\ obj # NoNM /\ Write(NoNM) /\ UNCHANGED <<namespace, file>>

(* An edit of the object that the controller does not look at. *)
Annotate ==
  /\ Edit
  /\ obj # NoNM
  /\ Write([obj EXCEPT !.rv = @ + 1])
  /\ UNCHANGED <<namespace, file>>

DeletePod == Edit /\ pod # NoPod /\ pod' = NoPod /\ UNCHANGED <<cms, file, store>>

ChangeFile ==
  /\ Edit
  /\ file' \in File \ {file}
  /\ UNCHANGED <<namespace, store>>

------------------------------------------------------------------------------
Reconcile ==
  \/ ReturnIfOver \/ SeedStatus \/ BeginPass \/ ActionStep
  \/ UpdateStatus \/ UpdateConflicts

Kubelet ==
  /\ StartPod \/ PullScript \/ PushScript \/ FailPod
  /\ UNCHANGED <<store, queue, client, upsets>>

Client(c) ==
  \/ Create(c) \/ SeeCompleted(c) \/ GiveUp(c) \/ Summarize(c)
  \/ Fetch(c) \/ WriteFails(c) \/ FetchFails(c) \/ Delete(c)

People == DeleteNM \/ Annotate \/ DeletePod \/ ChangeFile

Next ==
  \/ Reconcile \/ Deliver \/ Requeue
  \/ UpdateFails \/ Crash
  \/ Kubelet \/ GarbageCollect
  \/ \E c \in Command : Client(c)
  \/ People

(* The worker goes on, the watch delivers, and the cluster's garbage *)
(* collector gets round to every object.                             *)
Fairness == WF_vars(Reconcile) /\ WF_vars(Deliver) /\ WF_vars(GarbageCollect)

Spec == Init /\ [][Next]_vars
FairSpec == Spec /\ Fairness

------------------------------------------------------------------------------
(* Types; the worker has an object exactly while it is at work on it. *)
TypeOK ==
  /\ pulls \in Mix
  /\ nm = NoNM <=> pc = "idle"
  /\ nm \in NMType /\ obj \in NMType /\ watch \in Seq(NMType) \ {<<>>}
  /\ pc \in {"idle", "seed", "create", "get", "update", "node", "pod", "make",
             "wait", "logs", "capture", "gc", "done"}
  /\ aim \in {"", "render", "script", "output"}
  /\ read \in CMType /\ term \in PodType /\ tail \in Text
  /\ outcome \in {"", "Succeeded", "Failed"}
  /\ cms \in [{"script", "output"} -> CMType] /\ pod \in PodType
  /\ file \in File \cup {NoFile}
  /\ ran \subseteq Command /\ sent \in [Command -> SUBSET File] /\ adopted \subseteq Command
  /\ queued \in BOOLEAN /\ retry \in BOOLEAN
  /\ command \in [Command -> {"new", "wait", "summary", "read", "delete", "done", "failed"}]
  /\ got \in [Command -> Seq(Block) \cup {NoFile}]
  /\ upsets \in 0..MaxUpsets

(* A run recorded as Completed had its own script succeed on the node, in  *)
(* whatever state the ConfigMap of its name was found, unless it took over *)
(* a pod that an earlier run of the name had left behind.                  *)
CompletedRunRan ==
  obj.phase = "Completed" => obj.of \in ran \cup adopted

(* While a completed pull lives, its output ConfigMap is there, belongs to *)
(* it, and holds what its own script printed: neither an earlier run's     *)
(* leavings nor the collector that comes for them get in the way.          *)
CompletedPullHasOutput ==
  obj.phase = "Completed" /\ obj.of \in pulls =>
    /\ obj.of \in cms["output"].owners
    /\ obj.of \notin adopted => cms["output"].data.by = obj.of

(* A pull that goes on to report success has left, as the local file, one   *)
(* that a script of the name printed, all of it: what was cut at the limit  *)
(* of the ConfigMap, or written in part, is never taken for the file.  As   *)
(* long as the run of the name is its own, that script was its own too,     *)
(* unless its run took over an earlier run's pod.                           *)
PullDelivers ==
  \A c \in pulls : command[c] \in {"delete", "done"} =>
    /\ \E d \in Command : got[c] \in sent[d]
    /\ obj.of = c /\ c \notin adopted => got[c] \in sent[c]

(* Once no run of the name lives, both its ConfigMaps go away in the end, *)
(* also those that a pass wrote for a run that was deleted meanwhile.     *)
NothingLeft ==
  <>[](obj = NoNM) => <>[](\A k \in {"script", "output"} : cms[k] = NoCM)

------------------------------------------------------------------------------
(* What the documentation says and the code does not keep.                 *)

(* copy.go: "Reading the CM after completion is race-free".  The output of *)
(* a completed run is not written again while the run lives.               *)
OutputSettled ==
  [][obj.phase = "Completed" /\ obj.of \in pulls /\ obj'.of = obj.of
       => cms'["output"].data = cms["output"].data]_vars

(* nodemaintenance_types.go: ScriptLogTail is "the last few KB" of what the *)
(* runner pod printed.  The log that the action reads is kept with its end. *)
TailIsTheEnd ==
  [][pc = "logs" /\ pc' # "logs" /\ tail' \notin {<<>>, <<"unread">>}
       => tail'[Len(tail')] = pod.log[Len(pod.log)]]_vars
==============================================================================
