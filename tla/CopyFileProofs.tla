---------------------------- MODULE CopyFileProofs ----------------------------
(***************************************************************************)
(* What a completed push or pull stands for, for any number of runs of one *)
(* name, any files and limits, and any number of upsets.                   *)
(***************************************************************************)
EXTENDS CopyFile, SequenceTheorems, TLAPS

(* TypeOK, of the variables that the argument is about. *)
Types ==
  /\ pulls \subseteq Command
  /\ nm \in NMType
  /\ pc \in {"idle", "seed", "create", "get", "update", "node", "pod", "make",
             "wait", "logs", "capture", "gc", "done"}
  /\ read \in CMType /\ term \in PodType
  /\ outcome \in {"", "Succeeded", "Failed"}
  /\ cms \in [{"script", "output"} -> CMType] /\ pod \in PodType
  /\ file \in File \cup {NoFile} /\ ran \subseteq Command /\ adopted \subseteq Command
  /\ obj \in NMType /\ watch \in Seq(NMType) \ {<<>>}
  /\ command \in [Command -> {"new", "wait", "summary", "read", "delete", "done", "failed"}]

Seen == 1..Len(watch)
IsNew(c) == command[c] = "new"
Named(o) == o.of = 0 => o = NoNM

(* The informer gets to know the runs of the name in their order. *)
Ordered ==
  /\ obj = watch[Len(watch)]
  /\ \A i \in Seen : Named(watch[i])
  /\ \A i, j \in Seen : i <= j /\ watch[j].of # 0 => watch[i].of <= watch[j].of
  /\ \A i \in Seen, c \in Command : IsNew(c) => watch[i].of < c

(* No run before x is going to be seen. *)
Past(x) ==
  /\ \A i \in Seen : watch[i].of # 0 => x <= watch[i].of
  /\ \A c \in Command : IsNew(c) => x < c

Busy == pc # "idle"
Left(x) == Past(x) /\ (Busy => x <= nm.of)

script == cms["script"]
output == cms["output"]

(* What is found under the name is of the run at work, or of an earlier one. *)
LeftBehind ==
  /\ Named(nm) /\ (nm = NoNM <=> ~Busy)
  /\ Past(nm.of) /\ Left(script.data.by) /\ Left(pod.of) /\ Left(pod.body)

(* A pod runs the script of its run, or that of a later one. *)
PodKnows ==
  /\ script # NoCM => script.data.by # 0
  /\ pod.phase = "Running" => pod.body # 0
  /\ pod.phase = "Pending" /\ script # NoCM => pod.of <= script.data.by
  /\ pod.body # 0 => pod.of <= pod.body
  /\ pod.phase = "Succeeded" => pod.body \in ran

Ran(c) == c \in ran \cup adopted
Own(c, x) == c \in adopted \/ x = c

WorkerKnows ==
  /\ pc \in {"create", "get", "update"} => aim \in {"render", "script", "output"}
  /\ pc = "seed" => nm.phase = "InProgress"
  /\ pc \in {"pod", "make"} => script = NoCM \/ script.data.by = nm.of
  /\ pc \in {"wait", "logs", "capture"} => pod = NoPod \/ Own(nm.of, pod.of)
  /\ pc \in {"logs", "capture"} => pod \in {NoPod, term} /\ term.phase \in {"Succeeded", "Failed"}
  /\ ~Busy => outcome = ""
  /\ pc \in {"create", "get", "update"} /\ aim = "output" => Own(nm.of, term.body)
  /\ outcome = "Succeeded" => Ran(nm.of)
  /\ nm.phase = "Completed" => Ran(nm.of)

Secured(c) == c \in output.owners /\ Own(c, output.data.by)

(* From the capture on the output is the run's, for as long as it lives. *)
OutputKnown ==
  /\ obj.phase = "Completed" =>
       nm.of \in {0, obj.of} /\ \A i \in Seen : watch[i].of \in {0, obj.of}
  /\ \/ pc = "gc" /\ outcome = "Succeeded"
     \/ pc = "done" /\ nm.phase = "Completed"
     => (nm.of \in pulls /\ nm.of = obj.of => Secured(nm.of))
  /\ obj.phase = "Completed" => Ran(obj.of) /\ (obj.of \in pulls => Secured(obj.of))

CopyInv == Types /\ Ordered /\ LeftBehind /\ PodKnows /\ WorkerKnows /\ OutputKnown

------------------------------------------------------------------------------
(* Lemmas about the data.                                                  *)

LEMMA CommandNat == Command \subseteq Nat \ {0}
BY ScriptActionAssumption

LEMMA IdNat == Command \cup {0} \subseteq Nat
<1>1. 0 \in Nat /\ \A c \in Command : c \in Nat
  BY CommandNat
<1>2. QED  BY <1>1

LEMMA OfNat ==
  ASSUME NEW o \in NMType PROVE o.of \in Nat /\ o.of \in Command \cup {0}
<1>1. o.of \in Command \cup {0}
  BY DEF NMType
<1>2. QED  BY <1>1, IdNat

LEMMA NoNMFields == NoNM \in NMType /\ NoNM.of = 0 /\ NoNM.phase = ""
BY DEF NoNM, NMType

LEMMA EmptyText == <<>> \in Text
BY EmptySeq DEF Text

LEMMA NoCMFields == NoCM \in CMType /\ NoCM.data.by = 0 /\ NoCM.owners = {}
BY EmptyText DEF NoCM, CMType, DataType

LEMMA NoPodFields ==
  /\ NoPod \in PodType /\ NoPod.of = 0 /\ NoPod.body = 0 /\ NoPod.phase = "absent"
BY EmptyText DEF NoPod, PodType

LEMMA LimitedText ==
  ASSUME NEW text \in Text, NEW limit \in Nat
  PROVE  Limited(text, limit) \in Text
<1>1. Len(text) \in Nat
  BY LenProperties DEF Text
<1> DEFINE n == IF Len(text) < limit THEN Len(text) ELSE limit
<1>2. \A i \in 1..n : i \in 1..Len(text)
  BY <1>1
<1>3. n \in Nat
  BY <1>1
<1>4. QED  BY <1>1, <1>2, <1>3, SubSeqProperties DEF Text, Limited

LEMMA OneLine == ASSUME NEW chunk \in Line PROVE <<chunk>> \in Text
<1>1. chunk \in Chunk
  BY DEF Chunk
<1>2. QED  BY <1>1 DEF Text

LEMMA PrintedText == ASSUME NEW f \in Seq(Block) PROVE Printed(f) \in Text
<1>1. f \in Seq(Chunk)
  <2>1. \A i \in 1..Len(f) : f[i] \in Chunk
    BY ElementOfSeq DEF Chunk
  <2>2. Len(f) \in Nat /\ DOMAIN f = 1..Len(f) /\ f = [i \in 1..Len(f) |-> f[i]]
    BY LenProperties
  <2>3. QED  BY <2>1, <2>2, IsASeq
<1>2. <<"begin">> \in Seq(Chunk) /\ <<"end">> \in Seq(Chunk)
  BY OneLine DEF Line, Text
<1>3. <<"begin">> \o f \in Seq(Chunk)
  BY <1>1, <1>2, ConcatProperties
<1>4. QED  BY <1>2, <1>3, ConcatProperties DEF Printed, Text

LEMMA DataFields ==
  ASSUME Types
  PROVE  /\ Data \in DataType
         /\ Data.by = IF aim = "output" THEN term.body ELSE nm.of
<1>1. term.log \in Text /\ term.body \in Command \cup {0} /\ nm.of \in Command \cup {0}
  BY DEF Types, PodType, NMType
<1>2. Limited(term.log, CaptureLimit) \in Text
  BY <1>1, LimitedText, ScriptActionAssumption
<1>3. QED  BY <1>1, <1>2, EmptyText DEF Data, DataType

LEMMA EnsuredFields ==
  ASSUME NEW old \in CMType, NEW data \in DataType, NEW uid \in Command
  PROVE  /\ Fresh(data, uid) \in CMType /\ Merged(old, data, uid) \in CMType
         /\ Fresh(data, uid).data = data /\ Merged(old, data, uid).data = data
         /\ uid \in Fresh(data, uid).owners /\ uid \in Merged(old, data, uid).owners
BY DEF Fresh, Merged, CMType
------------------------------------------------------------------------------
(* The worker, beside an object that nobody writes.                        *)

StoreStands == UNCHANGED <<obj, watch, command, pulls>>

LEMMA PastStands == ASSUME StoreStands, NEW x, Past(x) PROVE Past(x)'
BY DEF StoreStands, Past, Seen, IsNew

LEMMA OrderedStands == ASSUME Ordered, StoreStands PROVE Ordered'
BY DEF Ordered, StoreStands, Seen, IsNew, Named

LEMMA PastZero == ASSUME Types PROVE Past(0)
<1>1. \A i \in Seen : watch[i] \in NMType
  BY ElementOfSeq DEF Types, Seen
<1>2. \A i \in Seen : 0 <= watch[i].of
  <2>1. \A i \in Seen : watch[i].of \in Nat
    BY <1>1, OfNat
  <2>2. \A n \in Nat : 0 <= n
    OBVIOUS
  <2>3. QED  BY <2>1, <2>2
<1>3. \A c \in Command : 0 < c
  BY CommandNat
<1>4. QED  BY <1>2, <1>3 DEF Past

(* What is written for the run at work has the place of that run. *)
LEMMA LeftSteps ==
  ASSUME Types, LeftBehind, StoreStands, Busy, Busy', nm'.of = nm.of,
         nm' \in NMType, Named(nm'),
         script'.data.by \in {0, nm.of, script.data.by},
         pod'.of \in {0, nm.of, pod.of},
         pod'.body \in {0, pod.body, script.data.by}
  PROVE  LeftBehind'
<1>1. nm.of \in Nat /\ nm.of # 0 /\ nm'.of = nm.of
  BY OfNat DEF Types, LeftBehind, Named
<1>2. nm' # NoNM
  BY <1>1, NoNMFields
<1>3. Past(0) /\ Past(nm.of) /\ Left(script.data.by) /\ Left(pod.of) /\ Left(pod.body)
  BY PastZero DEF LeftBehind
<1>4. 0 <= nm.of /\ nm.of <= nm.of
  BY <1>1
<1>5. \A x \in {0, nm.of, script.data.by, pod.of, pod.body} : Past(x)' /\ x <= nm.of
  BY <1>3, <1>4, PastStands DEF Left
<1>6. Left(script.data.by)' /\ Left(pod.of)' /\ Left(pod.body)' /\ Past(nm.of)'
  BY <1>1, <1>5 DEF Left, Past, Seen, IsNew
<1>7. QED  BY <1>2, <1>6 DEF LeftBehind, Named, Busy

(* The calls that put a ConfigMap in place, whether or not they do. *)
LEMMA EnsureKeeps ==
  ASSUME CopyInv, StoreStands, pc \in {"create", "get", "update"}, read' \in CMType,
         cms' \in [{"script", "output"} -> CMType],
         \/ script' = script
         \/ aim # "output" /\ script'.data.by = nm.of,
         \/ output' = output
         \/ aim = "output" /\ output'.data.by = term.body /\ nm.of \in output'.owners,
         \/ pc' \in {"get", "update"} /\ UNCHANGED <<nm, outcome>>
         \/ NotEnsured
         \/ /\ Ensured /\ UNCHANGED <<nm, outcome>>
            /\ aim = "output" => output'.data.by = term.body /\ nm.of \in output'.owners
            /\ aim # "output" => script'.data.by = nm.of,
         UNCHANGED <<aim, term, tail, pod, file, ran, adopted>>
  PROVE  CopyInv'
<1> USE DEF CopyInv
<1>1. /\ nm'.of = nm.of /\ nm' \in NMType /\ outcome' \in {outcome, "Failed"}
      /\ nm' = nm \/ nm'.phase = "Failed"
      /\ pc' \in {"get", "update", "node", "pod", "gc", "done"}
  BY DEF Types, NotEnsured, Ensured, Fail, Return, NMType
<1>2. Types'
  BY <1>1 DEF Types, StoreStands
<1>3. Busy /\ Busy' /\ Named(nm')
  BY <1>1 DEF LeftBehind, Named, Busy, NotEnsured, Ensured, Fail, Return
<1>4. LeftBehind'
  BY <1>1, <1>3, LeftSteps
<1>5. PodKnows'
  <2>1. nm.of # 0 /\ pod.of <= nm.of
    BY <1>3 DEF LeftBehind, Left, Named
  <2>2. script' # NoCM => script'.data.by # 0
    BY <2>1 DEF PodKnows
  <2>3. pod.phase = "Pending" /\ script' # NoCM => pod.of <= script'.data.by
    BY <2>1 DEF PodKnows
  <2>4. QED  BY <2>2, <2>3 DEF PodKnows
<1>6. WorkerKnows'
  <2>1. pc' \in {"get", "update"} => aim' \in {"render", "script", "output"}
    BY DEF WorkerKnows
  <2>2. pc' = "pod" => script'.data.by = nm'.of
    BY <1>1 DEF WorkerKnows, Ensured, NotEnsured, Fail, Return
  <2>3. pc' \in {"get", "update"} /\ aim' = "output" => Own(nm.of, term.body)'
    BY <1>1 DEF WorkerKnows, Own
  <2>4. (outcome' = "Succeeded" => Ran(nm.of)') /\ (nm'.phase = "Completed" => Ran(nm.of)')
    BY <1>1 DEF WorkerKnows, Ran
  <2>5. QED  BY <1>1, <1>3, <2>1, <2>2, <2>3, <2>4 DEF WorkerKnows
<1>7. OutputKnown'
  <2>1. output' = output \/ (Own(nm.of, output'.data.by) /\ nm.of \in output'.owners)
    BY DEF WorkerKnows
  <2>2. nm.of # 0
    BY <1>3 DEF LeftBehind, Named
  <2>3. obj.phase = "Completed" => obj.of = nm.of
    BY <2>2 DEF OutputKnown
  <2>4. obj.phase = "Completed" => Ran(obj.of)' /\ (obj.of \in pulls => Secured(obj.of)')
    BY <2>1, <2>3 DEF OutputKnown, Ran, Secured, Own, StoreStands
  <2>5. pc' = "gc" /\ outcome' = "Succeeded" => Secured(nm.of)'
    BY <1>1 DEF Ensured, NotEnsured, Fail, Return, WorkerKnows, Secured, Own
  <2>6. pc' = "done" => nm'.phase # "Completed"
    BY <1>1 DEF Ensured, NotEnsured, Fail, Return, Types, NMType
  <2>7. QED
    BY <1>1, <2>4, <2>5, <2>6 DEF OutputKnown, StoreStands, Seen, Secured, Own, Ran
<1>8. QED  BY <1>2, <1>4, <1>5, <1>6, <1>7, OrderedStands

(* What the three calls do to the ConfigMaps. *)
LEMMA PutFields ==
  ASSUME CopyInv, pc \in {"create", "update"}, NEW new \in CMType,
         new.data = Data, nm.of \in new.owners, cms' = [cms EXCEPT ![Which] = new]
  PROVE  /\ cms' \in [{"script", "output"} -> CMType]
         /\ aim = "output" => /\ script' = script /\ output'.data.by = term.body
                              /\ nm.of \in output'.owners
         /\ aim # "output" => output' = output /\ script'.data.by = nm.of
<1>1. cms \in [{"script", "output"} -> CMType]
  BY DEF CopyInv, Types
<1>2. Data.by = IF aim = "output" THEN term.body ELSE nm.of
  BY DataFields DEF CopyInv
<1>3. CASE aim = "output"
  <2>1. cms' = [cms EXCEPT !["output"] = new]
    BY <1>3 DEF Which
  <2>2. cms' \in [{"script", "output"} -> CMType] /\ script' = script /\ output' = new
    BY <1>1, <2>1 DEF script, output
  <2>3. QED  BY <1>2, <1>3, <2>2
<1>4. CASE aim # "output"
  <2>1. cms' = [cms EXCEPT !["script"] = new]
    BY <1>4 DEF Which
  <2>2. cms' \in [{"script", "output"} -> CMType] /\ script' = new /\ output' = output
    BY <1>1, <2>1 DEF script, output
  <2>3. QED  BY <1>2, <1>4, <2>2
<1>5. QED  BY <1>3, <1>4

LEMMA AtWork == ASSUME CopyInv, Busy PROVE nm.of \in Command
BY DEF CopyInv, Types, LeftBehind, Named, NMType

LEMMA FreshPut ==
  ASSUME CopyInv, Busy, NEW old \in CMType
  PROVE  /\ Fresh(Data, nm.of) \in CMType /\ Fresh(Data, nm.of).data = Data
         /\ nm.of \in Fresh(Data, nm.of).owners
         /\ Merged(old, Data, nm.of) \in CMType /\ Merged(old, Data, nm.of).data = Data
         /\ nm.of \in Merged(old, Data, nm.of).owners
<1>1. Data \in DataType
  BY DataFields DEF CopyInv
<1>2. QED  BY <1>1, AtWork, EnsuredFields

LEMMA CreateCMKeeps == ASSUME CopyInv, CreateCM, StoreStands PROVE CopyInv'
<1>1. /\ pc = "create" /\ Busy /\ read \in CMType /\ read' = read
      /\ cms \in [{"script", "output"} -> CMType]
  BY DEF CreateCM, At, Busy, CopyInv, Types
<1>2. UNCHANGED <<nm, outcome, aim, term, tail, pod, file, ran, adopted>>
  BY DEF CreateCM, node
<1>3. CASE cms' = [cms EXCEPT ![Which] = Fresh(Data, nm.of)] /\ Ensured
  <2>1. /\ cms' \in [{"script", "output"} -> CMType]
        /\ aim = "output" => /\ script' = script /\ output'.data.by = term.body
                             /\ nm.of \in output'.owners
        /\ aim # "output" => output' = output /\ script'.data.by = nm.of
    BY <1>1, <1>3, FreshPut, PutFields
  <2>2. QED  BY <1>1, <1>2, <1>3, <2>1, EnsureKeeps
<1>4. CASE pc' = "get" /\ cms' = cms
  BY <1>1, <1>2, <1>4, EnsureKeeps DEF script, output
<1>5. QED  BY <1>3, <1>4 DEF CreateCM, Continue

LEMMA GetCMKeeps == ASSUME CopyInv, GetCM, StoreStands PROVE CopyInv'
<1>1. /\ pc = "get" /\ read' = cms[Which] /\ pc' = "update"
      /\ cms \in [{"script", "output"} -> CMType] /\ cms' = cms
  BY DEF GetCM, At, Continue, namespace, CopyInv, Types
<1>2. read' \in CMType
  BY <1>1 DEF Which
<1>3. UNCHANGED <<nm, outcome, aim, term, tail, pod, file, ran, adopted>>
  BY DEF GetCM, node, namespace
<1>4. QED  BY <1>1, <1>2, <1>3, EnsureKeeps DEF script, output

LEMMA UpdateCMKeeps == ASSUME CopyInv, UpdateCM, StoreStands PROVE CopyInv'
<1>1. /\ pc = "update" /\ Busy /\ read' = NoCM /\ Ensured /\ read \in CMType
      /\ cms' = [cms EXCEPT ![Which] = Merged(read, Data, nm.of)]
  BY DEF UpdateCM, At, Busy, CopyInv, Types
<1>2. UNCHANGED <<nm, outcome, aim, term, tail, pod, file, ran, adopted>>
  BY DEF UpdateCM, node
<1>3. /\ cms' \in [{"script", "output"} -> CMType]
      /\ aim = "output" => /\ script' = script /\ output'.data.by = term.body
                           /\ nm.of \in output'.owners
      /\ aim # "output" => output' = output /\ script'.data.by = nm.of
  BY <1>1, FreshPut, PutFields
<1>4. QED  BY <1>1, <1>2, <1>3, NoCMFields, EnsureKeeps

LEMMA EnsureFailsKeeps == ASSUME CopyInv, EnsureFails, StoreStands PROVE CopyInv'
<1>1. /\ pc \in {"create", "get", "update"} /\ Busy /\ read' = NoCM /\ NotEnsured
      /\ read \in CMType /\ cms \in [{"script", "output"} -> CMType]
  BY DEF EnsureFails, At, Busy, CopyInv, Types
<1>2. UNCHANGED <<aim, term, tail, pod, file, ran, adopted>>
  BY DEF EnsureFails, node
<1>3. CASE cms' = cms
  BY <1>1, <1>2, <1>3, NoCMFields, EnsureKeeps DEF script, output
<1>4. CASE pc = "create" /\ cms' = [cms EXCEPT ![Which] = Fresh(Data, nm.of)]
  <2>1. /\ cms' \in [{"script", "output"} -> CMType]
        /\ aim = "output" => /\ script' = script /\ output'.data.by = term.body
                             /\ nm.of \in output'.owners
        /\ aim # "output" => output' = output /\ script'.data.by = nm.of
    BY <1>1, <1>4, FreshPut, PutFields
  <2>2. QED  BY <1>1, <1>2, <2>1, NoCMFields, EnsureKeeps
<1>5. CASE pc = "update" /\ cms' = [cms EXCEPT ![Which] = Merged(read, Data, nm.of)]
  <2>1. /\ cms' \in [{"script", "output"} -> CMType]
        /\ aim = "output" => /\ script' = script /\ output'.data.by = term.body
                             /\ nm.of \in output'.owners
        /\ aim # "output" => output' = output /\ script'.data.by = nm.of
    BY <1>1, <1>5, FreshPut, PutFields
  <2>2. QED  BY <1>1, <1>2, <2>1, NoCMFields, EnsureKeeps
<1>6. QED  BY <1>3, <1>4, <1>5 DEF EnsureFails, At

(* The action's steps write neither the object nor what a command has got to. *)
LEMMA StepStands == ASSUME ActionStep PROVE StoreStands
BY DEF ActionStep, StoreStands, store, client, node, namespace, Execute, CreateCM, GetCM,
       UpdateCM, EnsureFails, GetNode, GetNodeFails, TakePod, NoPodYet, CreatePod,
       EnsurePodFails, WaitForPod, WaitForPodFails, TailLogs, TailLogsFails, TailRead,
       CaptureLogs, CaptureLogsFails, GcPod

(* The rest of Execute leaves the ConfigMaps alone. *)
LEMMA CallKeeps ==
  ASSUME CopyInv, StoreStands, Busy, cms' = cms, read' = read,
         pc' \in {"create", "get", "update", "node", "pod", "make", "wait", "logs", "capture",
                  "gc", "done"},
         nm' = nm \/ (nm' = [nm EXCEPT !.phase = "Failed"] /\ pc' = "done"),
         term' \in PodType, outcome' \in {"", "Succeeded", "Failed"}, pod' \in PodType,
         UNCHANGED <<file, ran>>, adopted' \subseteq Command, adopted \subseteq adopted',
         \/ pod' = pod
         \/ pod'.of \in {0, nm.of} /\ pod'.body = 0 /\ pod'.phase \notin {"Running", "Succeeded"},
         pod'.phase = "Pending" /\ script # NoCM => pod'.of <= script.data.by,
         WorkerKnows',
         pc' = "gc" /\ outcome' = "Succeeded" => nm.of \notin pulls,
         pc' = "done" => nm'.phase # "Completed"
  PROVE  CopyInv'
<1> USE DEF CopyInv
<1>1. nm'.of = nm.of /\ nm' \in NMType
  <2>1. nm \in NMType
    BY DEF Types
  <2>2. [nm EXCEPT !.phase = "Failed"] \in NMType /\ [nm EXCEPT !.phase = "Failed"].of = nm.of
    BY <2>1 DEF NMType
  <2>3. QED  BY <2>1, <2>2
<1>2. Types'
  BY <1>1 DEF Types, StoreStands
<1>3. Busy' /\ Named(nm')
  BY <1>1 DEF LeftBehind, Named, Busy
<1>4. LeftBehind'
  BY <1>1, <1>3, LeftSteps DEF script
<1>5. PodKnows'
  BY DEF PodKnows, script
<1>6. OutputKnown'
  BY <1>1 DEF OutputKnown, StoreStands, Seen, Secured, Own, Ran, output
<1>7. QED  BY <1>2, <1>4, <1>5, <1>6, OrderedStands

(* A call that fails the action, or only leads on to the next one. *)
LEMMA PlainKeeps ==
  ASSUME CopyInv, StoreStands, Busy,
         UNCHANGED <<read, term, outcome, namespace, node, adopted>>,
         \/ Fail
         \/ nm' = nm /\ pc = "node" /\ pc' = "create" /\ aim' = "script"
         \/ nm' = nm /\ pc = "pod" /\ pc' = "make" /\ UNCHANGED aim
  PROVE  CopyInv'
<1>1. nm' = nm \/ (nm' = [nm EXCEPT !.phase = "Failed"] /\ pc' = "done")
  BY DEF Fail, Return
<1>2. /\ pc' \in {"create", "make", "done"} /\ cms' = cms /\ pod' = pod /\ file' = file
      /\ ran' = ran
  BY DEF Fail, Return, namespace, node
<1>3. /\ pc' = "done" => nm'.phase # "Completed"
      /\ pc' # "done" => nm' = nm
      /\ nm'.of = nm.of
  BY DEF Fail, Return, CopyInv, Types, NMType
<1>4. WorkerKnows'
  BY <1>1, <1>2, <1>3 DEF CopyInv, WorkerKnows, Fail, Return, Busy, Own, Ran, script
<1>5. pod.phase = "Pending" /\ script # NoCM => pod.of <= script.data.by
  BY DEF CopyInv, PodKnows
<1>6. /\ term' \in PodType /\ pod' \in PodType /\ outcome' \in {"", "Succeeded", "Failed"}
      /\ adopted' \subseteq Command /\ adopted \subseteq adopted' /\ read' = read
  BY <1>2 DEF CopyInv, Types
<1>7. QED  BY <1>1, <1>2, <1>3, <1>4, <1>5, <1>6, CallKeeps

LEMMA TakePodKeeps == ASSUME CopyInv, TakePod, StoreStands PROVE CopyInv'
<1>1. /\ pc = "pod" /\ pc' = "wait" /\ Busy /\ pod' = pod /\ cms' = cms /\ nm' = nm
      /\ file' = file /\ ran' = ran /\ outcome' = outcome /\ term' = term /\ read' = read
      /\ aim' = aim
  BY DEF TakePod, At, Continue, Busy, namespace, node
<1>2. /\ adopted' \subseteq Command /\ adopted \subseteq adopted'
      /\ pod.of = nm.of \/ nm.of \in adopted'
  BY <1>1, AtWork DEF TakePod, CopyInv, Types
<1>3. WorkerKnows'
  BY <1>1, <1>2 DEF CopyInv, WorkerKnows, Busy, Own, Ran
<1>4. /\ term' \in PodType /\ pod' \in PodType /\ outcome' \in {"", "Succeeded", "Failed"}
      /\ pod.phase = "Pending" /\ script # NoCM => pod.of <= script.data.by
  BY <1>1 DEF CopyInv, Types, PodKnows
<1>5. QED  BY <1>1, <1>2, <1>3, <1>4, CallKeeps

(* The pod is created for the run whose script was just rendered. *)
LEMMA CreatePodKeeps ==
  ASSUME CopyInv, StoreStands, pc \in {"pod", "make"},
         pod' = [NoPod EXCEPT !.phase = "Pending", !.of = nm.of],
         \/ pc' = "wait" /\ nm' = nm
         \/ Fail,
         UNCHANGED <<aim, read, term, outcome, cms, node, adopted>>
  PROVE  CopyInv'
<1>1. /\ Busy /\ file' = file /\ ran' = ran /\ pc' \in {"wait", "done"}
      /\ nm' = nm \/ (nm' = [nm EXCEPT !.phase = "Failed"] /\ pc' = "done")
      /\ pc' # "done" => nm' = nm
  BY DEF Busy, node, Fail, Return
<1>2. nm.of \in Command /\ nm.of \in Nat
  BY <1>1, AtWork, CommandNat
<1>3. /\ pod'.of = nm.of /\ pod'.body = 0 /\ pod'.phase = "Pending" /\ pod' \in PodType
  BY <1>2, NoPodFields DEF PodType
<1>4. script # NoCM => pod'.of <= script.data.by
  <2>1. nm.of <= nm.of
    BY <1>2
  <2>2. script # NoCM => script.data.by = nm.of
    BY DEF CopyInv, WorkerKnows
  <2>3. QED  BY <1>3, <2>1, <2>2
<1>5. (pc' = "done" => nm'.phase # "Completed") /\ nm'.of = nm.of
  BY DEF Fail, Return, CopyInv, Types, NMType
<1>6. WorkerKnows'
  BY <1>1, <1>3, <1>5 DEF CopyInv, WorkerKnows, Busy, Own, Ran
<1>7. /\ term' \in PodType /\ outcome' \in {"", "Succeeded", "Failed"}
      /\ adopted' \subseteq Command
  BY DEF CopyInv, Types
<1>8. QED  BY <1>1, <1>3, <1>4, <1>5, <1>6, <1>7, CallKeeps

(* The pod of a run, once started, runs that run's own script. *)
LEMMA OwnBody ==
  ASSUME CopyInv, Busy, pod.body # 0, Own(nm.of, pod.of)
  PROVE  Own(nm.of, pod.body)
<1>1. /\ nm.of \in Nat /\ pod.of \in Nat /\ pod.body \in Nat
  <2>1. {nm.of, pod.of, pod.body} \subseteq Command \cup {0}
    BY DEF CopyInv, Types, PodType, NMType
  <2>2. QED  BY <2>1, IdNat
<1>2. pod.of <= pod.body /\ pod.body <= nm.of
  BY DEF CopyInv, PodKnows, LeftBehind, Left
<1>3. pod.of = nm.of => pod.body = nm.of
  BY <1>1, <1>2
<1>4. QED  BY <1>3 DEF Own

LEMMA WaitForPodKeeps == ASSUME CopyInv, WaitForPod, StoreStands PROVE CopyInv'
<1>1. /\ pc = "wait" /\ pc' = "logs" /\ Busy /\ pod' = pod /\ cms' = cms /\ nm' = nm
      /\ file' = file /\ ran' = ran /\ adopted' = adopted /\ term' = pod /\ read' = read
      /\ aim' = aim /\ outcome' = pod.phase /\ pod.phase \in {"Succeeded", "Failed"}
  BY DEF WaitForPod, At, Continue, Busy, namespace, node
<1>2. pod # NoPod
  BY <1>1, NoPodFields
<1>3. pod.phase = "Succeeded" => Ran(nm.of)
  <2> SUFFICES ASSUME pod.phase = "Succeeded" PROVE Ran(nm.of)
    OBVIOUS
  <2>1. pod.body \in ran /\ pod.body # 0
    BY CommandNat DEF CopyInv, PodKnows, Types
  <2>2. Own(nm.of, pod.of)
    BY <1>1, <1>2 DEF CopyInv, WorkerKnows
  <2>3. Own(nm.of, pod.body)
    BY <1>1, <2>1, <2>2, OwnBody
  <2>4. QED  BY <2>1, <2>3 DEF Own, Ran
<1>4. WorkerKnows'
  BY <1>1, <1>3 DEF CopyInv, WorkerKnows, Busy, Own, Ran
<1>5. /\ term' \in PodType /\ pod' \in PodType /\ outcome' \in {"", "Succeeded", "Failed"}
      /\ pod.phase = "Pending" /\ script # NoCM => pod.of <= script.data.by
      /\ adopted' \subseteq Command
  BY <1>1 DEF CopyInv, Types, PodKnows
<1>6. QED  BY <1>1, <1>4, <1>5, CallKeeps

LEMMA TailReadKeeps ==
  ASSUME CopyInv, NEW text, TailRead(text), StoreStands PROVE CopyInv'
<1>1. /\ pc = "logs" /\ Busy /\ pod' = pod /\ cms' = cms /\ nm' = nm
      /\ file' = file /\ ran' = ran /\ adopted' = adopted /\ term' = term /\ read' = read
      /\ outcome' = outcome /\ aim' = aim
      /\ \/ pc' = "capture"
         \/ nm.of \notin pulls /\ pc' = "gc"
  BY DEF TailRead, At, Continue, Busy, namespace, node
<1>2. WorkerKnows'
  BY <1>1 DEF CopyInv, WorkerKnows, Busy, Own, Ran
<1>3. /\ term' \in PodType /\ pod' \in PodType /\ outcome' \in {"", "Succeeded", "Failed"}
      /\ pod.phase = "Pending" /\ script # NoCM => pod.of <= script.data.by
      /\ adopted' \subseteq Command
  BY <1>1 DEF CopyInv, Types, PodKnows
<1>4. QED  BY <1>1, <1>2, <1>3, CallKeeps

(* What is captured is the log of the pod that the wait ended with. *)
LEMMA CaptureLogsKeeps == ASSUME CopyInv, CaptureLogs, StoreStands PROVE CopyInv'
<1>1. /\ pc = "capture" /\ Busy /\ pod' = pod /\ cms' = cms /\ nm' = nm
      /\ file' = file /\ ran' = ran /\ adopted' = adopted /\ term' = term /\ read' = read
      /\ outcome' = outcome /\ pod.body # 0 /\ pc' = "create" /\ aim' = "output"
  BY DEF CaptureLogs, At, Continue, Busy, namespace, node
<1>2. pod # NoPod
  BY <1>1, NoPodFields
<1>3. term = pod /\ Own(nm.of, pod.body)
  BY <1>1, <1>2, OwnBody DEF CopyInv, WorkerKnows
<1>4. WorkerKnows'
  BY <1>1, <1>3 DEF CopyInv, WorkerKnows, Busy, Own, Ran
<1>5. /\ term' \in PodType /\ pod' \in PodType /\ outcome' \in {"", "Succeeded", "Failed"}
      /\ pod.phase = "Pending" /\ script # NoCM => pod.of <= script.data.by
      /\ adopted' \subseteq Command
  BY <1>1 DEF CopyInv, Types, PodKnows
<1>6. QED  BY <1>1, <1>4, <1>5, CallKeeps

LEMMA CaptureLogsFailsKeeps == ASSUME CopyInv, CaptureLogsFails, StoreStands PROVE CopyInv'
<1>1. /\ pc = "capture" /\ pc' = "gc" /\ Busy /\ pod' = pod /\ cms' = cms /\ nm' = nm
      /\ file' = file /\ ran' = ran /\ adopted' = adopted /\ term' = term /\ read' = read
      /\ outcome' = "Failed" /\ aim' = aim
  BY DEF CaptureLogsFails, At, Continue, Busy, namespace, node
<1>2. WorkerKnows'
  BY <1>1 DEF CopyInv, WorkerKnows, Busy, Own, Ran
<1>3. /\ term' \in PodType /\ pod' \in PodType /\ outcome' \in {"", "Succeeded", "Failed"}
      /\ pod.phase = "Pending" /\ script # NoCM => pod.of <= script.data.by
      /\ adopted' \subseteq Command
  BY <1>1 DEF CopyInv, Types, PodKnows
<1>4. QED  BY <1>1, <1>2, <1>3, CallKeeps

(* The verdict: what succeeded has its output secured. *)
LEMMA GcPodKeeps == ASSUME CopyInv, GcPod, StoreStands PROVE CopyInv'
<1> USE DEF CopyInv
<1>1. /\ pc = "gc" /\ pc' = "done" /\ Busy /\ Busy' /\ cms' = cms /\ read' = read
      /\ nm' = [nm EXCEPT !.phase = IF outcome = "Succeeded" THEN "Completed" ELSE "Failed"]
      /\ file' = file /\ ran' = ran /\ adopted' = adopted /\ term' = NoPod
      /\ outcome' = "" /\ aim' = aim /\ pod' \in {pod, NoPod}
  BY DEF GcPod, At, Return, Busy, node
<1>2. /\ nm'.of = nm.of /\ nm' \in NMType
      /\ nm'.phase = IF outcome = "Succeeded" THEN "Completed" ELSE "Failed"
  BY <1>1 DEF Types, NMType
<1>3. Types'
  BY <1>1, <1>2, NoPodFields DEF Types, StoreStands
<1>4. Named(nm')
  BY <1>1, <1>2 DEF LeftBehind, Named
<1>5. LeftBehind'
  BY <1>1, <1>2, <1>4, NoPodFields, LeftSteps DEF script
<1>6. PodKnows'
  BY <1>1, NoPodFields DEF PodKnows, script
<1>7. WorkerKnows'
  <2>1. ran' = ran /\ adopted' = adopted
    BY <1>1
  <2>2. nm'.phase = "Completed" => outcome = "Succeeded"
    BY <1>2
  <2>3. nm'.phase = "Completed" => Ran(nm.of)'
    BY <1>2, <2>1, <2>2 DEF WorkerKnows, Ran
  <2>4. pc' = "done" /\ Busy' /\ outcome' = ""
    BY <1>1
  <2>5. QED  BY <2>3, <2>4 DEF WorkerKnows
<1>8. OutputKnown'
  <2>1. nm'.phase = "Completed" /\ nm.of \in pulls /\ nm.of = obj.of => Secured(nm.of)
    <3>1. nm'.phase = "Completed" => outcome = "Succeeded"
      BY <1>2
    <3>2. pc = "gc"
      BY <1>1
    <3>3. QED  BY <3>1, <3>2 DEF OutputKnown
  <2>2. \A c : Secured(c)' <=> Secured(c)
    BY <1>1 DEF Secured, Own, output
  <2>3. obj' = obj /\ pulls' = pulls /\ Seen' = Seen /\ watch' = watch
    BY DEF StoreStands, Seen
  <2>4. obj.phase = "Completed" => Ran(obj.of)'
    BY <1>1, <2>3 DEF OutputKnown, Ran
  <2>5. pc' = "done" /\ nm'.of = nm.of
    BY <1>1, <1>2
  <2>6. QED  BY <2>1, <2>2, <2>3, <2>4, <2>5 DEF OutputKnown
<1>9. QED  BY <1>3, <1>5, <1>6, <1>7, <1>8, OrderedStands

LEMMA ExecuteKeeps == ASSUME CopyInv, Execute, StoreStands PROVE CopyInv'
<1>1. CASE CreateCM \/ GetCM \/ UpdateCM \/ EnsureFails
  BY <1>1, CreateCMKeeps, GetCMKeeps, UpdateCMKeeps, EnsureFailsKeeps
<1>2. CASE GetNode \/ GetNodeFails \/ NoPodYet \/ WaitForPodFails
  BY <1>2, PlainKeeps DEF GetNode, GetNodeFails, NoPodYet, WaitForPodFails, At, Continue, Busy
<1>3. CASE TakePod \/ WaitForPod \/ TailLogs \/ TailLogsFails
  BY <1>3, TakePodKeeps, WaitForPodKeeps, TailReadKeeps DEF TailLogs, TailLogsFails
<1>7. CASE CaptureLogs \/ CaptureLogsFails \/ GcPod
  BY <1>7, CaptureLogsKeeps, CaptureLogsFailsKeeps, GcPodKeeps
<1>4. CASE CreatePod
  BY <1>4, CreatePodKeeps DEF CreatePod, At, Continue
<1>5. CASE EnsurePodFails
  <2>1. pc \in {"pod", "make"} /\ Busy /\ Fail
        /\ UNCHANGED <<aim, read, term, outcome, cms, node, adopted>>
    BY <1>5 DEF EnsurePodFails, At, Busy
  <2>2. CASE pod' = pod
    BY <2>1, <2>2, PlainKeeps DEF namespace
  <2>3. CASE pod' = [NoPod EXCEPT !.phase = "Pending", !.of = nm.of]
    BY <2>1, <2>3, CreatePodKeeps
  <2>4. QED  BY <1>5, <2>2, <2>3 DEF EnsurePodFails
<1>6. QED  BY <1>1, <1>2, <1>3, <1>4, <1>5, <1>7 DEF Execute

------------------------------------------------------------------------------
(* The cluster.                                                            *)

LEMMA LeftStands ==
  ASSUME Types, LeftBehind, StoreStands, UNCHANGED <<nm, pc>>,
         script'.data.by \in {0, script.data.by},
         pod'.of \in {0, pod.of},
         pod'.body \in {0, pod.body, script.data.by}
  PROVE  LeftBehind'
<1>1. \A x \in {nm.of, script.data.by, pod.of, pod.body} : Past(x)
  BY DEF LeftBehind, Left
<1>2. \A x \in {0, nm.of, script.data.by, pod.of, pod.body} : Past(x)'
  BY <1>1, PastZero, PastStands
<1>3. nm.of \in Nat
  BY OfNat DEF Types
<1>4. 0 <= nm.of
  BY <1>3
<1>5. \A x \in {0, script.data.by, pod.of, pod.body} : Left(x)'
  BY <1>2, <1>4 DEF LeftBehind, Left, Past, Seen, IsNew, Busy
<1>6. QED  BY <1>2, <1>5 DEF LeftBehind, Named, Busy

LEMMA ClusterKeeps ==
  ASSUME CopyInv, StoreStands, UNCHANGED <<nm, pc, aim, read, term, outcome, adopted>>,
         cms' \in [{"script", "output"} -> CMType], pod' \in PodType, file' \in File \cup {NoFile},
         ran \subseteq ran', ran' \subseteq Command,
         script' = NoCM \/ (script'.data = script.data /\ script # NoCM) \/ script' = script,
         obj.of \in output.owners => obj.of \in output'.owners /\ output'.data = output.data,
         \/ pod' = NoPod
         \/ pod' = pod
         \/ pod'.of = pod.of /\ pod.phase \in {"Pending", "Running"},
         pod'.body \in {0, pod.body, script.data.by},
         PodKnows'
  PROVE  CopyInv'
<1> USE DEF CopyInv
<1>1. Types'
  BY DEF Types, StoreStands
<1>2. LeftBehind'
  BY LeftStands, NoCMFields, NoPodFields
<1>3. WorkerKnows'
  <2>1. \A c, x : (Own(c, x)' <=> Own(c, x)) /\ (Ran(c) => Ran(c)')
    BY DEF Own, Ran
  <2>2. pc \in {"pod", "make"} => script' = NoCM \/ script'.data.by = nm.of
    BY DEF WorkerKnows
  <2>3. pc \in {"wait", "logs", "capture"} => pod' = NoPod \/ Own(nm.of, pod'.of)
    BY NoPodFields DEF WorkerKnows
  <2>4. pc \in {"logs", "capture"} =>
          pod' \in {NoPod, term} /\ term.phase \in {"Succeeded", "Failed"}
    BY NoPodFields DEF WorkerKnows
  <2>5. QED  BY <2>1, <2>2, <2>3, <2>4 DEF WorkerKnows, Busy
<1>4. OutputKnown'
  <2>1. Secured(obj.of) => Secured(obj.of)'
    BY DEF StoreStands, Secured, Own
  <2>2. Ran(obj.of) => Ran(obj.of)'
    BY DEF StoreStands, Ran
  <2>3. Secured(nm.of) /\ nm.of = obj.of => Secured(nm.of)'
    BY DEF StoreStands, Secured, Own
  <2>4. QED  BY <2>1, <2>2, <2>3 DEF OutputKnown, StoreStands, Seen
<1>5. QED  BY <1>1, <1>2, <1>3, <1>4, OrderedStands

(* A container starts with the script that is there at that moment. *)
LEMMA StartPodKeeps == ASSUME CopyInv, StartPod, StoreStands PROVE CopyInv'
<1>1. /\ UNCHANGED <<nm, pc, aim, read, term, outcome, adopted, cms, file, ran>>
      /\ pod.phase = "Pending" /\ script # NoCM
      /\ pod' = [pod EXCEPT !.phase = "Running", !.body = script.data.by]
  BY DEF StartPod, action, node, script
<1>2. script.data.by \in Command \cup {0} /\ pod \in PodType
  BY DEF CopyInv, Types, CMType, DataType, script
<1>3. /\ pod' \in PodType /\ pod'.of = pod.of /\ pod'.body = script.data.by
      /\ pod'.phase = "Running"
  BY <1>1, <1>2 DEF PodType
<1>4. script' = script /\ output' = output
  BY <1>1 DEF script, output
<1>5. PodKnows'
  BY <1>1, <1>3, <1>4 DEF CopyInv, PodKnows
<1>6. cms' \in [{"script", "output"} -> CMType] /\ file' \in File \cup {NoFile} /\ ran' \subseteq Command
  BY <1>1 DEF CopyInv, Types
<1>7. QED  BY <1>1, <1>3, <1>4, <1>5, <1>6, ClusterKeeps

(* It ends, and if it succeeds its script has run. *)
LEMMA EndPodKeeps ==
  ASSUME CopyInv, StoreStands, NEW log \in Text,
         NEW phase \in {"Succeeded", "Failed"}, EndPod(phase, log),
         UNCHANGED <<nm, pc, aim, read, term, outcome, adopted, cms>>, file' \in File \cup {NoFile},
         \/ phase = "Failed" /\ ran' = ran /\ pod.phase \in {"Pending", "Running"}
         \/ phase = "Succeeded" /\ pod.phase = "Running" /\ ran' = ran \cup {pod.body}
  PROVE  CopyInv'
<1>1. pod \in PodType /\ pod' = [pod EXCEPT !.phase = phase, !.log = log]
  BY DEF CopyInv, Types, EndPod
<1>2. /\ pod' \in PodType /\ pod'.of = pod.of /\ pod'.body = pod.body /\ pod'.phase = phase
  BY <1>1 DEF PodType
<1>3. script' = script /\ output' = output
  BY DEF script, output
<1>4. ran \subseteq ran' /\ ran' \subseteq Command
  BY <1>1 DEF CopyInv, Types, PodKnows, PodType
<1>5. PodKnows'
  BY <1>2, <1>3, <1>4 DEF CopyInv, PodKnows
<1>6. cms' \in [{"script", "output"} -> CMType]
  BY DEF CopyInv, Types
<1>7. QED  BY <1>2, <1>3, <1>4, <1>5, <1>6, ClusterKeeps

LEMMA KubeletKeeps ==
  ASSUME CopyInv, Kubelet
  PROVE  CopyInv'
<1>1. pulls' = pulls /\ StoreStands
  BY DEF Kubelet, StartPod, PullScript, PushScript, FailPod, StoreStands, store, client, node
<1>2. CASE StartPod
  BY <1>1, <1>2, StartPodKeeps
<1>3. CASE PullScript
  <2>1. /\ UNCHANGED <<nm, pc, aim, read, term, outcome, adopted, cms>> /\ file' = file
        /\ pod.phase = "Running" /\ file \in File \cup {NoFile}
    BY <1>3 DEF PullScript, action, CopyInv, Types
  <2>2. <<"error">> \in Text
    BY OneLine DEF Line
  <2>3. CASE EndPod("Failed", <<"error">>) /\ ran' = ran
    BY <1>1, <2>1, <2>2, <2>3, EndPodKeeps
  <2>4. CASE /\ file # NoFile /\ EndPod("Succeeded", Printed(file))
             /\ ran' = ran \cup {pod.body}
    <3>1. Printed(file) \in Text
      BY <2>1, <2>4, PrintedText, ScriptActionAssumption
    <3>2. QED  BY <1>1, <2>1, <2>4, <3>1, EndPodKeeps
  <2>5. QED  BY <1>3, <2>3, <2>4 DEF PullScript
<1>4. CASE PushScript
  <2>1. /\ UNCHANGED <<nm, pc, aim, read, term, outcome, adopted, cms>> /\ file' = Pushed
        /\ pod.phase = "Running" /\ EndPod("Succeeded", <<"line">>)
        /\ ran' = ran \cup {pod.body}
    BY <1>4 DEF PushScript, action
  <2>2. <<"line">> \in Text /\ Pushed \in File
    BY OneLine, ScriptActionAssumption DEF Line
  <2>3. QED  BY <1>1, <2>1, <2>2, EndPodKeeps
<1>5. CASE FailPod
  <2>1. /\ UNCHANGED <<nm, pc, aim, read, term, outcome, adopted, cms>> /\ file' \in File \cup {NoFile}
        /\ pod.phase \in {"Pending", "Running"} /\ EndPod("Failed", <<"error">>)
        /\ ran' = ran
    BY <1>5 DEF FailPod, action, node, CopyInv, Types
  <2>2. <<"error">> \in Text
    BY OneLine DEF Line
  <2>3. QED  BY <1>1, <2>1, <2>2, EndPodKeeps
<1>6. QED  BY <1>2, <1>3, <1>4, <1>5 DEF Kubelet

(* The collector comes only for the runs that are gone. *)
LEMMA GarbageCollectKeeps == ASSUME CopyInv, GarbageCollect PROVE CopyInv'
<1>1. PICK k \in {"script", "output"} : Collect(k, {obj.of} \ {0})
  BY DEF GarbageCollect
<1> DEFINE alive == {obj.of} \ {0}
<1>2. /\ UNCHANGED <<nm, pc, aim, read, term, outcome, adopted, pod, file, ran>>
      /\ StoreStands
  BY <1>1 DEF GarbageCollect, Collect, action, node, store, client, StoreStands
<1>3. /\ cms \in [{"script", "output"} -> CMType]
      /\ cms' = [cms EXCEPT ![k] = cms'[k]]
      /\ IF cms[k].owners \cap alive = {} THEN cms'[k] = NoCM
         ELSE cms'[k] = [cms[k] EXCEPT !.owners = cms[k].owners \cap alive]
  BY <1>1 DEF Collect, CopyInv, Types
<1>4. cms[k] \in CMType
  BY <1>3
<1>5. /\ cms'[k] \in CMType
      /\ \/ cms'[k] = NoCM /\ cms[k].owners \cap alive = {}
         \/ cms'[k].data = cms[k].data /\ cms'[k].owners = cms[k].owners \cap alive
  BY <1>3, <1>4, NoCMFields DEF CMType
<1>6. cms' \in [{"script", "output"} -> CMType]
  BY <1>3, <1>5
<1>7. script' = NoCM \/ (script'.data = script.data /\ script # NoCM) \/ script' = script
  <2>1. CASE k = "script"
    <3>1. cms[k] # NoCM
      BY <1>1, NoCMFields DEF Collect
    <3>2. QED  BY <1>5, <2>1, <3>1 DEF script
  <2>2. CASE k # "script"
    BY <1>3, <2>2 DEF script
  <2>3. QED  BY <2>1, <2>2
<1>8. obj.of \in output.owners => obj.of \in output'.owners /\ output'.data = output.data
  <2>1. CASE k = "output"
    <3>1. output.owners \subseteq Command
      BY <1>4, <2>1 DEF output, CMType
    <3>2. obj.of \in output.owners => obj.of \in alive
      BY <3>1, CommandNat
    <3>3. QED  BY <1>5, <2>1, <3>2 DEF output
  <2>2. CASE k # "output"
    BY <1>3, <2>2 DEF output
  <2>3. QED  BY <2>1, <2>2
<1>9. PodKnows'
  BY <1>2, <1>7 DEF CopyInv, PodKnows
<1>10. pod' \in PodType /\ file' \in File \cup {NoFile} /\ ran' \subseteq Command
  BY <1>2 DEF CopyInv, Types
<1>11. QED  BY <1>2, <1>6, <1>7, <1>8, <1>9, <1>10, ClusterKeeps

(* People at the pod and at the file. *)
LEMMA PeopleKeep == ASSUME CopyInv, DeletePod \/ ChangeFile PROVE CopyInv'
<1>1. /\ UNCHANGED <<nm, pc, aim, read, term, outcome, adopted, cms, ran>>
      /\ StoreStands /\ file' \in File \cup {NoFile} /\ pod' \in {pod, NoPod}
  BY DEF DeletePod, ChangeFile, Edit, action, namespace, store, client, StoreStands,
         CopyInv, Types
<1>2. script' = script /\ output' = output
  BY <1>1 DEF script, output
<1>3. PodKnows'
  BY <1>1, <1>2, NoPodFields DEF CopyInv, PodKnows
<1>4. /\ pod' \in PodType /\ ran' \subseteq Command
      /\ cms' \in [{"script", "output"} -> CMType]
  BY <1>1, NoPodFields DEF CopyInv, Types
<1>5. QED  BY <1>1, <1>2, <1>3, <1>4, NoPodFields, ClusterKeeps

------------------------------------------------------------------------------
(* The store.                                                              *)

LEMMA WatchFacts ==
  ASSUME Types, Ordered
  PROVE  /\ Len(watch) \in Nat /\ Len(watch) >= 1 /\ 1 \in Seen /\ Len(watch) \in Seen
         /\ \A i \in Seen : watch[i] \in NMType /\ watch[i].of \in Nat
         /\ watch[Len(watch)] = obj /\ Cached = watch[1]
<1>1. watch \in Seq(NMType) /\ watch # <<>>
  BY DEF Types
<1>2. Len(watch) \in Nat /\ Len(watch) # 0
  BY <1>1, EmptySeq, LenProperties
<1>3. Len(watch) >= 1 /\ 1 \in Seen /\ Len(watch) \in Seen
  BY <1>2 DEF Seen
<1>4. \A i \in Seen : watch[i] \in NMType
  BY <1>1, ElementOfSeq DEF Seen
<1>5. \A i \in Seen : watch[i].of \in Nat
  BY <1>4, OfNat
<1>6. Cached = watch[1]
  BY <1>1 DEF Cached
<1>7. QED  BY <1>2, <1>3, <1>4, <1>5, <1>6 DEF Ordered

(* A write of the object there is, of none, or of one that is created. *)
LEMMA AppendOrdered ==
  ASSUME Types, Ordered, NEW new \in NMType, Write(new), Named(new),
         new.of \in {0, obj.of} \/ (new.of \in Command /\ IsNew(new.of)),
         \A c \in Command : IsNew(c)' => IsNew(c) /\ new.of < c
  PROVE  /\ Ordered' /\ watch' \in Seq(NMType) \ {<<>>}
         /\ \A x \in Nat : Past(x) => Past(x)'
         /\ \A i \in Seen' : watch'[i] = new \/ \E j \in Seen : watch'[i] = watch[j]
<1> DEFINE n == Len(watch)
<1>1. /\ n \in Nat /\ n >= 1 /\ n \in Seen /\ watch[n] = obj
      /\ \A i \in Seen : watch[i] \in NMType /\ watch[i].of \in Nat
  BY WatchFacts
<1>2. /\ watch' \in Seq(NMType) /\ Len(watch') = n + 1 /\ watch'[n + 1] = new
      /\ \A i \in 1..n : watch'[i] = watch[i]
  <2>1. watch \in Seq(NMType) /\ watch' = Append(watch, new)
    BY DEF Types, Write
  <2>2. QED  BY <2>1, AppendProperties
<1>3. watch' # <<>>
  BY <1>1, <1>2, EmptySeq
<1> HIDE DEF n
<1>4. Seen' = 1..(n + 1) /\ Seen = 1..n
  BY <1>2 DEF Seen, n
<1>5. \A i \in Seen' : i \in Seen \/ i = n + 1
  BY <1>1, <1>4
<1>6. \A i \in Seen : watch'[i] = watch[i]
  BY <1>2, <1>4
<1>7. new.of # 0 => \A i \in Seen : watch[i].of <= new.of
  <2>1. ASSUME new.of = obj.of, new.of # 0, NEW i \in Seen PROVE watch[i].of <= new.of
    <3>1. i <= n
      BY <1>1, <1>4
    <3>2. QED  BY <1>1, <2>1, <3>1 DEF Ordered
  <2>2. ASSUME new.of \in Command, IsNew(new.of), NEW i \in Seen
        PROVE  watch[i].of <= new.of
    <3>1. watch[i].of < new.of /\ watch[i].of \in Nat /\ new.of \in Nat
      BY <1>1, <2>2, IdNat DEF Ordered
    <3>2. QED  BY <3>1
  <2>3. QED  BY <2>1, <2>2
<1>8. Ordered'
  <2>1. obj' = watch'[Len(watch')]
    BY <1>2 DEF Write
  <2>2. \A i \in Seen' : Named(watch'[i])
    BY <1>2, <1>5, <1>6 DEF Ordered
  <2>3. ASSUME NEW i \in Seen', NEW j \in Seen', i <= j, watch'[j].of # 0
        PROVE  watch'[i].of <= watch'[j].of
    <3>1. CASE j \in Seen
      <4>1. i \in Seen
        BY <1>1, <1>4, <2>3, <3>1
      <4>2. QED  BY <1>6, <2>3, <3>1, <4>1 DEF Ordered
    <3>2. CASE j = n + 1 /\ i \in Seen
      BY <1>2, <1>6, <1>7, <2>3, <3>2
    <3>3. CASE j = n + 1 /\ i = n + 1
      <4>1. new.of \in Nat
        BY OfNat
      <4>2. new.of <= new.of
        BY <4>1
      <4>3. QED  BY <1>2, <3>3, <4>2
    <3>4. QED  BY <1>5, <3>1, <3>2, <3>3
  <2>4. \A i \in Seen', c \in Command : IsNew(c)' => watch'[i].of < c
    BY <1>2, <1>5, <1>6 DEF Ordered
  <2>5. QED  BY <2>1, <2>2, <2>3, <2>4 DEF Ordered, Named, IsNew, Seen
<1>9. ASSUME NEW x \in Nat, Past(x) PROVE Past(x)'
  <2>1. ASSUME new.of # 0 PROVE x <= new.of
    <3>1. CASE new.of = obj.of
      BY <1>1, <1>9, <2>1, <3>1 DEF Past
    <3>2. CASE new.of \in Command /\ IsNew(new.of)
      <4>1. x < new.of /\ new.of \in Nat
        BY <1>9, <3>2, IdNat DEF Past
      <4>2. QED  BY <4>1
    <3>3. QED  BY <2>1, <3>1, <3>2
  <2>2. \A i \in Seen' : watch'[i].of # 0 => x <= watch'[i].of
    BY <1>2, <1>5, <1>6, <1>9, <2>1 DEF Past
  <2>3. \A c \in Command : IsNew(c)' => x < c
    BY <1>9 DEF Past
  <2>4. QED  BY <2>2, <2>3 DEF Past, IsNew, Seen
<1>10. QED  BY <1>2, <1>3, <1>5, <1>6, <1>8, <1>9

(* An event is taken off, or the cache is listed afresh, or nothing happens. *)
LEMMA WatchOrdered ==
  ASSUME Types, Ordered, obj' = obj, \A c \in Command : IsNew(c)' => IsNew(c),
         \/ watch' = watch
         \/ watch' = <<obj>>
         \/ Len(watch) > 1 /\ watch' = Tail(watch)
  PROVE  /\ Ordered' /\ watch' \in Seq(NMType) \ {<<>>}
         /\ \A x \in Nat : Past(x) => Past(x)'
         /\ \A i \in Seen' : \E j \in Seen : watch'[i] = watch[j]
<1> DEFINE n == Len(watch)
<1>1. /\ n \in Nat /\ n >= 1 /\ n \in Seen /\ watch[n] = obj /\ Seen = 1..n
      /\ \A i \in Seen : watch[i] \in NMType /\ watch[i].of \in Nat
      /\ watch \in Seq(NMType)
  BY WatchFacts DEF Seen, Types
<1> HIDE DEF n
<1>2. PICK d \in Nat :
        /\ watch' \in Seq(NMType) /\ d < n /\ Len(watch') = n - d
        /\ \A i \in 1..(n - d) : watch'[i] = watch[i + d]
  <2>1. CASE watch' = watch
    <3>1. /\ 0 \in Nat /\ 0 < n /\ n = n - 0 /\ \A i \in 1..(n - 0) : i = i + 0
      BY <1>1
    <3>2. QED  BY <1>1, <2>1, <3>1 DEF n
  <2>2. CASE watch' = <<obj>>
    <3>1. /\ n - 1 \in Nat /\ n - 1 < n /\ n - (n - 1) = 1
          /\ \A i \in 1..1 : i = 1 /\ i + (n - 1) = n
      BY <1>1
    <3>2. watch' \in Seq(NMType) /\ Len(watch') = 1 /\ watch'[1] = obj
      BY <1>1, <2>2
    <3>3. QED  BY <1>1, <3>1, <3>2
  <2>3. CASE Len(watch) > 1 /\ watch' = Tail(watch)
    <3>1. watch # <<>>
      BY <2>3, EmptySeq
    <3>2. /\ watch' \in Seq(NMType) /\ Len(watch') = n - 1
          /\ \A i \in 1..(n - 1) : watch'[i] = watch[i + 1]
      BY <1>1, <2>3, <3>1, HeadTailProperties DEF n
    <3>3. 1 \in Nat /\ 1 < n
      BY <2>3 DEF n
    <3>4. QED  BY <3>2, <3>3
  <2>4. QED  BY <2>1, <2>2, <2>3
<1>3. Seen' = 1..(n - d)
  BY <1>2 DEF Seen
<1>4. \A i \in Seen' : i + d \in Seen /\ watch'[i] = watch[i + d]
  BY <1>1, <1>2, <1>3
<1>5. watch' # <<>>
  BY <1>1, <1>2, EmptySeq
<1>6. Ordered'
  <2>1. obj' = watch'[Len(watch')]
    <3>1. n - d \in 1..(n - d) /\ (n - d) + d = n
      BY <1>1, <1>2
    <3>2. QED  BY <1>1, <1>2, <3>1
  <2>2. \A i \in Seen' : Named(watch'[i])
    BY <1>4 DEF Ordered
  <2>3. ASSUME NEW i \in Seen', NEW j \in Seen', i <= j, watch'[j].of # 0
        PROVE  watch'[i].of <= watch'[j].of
    <3>1. i + d <= j + d
      BY <1>1, <1>2, <1>3, <2>3
    <3>2. QED  BY <1>4, <2>3, <3>1 DEF Ordered
  <2>4. \A i \in Seen', c \in Command : IsNew(c)' => watch'[i].of < c
    BY <1>4 DEF Ordered
  <2>5. QED  BY <2>1, <2>2, <2>3, <2>4 DEF Ordered, Named, IsNew, Seen
<1>7. ASSUME NEW x \in Nat, Past(x) PROVE Past(x)'
  <2>1. \A i \in Seen' : watch'[i].of # 0 => x <= watch'[i].of
    BY <1>4, <1>7 DEF Past
  <2>2. \A c \in Command : IsNew(c)' => x < c
    BY <1>7 DEF Past
  <2>3. QED  BY <2>1, <2>2 DEF Past, IsNew, Seen
<1>8. QED  BY <1>2, <1>4, <1>5, <1>6, <1>7

(* Whose run is completed, its output, and what is known of other runs. *)
Settled ==
  /\ nm.of \in {0, obj.of} /\ \A i \in Seen : watch[i].of \in {0, obj.of}
  /\ Ran(obj.of) /\ (obj.of \in pulls => Secured(obj.of))

(* The store moves, and the worker stays with its pass or ends it. *)
LEMMA StoreKeeps ==
  ASSUME CopyInv, Ordered', watch' \in Seq(NMType) \ {<<>>}, obj' \in NMType,
         command' \in [Command -> {"new", "wait", "summary", "read", "delete", "done", "failed"}],
         \A x \in Nat : Past(x) => Past(x)',
         UNCHANGED <<namespace, node, adopted>>,
         UNCHANGED action \/ Forget,
         obj'.phase = "Completed" => Settled',
         Busy /\ nm.of = obj'.of => nm.of = obj.of
  PROVE  CopyInv'
<1> USE DEF CopyInv
<1>1. cms' = cms /\ pod' = pod /\ pulls' = pulls /\ file' = file /\ ran' = ran
  BY DEF namespace, node
<1>2. script' = script /\ output' = output
  BY <1>1 DEF script, output
<1>3. Types'
  BY <1>1, NoNMFields, NoCMFields, NoPodFields DEF Types, action, Forget
<1>4. PodKnows'
  BY <1>1, <1>2 DEF PodKnows
<1>5. \A x \in {0, nm.of, script.data.by, pod.of, pod.body} : Past(x)'
  <2>1. {0, nm.of, script.data.by, pod.of, pod.body} \subseteq Command \cup {0}
    <3>1. script \in CMType /\ nm \in NMType /\ pod \in PodType
      BY DEF Types, script
    <3>2. script.data \in DataType
      BY <3>1 DEF CMType
    <3>3. script.data.by \in Command \cup {0} /\ nm.of \in Command \cup {0}
      BY <3>1, <3>2 DEF DataType, NMType
    <3>4. pod.of \in Command \cup {0} /\ pod.body \in Command \cup {0}
      BY <3>1 DEF PodType
    <3>5. QED  BY <3>3, <3>4
  <2>2. \A x \in {0, nm.of, script.data.by, pod.of, pod.body} : Past(x)
    BY PastZero DEF LeftBehind, Left
  <2>3. QED  BY <2>1, <2>2, IdNat
<1>6. CASE UNCHANGED action
  <2>1. /\ nm' = nm /\ pc' = pc /\ aim' = aim /\ outcome' = outcome /\ term' = term
        /\ (Busy' <=> Busy)
    BY <1>6 DEF action, Busy
  <2>2. LeftBehind'
    BY <1>1, <1>2, <1>5, <2>1 DEF LeftBehind, Left, Named
  <2>3. WorkerKnows'
    BY <1>1, <1>2, <2>1 DEF WorkerKnows, Ran, Own
  <2>4. OutputKnown'
    <3>1. \A c : (Secured(c)' <=> Secured(c)) /\ (Ran(c)' <=> Ran(c))
      BY <1>1, <1>2 DEF Secured, Own, Ran
    <3>2. pc \in {"gc", "done"} => Busy
      BY DEF Busy
    <3>3. QED  BY <1>1, <2>1, <3>1, <3>2 DEF OutputKnown, Settled
  <2>5. QED  BY <1>3, <1>4, <2>2, <2>3, <2>4
<1>7. CASE Forget
  <2>1. nm' = NoNM /\ pc' = "idle" /\ outcome' = "" /\ ~Busy'
    BY <1>7 DEF Forget, Busy
  <2>2. LeftBehind'
    BY <1>1, <1>2, <1>5, <2>1, NoNMFields DEF LeftBehind, Left, Named
  <2>3. WorkerKnows'
    BY <2>1, NoNMFields DEF WorkerKnows
  <2>4. OutputKnown'
    BY <1>1, <2>1 DEF OutputKnown, Settled
  <2>5. QED  BY <1>3, <1>4, <2>2, <2>3, <2>4
<1>8. QED  BY <1>6, <1>7

(* A step after which the API server holds the object that it held. *)
LEMMA SameObject ==
  ASSUME CopyInv, obj' = obj, \A c \in Command : IsNew(c)' => IsNew(c),
         command' \in [Command -> {"new", "wait", "summary", "read", "delete", "done", "failed"}],
         \/ watch' = watch
         \/ watch' = <<obj>>
         \/ Len(watch) > 1 /\ watch' = Tail(watch),
         UNCHANGED <<namespace, node, adopted>>,
         UNCHANGED action \/ Forget
  PROVE  CopyInv'
<1>1. /\ Ordered' /\ watch' \in Seq(NMType) \ {<<>>}
      /\ \A x \in Nat : Past(x) => Past(x)'
      /\ \A i \in Seen' : \E j \in Seen : watch'[i] = watch[j]
  BY WatchOrdered DEF CopyInv
<1>2. obj' \in NMType
  BY DEF CopyInv, Types
<1>3. obj'.phase = "Completed" => Settled'
  <2>1. obj.phase = "Completed" => Settled
    BY DEF CopyInv, OutputKnown, Settled
  <2>2. nm'.of \in {0, nm.of}
    BY NoNMFields DEF action, Forget
  <2>3. Settled => Settled'
    BY <1>1, <2>2 DEF Settled, Ran, Secured, Own, output, namespace, node
  <2>4. QED  BY <2>1, <2>3
<1>4. QED  BY <1>1, <1>2, <1>3, StoreKeeps

LEMMA Goes ==
  ASSUME CopyInv, NEW c \in Command,
         NEW step \in {"wait", "summary", "read", "delete", "done", "failed"}, Goto(c, step)
  PROVE  /\ command' \in [Command -> {"new", "wait", "summary", "read", "delete", "done", "failed"}]
         /\ \A d \in Command : IsNew(d)' <=> IsNew(d) /\ d # c
BY DEF Goto, IsNew, CopyInv, Types

(* The object is written by somebody, under a version or as it is deleted. *)
LEMMA SameRunWritten ==
  ASSUME CopyInv, NEW new \in NMType, Write(new), Named(new), new.of \in {0, obj.of},
         command' \in [Command -> {"new", "wait", "summary", "read", "delete", "done", "failed"}],
         \A c \in Command : IsNew(c)' => IsNew(c),
         UNCHANGED <<namespace, node, adopted>>,
         UNCHANGED action \/ Forget,
         new.phase = "Completed" =>
           /\ new.of = obj.of
           /\ obj.phase = "Completed" \/ (pc = "done" /\ nm.phase = "Completed" /\ nm.of = obj.of)
  PROVE  CopyInv'
<1>1. \A c \in Command : IsNew(c)' => IsNew(c) /\ new.of < c
  <2>1. \A c \in Command : IsNew(c) => obj.of < c
    BY WatchFacts DEF CopyInv, Ordered
  <2>2. \A c \in Command : 0 < c
    BY CommandNat
  <2>3. QED  BY <2>1, <2>2
<1>2. /\ Ordered' /\ watch' \in Seq(NMType) \ {<<>>}
      /\ \A x \in Nat : Past(x) => Past(x)'
      /\ \A i \in Seen' : watch'[i] = new \/ \E j \in Seen : watch'[i] = watch[j]
  BY <1>1, AppendOrdered DEF CopyInv
<1>3. obj' = new
  BY DEF Write
<1>4. new.phase = "Completed" => Settled'
  <2> SUFFICES ASSUME new.phase = "Completed" PROVE Settled'
    OBVIOUS
  <2>1. Settled
    <3>1. CASE obj.phase = "Completed"
      BY <3>1 DEF CopyInv, OutputKnown, Settled
    <3>2. CASE pc = "done" /\ nm.phase = "Completed" /\ nm.of = obj.of
      <4>1. Ran(obj.of) /\ (obj.of \in pulls => Secured(obj.of))
        BY <3>2 DEF CopyInv, WorkerKnows, OutputKnown
      <4>2. nm.of # 0
        BY <3>2 DEF CopyInv, LeftBehind, Named, Busy
      <4>3. ASSUME NEW i \in Seen, watch[i].of # 0 PROVE watch[i].of = obj.of
        <5>1. nm.of <= watch[i].of
          BY <4>3 DEF CopyInv, LeftBehind, Past
        <5>2. i <= Len(watch) /\ watch[Len(watch)] = obj /\ Len(watch) \in Seen
          BY WatchFacts DEF CopyInv, Seen
        <5>3. watch[i].of <= obj.of
          BY <3>2, <4>2, <5>2 DEF CopyInv, Ordered
        <5>4. watch[i].of \in Nat /\ obj.of \in Nat
          BY WatchFacts DEF CopyInv
        <5>5. obj.of <= watch[i].of
          BY <3>2, <5>1
        <5>6. QED  BY <5>3, <5>4, <5>5
      <4>4. QED  BY <3>2, <4>1, <4>3 DEF Settled
    <3>3. QED  BY <3>1, <3>2
  <2>2. nm'.of \in {0, nm.of} /\ obj'.of = obj.of
    BY <1>3, NoNMFields DEF action, Forget
  <2>3. QED
    BY <1>2, <1>3, <2>1, <2>2 DEF Settled, Ran, Secured, Own, output, namespace, node
<1>5. Busy /\ nm.of = new.of => nm.of = obj.of
  BY DEF CopyInv, LeftBehind, Named
<1>6. QED  BY <1>2, <1>3, <1>4, <1>5, StoreKeeps

LEMMA NextVersion == \A n \in Nat : n + 1 \in Nat
OBVIOUS

LEMMA WrittenFields ==
  ASSUME Types, Ordered, obj # NoNM,
         NEW phase \in {"", "InProgress", "Completed", "Failed"},
         NEW new, new = [obj EXCEPT !.rv = @ + 1, !.phase = phase]
  PROVE  new \in NMType /\ new.of = obj.of /\ new.phase = phase /\ Named(new)
<1>1. obj \in NMType /\ obj.rv \in Nat
  BY DEF Types, NMType
<1>2. obj.rv + 1 \in Nat
  BY <1>1, NextVersion
<1>3. new \in NMType /\ new.of = obj.of /\ new.phase = phase
  BY <1>1, <1>2 DEF NMType
<1>4. Named(obj)
  BY WatchFacts DEF Ordered
<1>5. QED  BY <1>3, <1>4 DEF Named

(* A status write that gets through is of the object the pass began with. *)
LEMMA WriteStatusKeeps ==
  ASSUME CopyInv, Persisting, IsCurrent, WriteStatus, Forget, command' = command
  PROVE  CopyInv'
<1> DEFINE new == [obj EXCEPT !.rv = @ + 1, !.phase = nm.phase]
<1>1. nm.of \in Command /\ nm.of # 0 /\ obj # NoNM /\ obj.of = nm.of
  BY AtWork, CommandNat, NoNMFields DEF Persisting, Busy, IsCurrent
<1>2. nm.phase \in {"", "InProgress", "Completed", "Failed"}
  BY DEF CopyInv, Types, NMType
<1>3. new \in NMType /\ new.of = obj.of /\ new.phase = nm.phase /\ Named(new)
  BY <1>1, <1>2, WrittenFields DEF CopyInv
<1>4. Write(new)
  BY DEF WriteStatus
<1>5. new.phase = "Completed" => pc = "done" /\ nm.phase = "Completed" /\ nm.of = obj.of
  BY <1>1, <1>3 DEF Persisting, CopyInv, WorkerKnows
<1>6. /\ UNCHANGED <<namespace, node, adopted>> /\ \A c \in Command : IsNew(c)' => IsNew(c)
      /\ command' \in [Command -> {"new", "wait", "summary", "read", "delete", "done", "failed"}]
  BY DEF Forget, IsNew, CopyInv, Types
<1> HIDE DEF new
<1>7. QED  BY <1>3, <1>4, <1>5, <1>6, SameRunWritten

(* Steps that write neither the object nor what a command has got to. *)
LEMMA QuietKeeps ==
  ASSUME CopyInv, obj' = obj, command' = command,
         \/ watch' = watch
         \/ watch' = <<obj>>
         \/ Len(watch) > 1 /\ watch' = Tail(watch),
         UNCHANGED <<namespace, node, adopted>>,
         UNCHANGED action \/ Forget
  PROVE  CopyInv'
<1>1. /\ \A c \in Command : IsNew(c)' => IsNew(c)
      /\ command' \in [Command -> {"new", "wait", "summary", "read", "delete", "done", "failed"}]
  BY DEF IsNew, CopyInv, Types
<1>2. QED  BY <1>1, SameObject

LEMMA UpdateKeeps ==
  ASSUME CopyInv, UpdateStatus \/ UpdateConflicts \/ UpdateFails PROVE CopyInv'
<1>1. CASE UNCHANGED store
  BY <1>1, QuietKeeps DEF UpdateStatus, UpdateConflicts, UpdateFails, Forget, store, client
<1>2. CASE ~UNCHANGED store
  BY <1>2, WriteStatusKeeps DEF UpdateStatus, UpdateConflicts, UpdateFails, client
<1>3. QED  BY <1>1, <1>2

(* A restart lists the objects afresh, and the watch brings the cache on. *)
LEMMA WatchKeeps ==
  ASSUME CopyInv, Crash \/ Deliver \/ Requeue \/ ReturnIfOver \/ UNCHANGED vars
  PROVE  CopyInv'
<1>1. CASE Crash
  BY <1>1, QuietKeeps DEF Crash, Forget, client
<1>2. CASE Deliver \/ Requeue \/ ReturnIfOver \/ UNCHANGED vars
  BY <1>2, QuietKeeps DEF Deliver, Requeue, ReturnIfOver, vars, scriptVars, store, client
<1>3. QED  BY <1>1, <1>2

(* A pass begins with the oldest of what is still to be seen. *)
LEMMA BeginKeeps == ASSUME CopyInv, SeedStatus \/ BeginPass PROVE CopyInv'
<1> USE DEF CopyInv
<1>1. /\ pc = "idle" /\ ~Busy /\ ~IsOver(Cached) /\ Busy' /\ StoreStands
      /\ UNCHANGED <<read, term, outcome, cms, pod, file, ran, adopted>>
  BY DEF SeedStatus, BeginPass, Picked, Busy, StoreStands, store, client, namespace, node
<1>2. /\ Cached = watch[1] /\ 1 \in Seen /\ Cached \in NMType /\ Cached.of \in Nat
      /\ Named(Cached) /\ Cached # NoNM /\ Cached.phase # "Completed"
  BY <1>1, WatchFacts DEF Ordered, IsOver
<1>3. Cached.of # 0
  BY <1>2 DEF Named
<1>4. /\ nm' \in NMType /\ nm'.of = Cached.of /\ nm'.phase # "Completed"
      /\ pc' \in {"seed", "create"}
      /\ pc' = "seed" => nm'.phase = "InProgress"
      /\ pc' = "create" => aim' = "render"
  BY <1>2 DEF SeedStatus, BeginPass, NMType
<1>5. Types'
  BY <1>1, <1>4 DEF Types, StoreStands
<1>6. \A x : Past(x) => x <= Cached.of
  BY <1>2, <1>3 DEF Past
<1>7. Past(Cached.of)
  <2>1. ASSUME NEW i \in Seen, watch[i].of # 0 PROVE Cached.of <= watch[i].of
    <3>1. 1 <= i
      BY WatchFacts DEF Seen
    <3>2. QED  BY <1>2, <2>1, <3>1 DEF Ordered
  <2>2. \A c \in Command : IsNew(c) => Cached.of < c
    BY <1>2 DEF Ordered
  <2>3. QED  BY <2>1, <2>2 DEF Past
<1>8. LeftBehind'
  <2>1. \A x \in {script.data.by, pod.of, pod.body} : Past(x)' /\ x <= nm'.of
    BY <1>1, <1>4, <1>6, PastStands DEF LeftBehind, Left
  <2>2. \A x : x <= nm'.of /\ Past(x)' => Left(x)'
    BY DEF Left, Past, Seen, IsNew
  <2>3. script' = script /\ pod' = pod
    BY <1>1 DEF script
  <2>4. \A x : x = Cached.of => Past(x)'
    BY <1>1, <1>7, PastStands
  <2>5. Past(nm.of)'
    BY <1>4, <2>4 DEF Past, Seen, IsNew
  <2>6. Named(nm)' /\ nm' # NoNM
    BY <1>3, <1>4, NoNMFields DEF Named
  <2>7. Left(script.data.by)' /\ Left(pod.of)' /\ Left(pod.body)'
    BY <2>1, <2>2, <2>3
  <2>8. QED  BY <1>1, <2>5, <2>6, <2>7 DEF LeftBehind
<1>9. PodKnows'
  BY <1>1 DEF PodKnows, script
<1>10. WorkerKnows'
  BY <1>1, <1>4 DEF WorkerKnows
<1>11. OutputKnown'
  <2>1. \A c : (Secured(c)' <=> Secured(c)) /\ (Ran(c)' <=> Ran(c))
    BY <1>1 DEF Secured, Own, Ran, output
  <2>2. obj.phase = "Completed" => Cached.of \in {0, obj.of}
    BY <1>2 DEF OutputKnown
  <2>3. obj' = obj /\ watch' = watch /\ Seen' = Seen /\ pulls' = pulls
    BY <1>1 DEF StoreStands, Seen
  <2>4. QED  BY <1>4, <2>1, <2>2, <2>3 DEF OutputKnown
<1>12. QED  BY <1>1, <1>5, <1>8, <1>9, <1>10, <1>11, OrderedStands

(* A new run of the name comes after all that were. *)
LEMMA CreateKeeps == ASSUME CopyInv, NEW c \in Command, Create(c) PROVE CopyInv'
<1>1. /\ UNCHANGED action /\ UNCHANGED <<namespace, node, adopted>> /\ pulls' = pulls
      /\ IsNew(c) /\ \A d \in Command : d < c => ~IsNew(d)
  BY DEF Create, OnlyCommands, scriptVars, node, IsNew
<1>2. CASE obj = NoNM
  <2> DEFINE new == [of |-> c, rv |-> 1, phase |-> ""]
  <2>1. Write(new) /\ Goto(c, "wait")
    BY <1>2 DEF Create
  <2>2. c \in Nat /\ c # 0
    BY CommandNat
  <2>3. new \in NMType /\ new.of = c /\ new.phase = "" /\ Named(new)
    BY <2>2 DEF NMType, Named
  <2> HIDE DEF new
  <2>4. /\ command' \in [Command -> {"new", "wait", "summary", "read", "delete", "done", "failed"}]
        /\ \A d \in Command : IsNew(d)' <=> IsNew(d) /\ d # c
    BY <2>1, Goes
  <2>5. \A d \in Command : IsNew(d)' => IsNew(d) /\ c < d
    <3>1. ASSUME NEW d \in Command, IsNew(d)' PROVE c < d
      <4>1. d # c /\ ~(d < c)
        BY <1>1, <2>4, <3>1
      <4>2. d \in Nat
        BY CommandNat
      <4>3. QED  BY <2>2, <4>1, <4>2
    <3>2. QED  BY <2>4, <3>1
  <2>6. /\ Ordered' /\ watch' \in Seq(NMType) \ {<<>>}
        /\ \A x \in Nat : Past(x) => Past(x)'
    BY <1>1, <2>1, <2>3, <2>5, AppendOrdered DEF CopyInv
  <2>7. obj' = new
    BY <2>1 DEF Write
  <2>8. nm.of # c
    <3>1. nm.of < c /\ nm.of \in Nat
      BY <1>1, OfNat DEF CopyInv, Types, LeftBehind, Past
    <3>2. QED  BY <2>2, <3>1
  <2>9. QED  BY <1>1, <2>3, <2>4, <2>6, <2>7, <2>8, StoreKeeps
<1>3. CASE obj # NoNM
  <2>1. Goto(c, "failed") /\ obj' = obj /\ watch' = watch
    BY <1>3 DEF Create, store
  <2>2. QED  BY <1>1, <2>1, Goes, SameObject
<1>4. QED  BY <1>2, <1>3

(* The other steps of a command write at most the object that they delete. *)
LEMMA ClientKeeps == ASSUME CopyInv, NEW c \in Command, Client(c) PROVE CopyInv'
<1>1. CASE Create(c)
  BY <1>1, CreateKeeps
<1>2. CASE ~Create(c)
  <2>1. /\ UNCHANGED action /\ UNCHANGED <<namespace, node, adopted>>
        /\ \E step \in {"wait", "summary", "read", "delete", "done", "failed"} : Goto(c, step)
        /\ UNCHANGED store \/ Write(NoNM)
    BY <1>2 DEF Client, SeeCompleted, GiveUp, Summarize, Fetch, WriteFails, FetchFails,
                Delete, Read, OnlyCommands, scriptVars
  <2>2. /\ command' \in [Command -> {"new", "wait", "summary", "read", "delete", "done", "failed"}]
        /\ \A d \in Command : IsNew(d)' => IsNew(d)
    BY <2>1, Goes
  <2>3. CASE UNCHANGED store
    BY <2>1, <2>2, <2>3, SameObject DEF store
  <2>4. CASE Write(NoNM)
    BY <2>1, <2>2, <2>4, NoNMFields, SameRunWritten DEF Named
  <2>5. QED  BY <2>1, <2>3, <2>4
<1>3. QED  BY <1>1, <1>2

(* People at the object. *)
LEMMA EditKeeps == ASSUME CopyInv, DeleteNM \/ Annotate PROVE CopyInv'
<1>1. /\ UNCHANGED action /\ UNCHANGED <<namespace, node, adopted>> /\ obj # NoNM
      /\ \A c \in Command : IsNew(c)' => IsNew(c)
      /\ command' \in [Command -> {"new", "wait", "summary", "read", "delete", "done", "failed"}]
  BY DEF DeleteNM, Annotate, Edit, client, node, IsNew, CopyInv, Types
<1>2. CASE DeleteNM
  BY <1>1, <1>2, NoNMFields, SameRunWritten DEF DeleteNM, Named
<1>3. CASE Annotate
  <2> DEFINE new == [obj EXCEPT !.rv = @ + 1]
  <2>1. Write(new)
    BY <1>3 DEF Annotate
  <2>2. obj.phase \in {"", "InProgress", "Completed", "Failed"} /\ obj \in NMType
    BY DEF CopyInv, Types, NMType
  <2>3. new = [obj EXCEPT !.rv = @ + 1, !.phase = obj.phase]
    BY <2>2 DEF NMType
  <2> HIDE DEF new
  <2>4. new \in NMType /\ new.of = obj.of /\ new.phase = obj.phase /\ Named(new)
    BY <1>1, <2>2, <2>3, WrittenFields DEF CopyInv
  <2>5. QED  BY <1>1, <2>1, <2>4, SameRunWritten
<1>4. QED  BY <1>2, <1>3

------------------------------------------------------------------------------
LEMMA InvInit == ASSUME Init PROVE CopyInv
<1>1. /\ watch = <<NoNM>> /\ obj = NoNM /\ nm = NoNM /\ pc = "idle" /\ outcome = ""
      /\ cms = [k \in {"script", "output"} |-> NoCM] /\ pod = NoPod /\ read = NoCM
      /\ term = NoPod /\ ran = {} /\ adopted = {} /\ file \in File \cup {NoFile} /\ pulls \in Mix
      /\ command = [c \in Command |-> "new"]
  BY DEF Init
<1>2. pulls \subseteq Command
  BY <1>1, ScriptActionAssumption
<1>3. watch \in Seq(NMType) \ {<<>>}
  <2>1. \A o \in NMType : <<o>> \in Seq(NMType) /\ Len(<<o>>) = 1 /\ <<o>>[1] = o
    OBVIOUS
  <2>2. Len(<<>>) = 0
    BY EmptySeq
  <2>3. QED  BY <1>1, <2>1, <2>2, NoNMFields
<1>4. script = NoCM /\ output = NoCM
  BY <1>1 DEF script, output
<1>5. Types
  BY <1>1, <1>2, <1>3, NoNMFields, NoCMFields, NoPodFields DEF Types
<1>6. Len(watch) = 1 /\ \A i \in Seen : i = 1 /\ watch[i] = NoNM
  <2>1. watch = <<NoNM>>
    BY <1>1
  <2>2. Len(watch) = 1 /\ watch[1] = NoNM
    BY <2>1, <1>3
  <2>3. \A i \in 1..1 : i = 1
    OBVIOUS
  <2>4. QED  BY <2>2, <2>3 DEF Seen
<1>7. \A c \in Command : 0 < c
  BY CommandNat
<1>8. Ordered
  BY <1>1, <1>6, <1>7, NoNMFields DEF Ordered, Named
<1>9. LeftBehind
  BY <1>1, <1>4, <1>5, NoNMFields, NoCMFields, NoPodFields, PastZero
     DEF LeftBehind, Left, Named, Busy
<1>10. PodKnows
  BY <1>1, <1>4, NoPodFields DEF PodKnows
<1>11. WorkerKnows
  BY <1>1, NoNMFields DEF WorkerKnows
<1>12. OutputKnown
  BY <1>1, NoNMFields DEF OutputKnown
<1>13. QED  BY <1>5, <1>8, <1>9, <1>10, <1>11, <1>12 DEF CopyInv

LEMMA InvNext == ASSUME CopyInv, [Next]_vars PROVE CopyInv'
<1>1. CASE Reconcile
  <2>1. CASE ActionStep
    BY <2>1, ExecuteKeeps, StepStands DEF ActionStep
  <2>2. QED
    BY <1>1, <2>1, WatchKeeps, BeginKeeps, UpdateKeeps DEF Reconcile
<1>2. CASE UpdateFails \/ Crash \/ Deliver \/ Requeue \/ UNCHANGED vars
  BY <1>2, UpdateKeeps, WatchKeeps
<1>3. CASE Kubelet \/ GarbageCollect
  BY <1>3, KubeletKeeps, GarbageCollectKeeps
<1>4. CASE \E c \in Command : Client(c)
  BY <1>4, ClientKeeps
<1>5. CASE People
  BY <1>5, PeopleKeep, EditKeeps DEF People
<1>6. QED  BY <1>1, <1>2, <1>3, <1>4, <1>5 DEF Next

LEMMA InvHolds == Spec => []CopyInv
<1>1. Init => CopyInv
  BY InvInit
<1>2. CopyInv /\ [Next]_vars => CopyInv'
  BY InvNext
<1>3. QED  BY <1>1, <1>2, PTL DEF Spec

(* A run recorded as Completed had its own script succeed on the node, or  *)
(* took over an earlier run's pod, whatever passes, crashes and people did *)
(* to the ConfigMap and the pod of its name in between.                    *)
THEOREM CompletedRan == Spec => []CompletedRunRan
<1>1. CopyInv => CompletedRunRan
  BY DEF CopyInv, OutputKnown, Ran, CompletedRunRan
<1>2. QED  BY <1>1, InvHolds, PTL

(* A completed pull has its output: a ConfigMap that it owns, holding what *)
(* its own script printed, as long as the run itself is there.             *)
THEOREM CompletedHasOutput == Spec => []CompletedPullHasOutput
<1>1. CopyInv => CompletedPullHasOutput
  BY DEF CopyInv, OutputKnown, Secured, Own, output, CompletedPullHasOutput
<1>2. QED  BY <1>1, InvHolds, PTL

------------------------------------------------------------------------------
(* What is printed, and what of it ends up in the local file.              *)

LEMMA LimitedIs ==
  ASSUME NEW text \in Text, NEW n \in Nat
  PROVE  \E m \in Nat : /\ m <= Len(text) /\ Len(Limited(text, n)) = m
                        /\ \A i \in 1..m : Limited(text, n)[i] = text[i]
<1> DEFINE m == IF Len(text) < n THEN Len(text) ELSE n
<1>1. Len(text) \in Nat
  BY LenProperties DEF Text
<1>2. m \in Nat /\ m <= Len(text)
  BY <1>1
<1>3. Limited(text, n) = SubSeq(text, 1, m)
  BY DEF Limited
<1> HIDE DEF m
<1>4. Len(SubSeq(text, 1, m)) = m /\ \A i \in 1..m : SubSeq(text, 1, m)[i] = text[i]
  <2>1. text \in Seq(Chunk) /\ 1 \in 1..Len(text) + 1 /\ m \in 0..Len(text)
    BY <1>1, <1>2 DEF Text
  <2>2. QED  BY <1>1, <1>2, <2>1, SubSeqProperties
<1>5. QED  BY <1>2, <1>3, <1>4

LEMMA IndexFinds ==
  ASSUME NEW text, NEW chunk, Index(text, chunk) # 0
  PROVE  \E i \in 1..Len(text) : text[i] = chunk
BY DEF Index

LEMMA IndexIs ==
  ASSUME NEW text, NEW chunk, Len(text) \in Nat, NEW i \in 1..Len(text), text[i] = chunk,
         \A j \in 1..Len(text) : text[j] = chunk => i <= j
  PROVE  Index(text, chunk) = i
<1> DEFINE places == {j \in 1..Len(text) : text[j] = chunk}
           first == CHOOSE j \in places : \A k \in places : j <= k
<1>1. i \in places /\ \A k \in places : i <= k
  OBVIOUS
<1>2. first \in places /\ \A k \in places : first <= k
  BY <1>1
<1>3. Index(text, chunk) = first
  BY <1>1 DEF Index
<1>4. first \in Nat /\ i \in Nat /\ first <= i /\ i <= first
  BY <1>1, <1>2
<1> HIDE DEF first
<1>5. QED  BY <1>3, <1>4

(* A text in which, cut or not, there is no payload. *)
Barren(text) == ~Extracts(text) /\ \A n \in Nat : ~Extracts(Limited(text, n))

LEMMA NotAPayload ==
  ASSUME NEW text \in Text, \A i \in 1..Len(text) : text[i] # "begin"
  PROVE  Barren(text)
<1>1. ~(0 > 0)
  OBVIOUS
<1>2. ASSUME NEW n \in Nat PROVE ~Extracts(Limited(text, n))
  <2>1. PICK m \in Nat : /\ m <= Len(text) /\ Len(Limited(text, n)) = m
                         /\ \A i \in 1..m : Limited(text, n)[i] = text[i]
    BY LimitedIs
  <2>2. Len(text) \in Nat
    BY LenProperties DEF Text
  <2>3. \A i \in 1..m : i \in 1..Len(text)
    BY <2>1, <2>2
  <2>4. ~\E i \in 1..m : Limited(text, n)[i] = "begin"
    BY <2>1, <2>3
  <2>5. QED  BY <1>1, <2>1, <2>4, IndexFinds DEF Extracts
<1>3. ~Extracts(text)
  BY <1>1, IndexFinds DEF Extracts
<1>4. QED  BY <1>2, <1>3 DEF Barren

LEMMA PlainTexts == Barren(<<>>) /\ Barren(<<"error">>) /\ Barren(<<"line">>)
<1>1. Barren(<<>>)
  <2>1. Len(<<>>) = 0 /\ \A i \in 1..0 : FALSE
    BY EmptySeq
  <2>2. QED  BY <2>1, EmptyText, NotAPayload
<1>2. ASSUME NEW chunk \in {"error", "line"} PROVE Barren(<<chunk>>)
  <2>1. chunk \in Chunk /\ chunk # "begin"
    BY DEF Chunk, Line
  <2>2. <<chunk>> \in Text /\ Len(<<chunk>>) = 1 /\ <<chunk>>[1] = chunk
    BY <2>1 DEF Text
  <2>3. \A i \in 1..1 : i = 1
    OBVIOUS
  <2>4. QED  BY <2>1, <2>2, <2>3, NotAPayload
<1>3. QED  BY <1>1, <1>2

LEMMA PrintedIs ==
  ASSUME NEW f \in Seq(Block), NEW l \in Nat, l = Len(f)
  PROVE  /\ Len(Printed(f)) = l + 2 /\ Printed(f)[1] = "begin"
         /\ \A i \in 1..l : Printed(f)[i + 1] = f[i]
         /\ Printed(f)[l + 2] = "end"
<1> DEFINE front == <<"begin">> \o f
<1>1. f \in Seq(Chunk)
  <2>1. \A i \in 1..Len(f) : f[i] \in Chunk
    BY ElementOfSeq DEF Chunk
  <2>2. Len(f) \in Nat /\ DOMAIN f = 1..Len(f) /\ f = [i \in 1..Len(f) |-> f[i]]
    BY LenProperties
  <2>3. QED  BY <2>1, <2>2, IsASeq
<1>2. /\ <<"begin">> \in Seq(Chunk) /\ Len(<<"begin">>) = 1 /\ <<"begin">>[1] = "begin"
      /\ <<"end">> \in Seq(Chunk) /\ Len(<<"end">>) = 1 /\ <<"end">>[1] = "end"
  BY OneLine DEF Line, Text
<1>3. /\ front \in Seq(Chunk) /\ Len(front) = l + 1 /\ front[1] = "begin"
      /\ \A i \in 1..l : front[i + 1] = f[i]
  <2>1. front \in Seq(Chunk) /\ Len(front) = 1 + l
    BY <1>1, <1>2, ConcatProperties
  <2>2. \A i \in 1..1 + l : front[i] = IF i <= 1 THEN <<"begin">>[i] ELSE f[i - 1]
    BY <1>1, <1>2, ConcatProperties
  <2>3. /\ 1 \in 1..1 + l
        /\ \A i \in 1..l : i + 1 \in 1..1 + l /\ ~(i + 1 <= 1) /\ i + 1 - 1 = i
    OBVIOUS
  <2> HIDE DEF front
  <2>4. front[1] = "begin"
    BY <1>2, <2>2, <2>3
  <2>5. \A i \in 1..l : front[i + 1] = f[i]
    BY <2>2, <2>3
  <2>6. Len(front) = l + 1
    BY <2>1
  <2>7. QED  BY <2>1, <2>4, <2>5, <2>6
<1>4. Printed(f) = front \o <<"end">>
  BY DEF Printed
<1> HIDE DEF front
<1>5. /\ Len(Printed(f)) = l + 1 + 1
      /\ \A i \in 1..l + 1 + 1 :
           Printed(f)[i] = IF i <= l + 1 THEN front[i] ELSE <<"end">>[i - (l + 1)]
  BY <1>2, <1>3, <1>4, ConcatProperties
<1>6. /\ l + 1 + 1 = l + 2 /\ l + 2 - (l + 1) = 1 /\ ~(l + 2 <= l + 1) /\ 1 <= l + 1
      /\ l + 2 \in 1..l + 1 + 1 /\ 1 \in 1..l + 1 + 1
      /\ \A i \in 1..l : i + 1 \in 1..l + 1 + 1 /\ i + 1 <= l + 1
  OBVIOUS
<1>7. Len(Printed(f)) = l + 2 /\ Printed(f)[1] = "begin"
  BY <1>3, <1>5, <1>6
<1>8. \A i \in 1..l : Printed(f)[i + 1] = f[i]
  BY <1>3, <1>5, <1>6
<1>9. Printed(f)[l + 2] = "end"
  BY <1>2, <1>5, <1>6
<1>10. QED  BY <1>7, <1>8, <1>9

(* The end sentinel is kept only together with all that is before it. *)
LEMMA PrintedPayload ==
  ASSUME NEW f \in Seq(Block), NEW n \in Nat, Extracts(Limited(Printed(f), n))
  PROVE  Payload(Limited(Printed(f), n)) = f
<1> DEFINE text == Limited(Printed(f), n)
<1>1. PICK l \in Nat : l = Len(f)
  BY LenProperties
<1>2. PICK m \in Nat : /\ m <= l + 2 /\ Len(text) = m
                       /\ \A i \in 1..m : text[i] = Printed(f)[i]
  <2>1. Printed(f) \in Text /\ Len(Printed(f)) = l + 2
    BY <1>1, PrintedText, PrintedIs
  <2>2. QED  BY <2>1, LimitedIs
<1>3. Extracts(text)
  OBVIOUS
<1> HIDE DEF text
<1>4. Index(text, "begin") = 1
  <2>1. PICK i \in 1..m : text[i] = "begin"
    <3>1. ~(0 > 0)
      OBVIOUS
    <3>2. QED  BY <1>2, <1>3, <3>1, IndexFinds DEF Extracts
  <2>2. 1 \in 1..m /\ \A k \in 1..m : 1 <= k
    OBVIOUS
  <2>3. text[1] = "begin"
    BY <1>1, <1>2, <2>2, PrintedIs
  <2>4. QED  BY <1>2, <2>2, <2>3, IndexIs
<1>5. "begin" # "end" /\ "end" \notin Block /\ \A i \in 1..l : f[i] \in Block
  BY <1>1, ElementOfSeq, ScriptActionAssumption DEF Line
<1>6. \A i \in 1..m : text[i] = "end" => i = l + 2
  <2> SUFFICES ASSUME NEW i \in 1..m, text[i] = "end", i # l + 2 PROVE FALSE
    OBVIOUS
  <2>1. i = 1 \/ i - 1 \in 1..l
    BY <1>2
  <2>2. i # 1
    BY <1>1, <1>2, <1>5, PrintedIs
  <2>3. i - 1 + 1 = i
    OBVIOUS
  <2>4. text[i] = f[i - 1]
    BY <1>1, <1>2, <2>1, <2>2, <2>3, PrintedIs
  <2>5. QED  BY <1>5, <2>1, <2>2, <2>4
<1>7. m = l + 2
  <2>1. PICK j \in 1..m : text[j] = "end"
    <3>1. ~(0 > 1)
      OBVIOUS
    <3>2. QED  BY <1>2, <1>3, <1>4, <3>1, IndexFinds DEF Extracts
  <2>2. j = l + 2 /\ j <= m
    BY <1>6, <2>1
  <2>3. QED  BY <1>2, <2>2
<1>8. text[l + 2] = "end"
  <2>1. l + 2 \in 1..m
    BY <1>7
  <2>2. QED  BY <1>1, <1>2, <2>1, PrintedIs
<1>9. Index(text, "end") = l + 2
  <2>1. l + 2 \in 1..m /\ l + 2 <= l + 2
    BY <1>7
  <2>2. \A i \in 1..m : text[i] = "end" => l + 2 <= i
    BY <1>6, <2>1
  <2>3. QED  BY <1>2, <1>8, <2>1, <2>2, IndexIs
<1>10. Payload(text) = SubSeq(text, 2, l + 1)
  <2>1. 1 + 1 = 2 /\ l + 2 - 1 = l + 1
    OBVIOUS
  <2>2. QED  BY <1>4, <1>9, <2>1 DEF Payload
<1>11. \A i \in 1..l : text[i + 1] = f[i]
  <2>1. \A i \in 1..l : i + 1 \in 1..m
    BY <1>7
  <2>2. QED  BY <1>1, <1>2, <2>1, PrintedIs
<1>12. SubSeq(text, 2, l + 1) = f
  <2>1. 2 \in Int /\ l + 1 \in Int
    OBVIOUS
  <2>2. \A i \in 2..l + 1 : text[i] \in Block
    <3>1. \A i \in 2..l + 1 : i - 1 \in 1..l /\ i - 1 + 1 = i
      OBVIOUS
    <3>2. QED  BY <1>5, <1>11, <3>1
  <2>3. /\ SubSeq(text, 2, l + 1) \in Seq(Block)
        /\ Len(SubSeq(text, 2, l + 1)) = IF 2 <= l + 1 THEN l + 1 - 2 + 1 ELSE 0
        /\ \A i \in 1..l + 1 - 2 + 1 : SubSeq(text, 2, l + 1)[i] = text[2 + i - 1]
    BY <2>1, <2>2, SubSeqProperties
  <2>4. /\ (IF 2 <= l + 1 THEN l + 1 - 2 + 1 ELSE 0) = l /\ l + 1 - 2 + 1 = l
        /\ \A i \in 1..l : 2 + i - 1 = i + 1
    OBVIOUS
  <2>5. Len(SubSeq(text, 2, l + 1)) = l /\ \A i \in 1..l : SubSeq(text, 2, l + 1)[i] = f[i]
    BY <1>11, <2>3, <2>4
  <2>6. QED  BY <1>1, <2>3, <2>5, SeqEqual
<1>13. QED  BY <1>10, <1>12 DEF text

------------------------------------------------------------------------------
(* The payload that a ConfigMap yields is a file that was printed.         *)

(* What is found in the text is a file that by's script has printed. *)
Fetchable(text, by) == Extracts(text) => by \in Command /\ Payload(text) \in sent[by]

(* However much of the text is kept. *)
Printable(text, by) == \A n \in Nat : Fetchable(Limited(text, n), by)

Texts ==
  /\ sent \in [Command -> SUBSET File]
  /\ pod.phase \in {"absent", "Pending", "Running"} => pod.log = <<>>
  /\ Printable(pod.log, pod.body) /\ Printable(term.log, term.body)
  /\ Fetchable(output.data.text, output.data.by)

HistoryGrows ==
  pulls' = pulls /\ adopted \subseteq adopted' /\ \A c \in Command : sent[c] \subseteq sent'[c]

LEMMA HistoryMoves ==
  ASSUME [Next]_vars, Types, Texts
  PROVE  HistoryGrows /\ sent' \in [Command -> SUBSET File]
<1>1. /\ pulls' = pulls
      /\ adopted' = adopted \/ adopted' = adopted \cup {nm.of}
      /\ sent' = sent \/ PullScript
  <2>1. CASE Execute
    BY <2>1 DEF Execute, CreateCM, GetCM, UpdateCM, EnsureFails, GetNode, GetNodeFails, TakePod,
       NoPodYet, CreatePod, EnsurePodFails, WaitForPod, WaitForPodFails, TailLogs, TailLogsFails,
       TailRead, CaptureLogs, CaptureLogsFails, GcPod, node
  <2>2. CASE Kubelet
    BY <2>2 DEF Kubelet, StartPod, PullScript, PushScript, FailPod, node
  <2>3. CASE ~Execute /\ (Reconcile \/ Deliver \/ Requeue \/ UpdateFails \/ Crash \/ UNCHANGED vars)
    BY <2>3 DEF Reconcile, ReturnIfOver, SeedStatus, BeginPass, ActionStep, UpdateStatus,
       UpdateConflicts, Deliver, Requeue, UpdateFails, Crash, Forget, vars, scriptVars, node
  <2>4. CASE GarbageCollect \/ People \/ \E c \in Command : Client(c)
    BY <2>4 DEF GarbageCollect, Collect, People, DeleteNM, Annotate, DeletePod, ChangeFile,
       Edit, Client, Create, SeeCompleted, GiveUp, Summarize, Read, Fetch, WriteFails,
       FetchFails, Delete, OnlyCommands, scriptVars, node
  <2>5. QED  BY <2>1, <2>2, <2>3, <2>4 DEF Next, Reconcile, ActionStep
<1>2. CASE sent' = sent
  BY <1>1, <1>2 DEF HistoryGrows, Texts
<1>3. CASE PullScript /\ sent' # sent
  <2>1. /\ sent' = [sent EXCEPT ![pod.body] = @ \cup {file}] /\ file # NoFile
        /\ file \in File \cup {NoFile}
    BY <1>3 DEF PullScript, Types
  <2>2. QED  BY <1>1, <2>1 DEF HistoryGrows, Texts
<1>4. QED  BY <1>1, <1>2, <1>3

(* The pods and the logs that a step leaves. *)
LEMMA LogsMove ==
  ASSUME [Next]_vars, Types, PodKnows, Texts
  PROVE  /\ pod'.phase \in {"absent", "Pending", "Running"} => pod'.log = <<>>
         /\ Printable(pod.log, pod.body)' /\ Printable(term.log, term.body)'
<1> DEFINE made == [NoPod EXCEPT !.phase = "Pending", !.of = nm.of]
           Fine(p) == \A n \in Nat : Extracts(Limited(p.log, n)) =>
                        p.body \in Command /\ Payload(Limited(p.log, n)) \in sent'[p.body]
<1>1. NoPod.log = <<>> /\ made.log = <<>>
  BY DEF NoPod
<1>2. \A p : p.log = <<>> => Fine(p)
  BY PlainTexts DEF Barren
<1>3. Fine(pod) /\ Fine(term)
  <2>1. \A c \in Command : sent[c] \subseteq sent'[c]
    BY HistoryMoves DEF HistoryGrows
  <2>2. QED  BY <2>1 DEF Texts, Printable, Fetchable
<1>4. Fine(pod') => Printable(pod.log, pod.body)'
  BY DEF Printable, Fetchable
<1>5. Fine(term') => Printable(term.log, term.body)'
  BY DEF Printable, Fetchable
<1> HIDE DEF Fine
<1>6. CASE Execute
  <2>1. pod' \in {pod, NoPod, made} /\ term' \in {term, NoPod, pod}
    <3> HIDE DEF made
    <3>1. CASE CreateCM \/ GetCM \/ UpdateCM \/ EnsureFails \/ GetNode \/ GetNodeFails
      BY <3>1 DEF CreateCM, GetCM, UpdateCM, EnsureFails, GetNode, GetNodeFails, namespace
    <3>2. CASE TakePod \/ NoPodYet \/ WaitForPod \/ WaitForPodFails
      BY <3>2 DEF TakePod, NoPodYet, WaitForPod, WaitForPodFails, namespace
    <3>3. CASE TailLogs \/ TailLogsFails \/ CaptureLogs \/ CaptureLogsFails
      BY <3>3 DEF TailLogs, TailLogsFails, TailRead, CaptureLogs, CaptureLogsFails, namespace
    <3>4. CASE CreatePod \/ EnsurePodFails \/ GcPod
      BY <3>4 DEF CreatePod, EnsurePodFails, GcPod, made
    <3>5. QED  BY <1>6, <3>1, <3>2, <3>3, <3>4 DEF Execute
  <2> HIDE DEF made
  <2>2. QED  BY <1>1, <1>2, <1>3, <1>4, <1>5, <2>1 DEF Texts
<1>7. CASE Kubelet
  <2>1. term' = term
    BY <1>7 DEF Kubelet, StartPod, PullScript, PushScript, FailPod, action
  <2>2. pod \in PodType
    BY DEF Types
  <2>3. CASE StartPod
    <3>1. pod'.log = pod.log /\ pod.phase = "Pending"
      BY <2>2, <2>3 DEF StartPod, PodType
    <3>2. QED  BY <1>2, <1>3, <1>4, <1>5, <2>1, <3>1 DEF Texts
  <2>4. CASE PullScript \/ PushScript \/ FailPod
    <3>1. PICK phase, log :
            /\ EndPod(phase, log) /\ phase \in {"Succeeded", "Failed"}
            /\ \/ log \in {<<"error">>, <<"line">>}
               \/ /\ PullScript /\ log = Printed(file) /\ file # NoFile
                  /\ sent' = [sent EXCEPT ![pod.body] = @ \cup {file}]
      BY <2>4 DEF PullScript, PushScript, FailPod
    <3>2. pod'.log = log /\ pod'.body = pod.body /\ pod'.phase = phase
      BY <2>2, <3>1 DEF EndPod, PodType
    <3>3. Fine(pod')
      <4>1. CASE log \in {<<"error">>, <<"line">>}
        BY <3>2, <4>1, PlainTexts DEF Fine, Barren
      <4>2. CASE /\ PullScript /\ log = Printed(file) /\ file # NoFile
                 /\ sent' = [sent EXCEPT ![pod.body] = @ \cup {file}]
        <5>1. pod.body \in Command /\ file \in File /\ file \in Seq(Block)
          BY <4>2, ScriptActionAssumption DEF PullScript, Types
        <5>2. file \in sent'[pod.body]
          BY <4>2, <5>1 DEF Texts
        <5>3. \A n \in Nat : Extracts(Limited(log, n)) => Payload(Limited(log, n)) = file
          BY <4>2, <5>1, PrintedPayload
        <5>4. QED  BY <3>2, <5>1, <5>2, <5>3 DEF Fine
      <4>3. QED  BY <3>1, <4>1, <4>2
    <3>4. QED  BY <1>3, <1>4, <1>5, <2>1, <3>1, <3>2, <3>3
  <2>5. QED  BY <1>7, <2>3, <2>4 DEF Kubelet
<1>8. CASE ~Execute /\ ~Kubelet
  <2>1. term' \in {term, NoPod} /\ pod' \in {pod, NoPod}
    <3>1. CASE Reconcile \/ Deliver \/ Requeue \/ UpdateFails \/ Crash \/ UNCHANGED vars
      BY <1>8, <3>1 DEF Reconcile, ReturnIfOver, SeedStatus, BeginPass, ActionStep, UpdateStatus,
         UpdateConflicts, Deliver, Requeue, UpdateFails, Crash, Forget, vars, scriptVars,
         action, namespace
    <3>2. CASE GarbageCollect \/ People \/ \E c \in Command : Client(c)
      BY <3>2 DEF GarbageCollect, Collect, People, DeleteNM, Annotate, DeletePod, ChangeFile,
         Edit, Client, Create, SeeCompleted, GiveUp, Summarize, Read, Fetch, WriteFails,
         FetchFails, Delete, OnlyCommands, scriptVars, action, namespace
    <3>3. QED  BY <1>8, <3>1, <3>2 DEF Next
  <2> HIDE DEF made
  <2>2. QED  BY <1>1, <1>2, <1>3, <1>4, <1>5, <2>1 DEF Texts
<1>9. QED  BY <1>6, <1>7, <1>8

(* What an action puts into the output ConfigMap is what it waited for. *)
LEMMA PutFetchable ==
  ASSUME Types, Texts, NEW new, new.data = Data, cms' = [cms EXCEPT ![Which] = new]
  PROVE  Fetchable(output'.data.text, output'.data.by)
<1>1. CASE aim = "output"
  <2>1. Data = [by |-> term.body, text |-> Limited(term.log, CaptureLimit)]
    BY <1>1 DEF Data
  <2>2. CaptureLimit \in Nat
    BY ScriptActionAssumption
  <2>3. output' = new
    BY <1>1 DEF Types, Which, output
  <2>4. QED  BY <2>1, <2>2, <2>3 DEF Texts, Printable
<1>2. CASE aim # "output"
  <2>1. output' = output
    BY <1>2 DEF Types, Which, output
  <2>2. QED  BY <2>1 DEF Texts
<1>3. QED  BY <1>1, <1>2

LEMMA OutputMoves ==
  ASSUME [Next]_vars, Types, Texts
  PROVE  Fetchable(output.data.text, output.data.by)'
<1>1. Fetchable(output'.data.text, output'.data.by)
      => Fetchable(output.data.text, output.data.by)'
  <2>1. \A c \in Command : sent[c] \subseteq sent'[c]
    BY HistoryMoves DEF HistoryGrows
  <2>2. QED  BY <2>1 DEF Fetchable
<1>2. CASE output' = output
  BY <1>1, <1>2 DEF Texts
<1>3. CASE CreateCM \/ UpdateCM \/ EnsureFails
  <2>1. \A old : /\ Fresh(Data, nm.of).data = Data
                 /\ Merged(old, Data, nm.of).data = Data
    BY DEF Fresh, Merged
  <2>2. \/ cms' = cms
        \/ \E new : new.data = Data /\ cms' = [cms EXCEPT ![Which] = new]
    BY <1>3, <2>1 DEF CreateCM, UpdateCM, EnsureFails
  <2>3. CASE cms' = cms
    BY <1>2, <2>3 DEF output
  <2>4. QED  BY <1>1, <2>2, <2>3, PutFetchable
<1>4. CASE GarbageCollect
  <2>0. PICK k \in {"script", "output"} : \E alive : Collect(k, alive)
    BY <1>4 DEF GarbageCollect
  <2>1. PICK alive : Collect(k, alive)
    BY <2>0
  <2>2. PICK new : /\ cms' = [cms EXCEPT ![k] = new]
                   /\ new = NoCM \/ new = [cms[k] EXCEPT !.owners = cms[k].owners \cap alive]
    BY <2>1 DEF Collect
  <2>3. new.data \in {NoCM.data, cms[k].data}
    BY <2>2 DEF Types, CMType
  <2>4. output' \in {output, new} /\ (k # "output" => output' = output)
    BY <2>0, <2>2 DEF Types, output
  <2>5. NoCM.data.text = <<>>
    BY DEF NoCM
  <2>6. \A by : Fetchable(<<>>, by)
    BY PlainTexts DEF Barren, Fetchable
  <2>7. Fetchable(output'.data.text, output'.data.by)
    <3>1. output'.data \in {NoCM.data, output.data}
      BY <2>3, <2>4 DEF output
    <3>2. QED  BY <2>5, <2>6, <3>1 DEF Texts
  <2>8. QED  BY <1>1, <2>7
<1>5. CASE ~(CreateCM \/ UpdateCM \/ EnsureFails \/ GarbageCollect)
  <2>1. cms' = cms
    <3>1. CASE Execute \/ Kubelet
      BY <1>5, <3>1 DEF Execute, GetCM, GetNode, GetNodeFails, TakePod,
         NoPodYet, CreatePod, EnsurePodFails, WaitForPod, WaitForPodFails, TailLogs, TailLogsFails,
         TailRead, CaptureLogs, CaptureLogsFails, GcPod, Kubelet, StartPod, PullScript, PushScript,
         FailPod, namespace
    <3>2. CASE ~Execute /\ (Reconcile \/ Deliver \/ Requeue \/ UpdateFails \/ Crash \/ UNCHANGED vars)
      BY <3>2 DEF Reconcile, ReturnIfOver, SeedStatus, BeginPass, ActionStep, UpdateStatus,
         UpdateConflicts, Deliver, Requeue, UpdateFails, Crash, Forget, vars, scriptVars, namespace
    <3>3. CASE People \/ \E c \in Command : Client(c)
      BY <3>3 DEF People, DeleteNM, Annotate, DeletePod, ChangeFile, Edit, Client, Create,
         SeeCompleted, GiveUp, Summarize, Read, Fetch, WriteFails, FetchFails, Delete,
         OnlyCommands, scriptVars, namespace
    <3>4. QED  BY <1>5, <3>1, <3>2, <3>3 DEF Next, Reconcile, ActionStep
  <2>2. QED  BY <1>2, <2>1 DEF output
<1>6. QED  BY <1>3, <1>4, <1>5

(* TypeOK of what Types and Texts leave out. *)
Others ==
  /\ pulls \in Mix
  /\ aim \in {"", "render", "script", "output"} /\ tail \in Text
  /\ queued \in BOOLEAN /\ retry \in BOOLEAN
  /\ got \in [Command -> Seq(Block) \cup {NoFile}]
  /\ upsets \in 0..MaxUpsets

LEMMA UpsetsMove ==
  ASSUME [Next]_vars, Others
  PROVE  (upsets \in 0..MaxUpsets)'
<1>1. upsets' = upsets \/ Upset
  <2>1. CASE Reconcile \/ Deliver \/ Requeue \/ Kubelet \/ GarbageCollect \/ UNCHANGED vars
    BY <2>1 DEF Reconcile, ReturnIfOver, SeedStatus, BeginPass, ActionStep, UpdateStatus,
       UpdateConflicts, Deliver, Requeue, Kubelet, GarbageCollect, vars
  <2>2. CASE UpdateFails \/ Crash \/ People \/ \E c \in Command : Client(c)
    BY <2>2 DEF UpdateFails, Crash, People, DeleteNM, Annotate, DeletePod, ChangeFile,
       Edit, Client, Create, SeeCompleted, GiveUp, Summarize, Read, Fetch, WriteFails,
       FetchFails, Delete, OnlyCommands
  <2>3. QED  BY <2>1, <2>2 DEF Next
<1>2. MaxUpsets \in Nat /\ upsets \in 0..MaxUpsets
  BY CopyFileAssumption DEF Others
<1>3. CASE Upset
  BY <1>2, <1>3 DEF Upset
<1>4. QED  BY <1>1, <1>2, <1>3

LEMMA QueueMoves ==
  ASSUME [Next]_vars, Others PROVE queued' \in BOOLEAN /\ retry' \in BOOLEAN
<1>1. /\ queued' \in {queued, TRUE, FALSE, obj # NoNM}
      /\ retry' \in {retry, TRUE, FALSE, retry \/ pc = "seed"}
  <2>1. CASE Reconcile \/ Deliver \/ Requeue \/ Kubelet \/ GarbageCollect \/ UNCHANGED vars
    BY <2>1 DEF Reconcile, ReturnIfOver, SeedStatus, BeginPass, ActionStep, UpdateStatus,
       UpdateConflicts, Deliver, Requeue, Kubelet, GarbageCollect, vars, queue
  <2>2. CASE UpdateFails \/ Crash \/ People \/ \E c \in Command : Client(c)
    BY <2>2 DEF UpdateFails, Crash, People, DeleteNM, Annotate, DeletePod, ChangeFile,
       Edit, Client, Create, SeeCompleted, GiveUp, Summarize, Read, Fetch, WriteFails,
       FetchFails, Delete, OnlyCommands, queue
  <2>3. QED  BY <2>1, <2>2 DEF Next
<1>2. QED  BY <1>1 DEF Others

LEMMA WorkerMoves ==
  ASSUME [Next]_vars, Types, Others
  PROVE  /\ aim' \in {"", "render", "script", "output"}
         /\ tail' \in Text
<1>1. /\ aim' \in {aim, "", "render", "script", "output"}
      /\ tail' \in {tail, <<>>, <<"unread">>, Limited(pod.log, TailLimit)}
  <2>1. CASE Execute
    BY <2>1 DEF Execute, CreateCM, GetCM, UpdateCM, EnsureFails, GetNode, GetNodeFails, TakePod,
       NoPodYet, CreatePod, EnsurePodFails, WaitForPod, WaitForPodFails, TailLogs, TailLogsFails,
       TailRead, CaptureLogs, CaptureLogsFails, GcPod
  <2>2. CASE ~Execute /\ (Reconcile \/ Deliver \/ Requeue \/ UpdateFails \/ Crash \/ UNCHANGED vars)
    BY <2>2 DEF Reconcile, ReturnIfOver, SeedStatus, BeginPass, ActionStep, UpdateStatus,
       UpdateConflicts, Deliver, Requeue, UpdateFails, Crash, Forget, vars, scriptVars, action
  <2>3. CASE Kubelet \/ GarbageCollect \/ People \/ \E c \in Command : Client(c)
    BY <2>3 DEF Kubelet, StartPod, PullScript, PushScript, FailPod, GarbageCollect, Collect,
       People, DeleteNM, Annotate, DeletePod, ChangeFile, Edit, Client, Create, SeeCompleted,
       GiveUp, Summarize, Read, Fetch, WriteFails, FetchFails, Delete, OnlyCommands, scriptVars,
       action
  <2>4. QED  BY <2>1, <2>2, <2>3 DEF Next, Reconcile, ActionStep
<1>2. <<"unread">> \in Text
  BY OneLine DEF Line
<1>3. Limited(pod.log, TailLimit) \in Text
  <2>1. pod.log \in Text /\ TailLimit \in Nat
    BY ScriptActionAssumption DEF Types, PodType
  <2>2. QED  BY <2>1, LimitedText
<1>4. QED  BY <1>1, <1>2, <1>3, EmptyText DEF Others

(* A command steps along, or another one, or none. *)
LEMMA CommandMoves ==
  ASSUME [Next]_vars, Types, Others, NEW c \in Command
  PROVE  \/ command'[c] = command[c] /\ got'[c] = got[c]
         \/ Create(c) /\ command'[c] \in {"wait", "failed"} /\ got'[c] = got[c]
         \/ /\ SeeCompleted(c) /\ got'[c] = got[c]
            /\ command'[c] = IF c \in pulls THEN "read" ELSE "summary"
         \/ command[c] = "summary" /\ command'[c] = "delete" /\ got'[c] = got[c]
         \/ Fetch(c) /\ command'[c] = "delete" /\ got'[c] = Fetched
         \/ command[c] = "delete" /\ command'[c] = "done" /\ got'[c] = got[c]
         \/ /\ command'[c] = "failed"
            /\ got'[c] = got[c] \/ WriteFails(c)
<1>1. DOMAIN command = Command /\ DOMAIN got = Command
  BY DEF Types, Others
<1>2. CASE \E d \in Command : Client(d)
  <2>1. PICK d \in Command : Client(d)
    BY <1>2
  <2>2. CASE d = c
    BY <1>1, <2>1, <2>2 DEF Client, Create, SeeCompleted, GiveUp, Summarize, Fetch, WriteFails,
       FetchFails, Delete, Goto
  <2>3. CASE d # c
    BY <1>1, <2>1, <2>3 DEF Client, Create, SeeCompleted, GiveUp, Summarize, Fetch, WriteFails,
       FetchFails, Delete, Goto
  <2>4. QED  BY <2>2, <2>3
<1>3. CASE ~\E d \in Command : Client(d)
  <2>1. CASE Reconcile \/ Deliver \/ Requeue \/ Kubelet \/ GarbageCollect \/ UNCHANGED vars
    BY <2>1 DEF Reconcile, ReturnIfOver, SeedStatus, BeginPass, ActionStep, UpdateStatus,
       UpdateConflicts, Deliver, Requeue, Kubelet, GarbageCollect, vars, client
  <2>2. CASE UpdateFails \/ Crash \/ People
    BY <2>2 DEF UpdateFails, Crash, People, DeleteNM, Annotate, DeletePod, ChangeFile, Edit,
       client
  <2>3. QED  BY <1>3, <2>1, <2>2 DEF Next
<1>4. QED  BY <1>2, <1>3

(* What is written of a payload, all of it or not, is made of blocks. *)
LEMMA GotMoves ==
  ASSUME [Next]_vars, Types, Texts, Others
  PROVE  got' \in [Command -> Seq(Block) \cup {NoFile}]
<1>1. ASSUME NEW c \in Command, Read(c)
      PROVE  /\ Fetched \in Seq(Block)
             /\ \A n \in 0..Len(Fetched) : SubSeq(Fetched, 1, n) \in Seq(Block)
  <2>1. Fetched \in Seq(Block)
    <3>1. output.data.by \in Command /\ Fetched \in sent[output.data.by]
      BY <1>1 DEF Read, Fetched, Texts, Fetchable, output
    <3>2. QED  BY <3>1, ScriptActionAssumption DEF Texts
  <2>2. ASSUME NEW n \in 0..Len(Fetched) PROVE SubSeq(Fetched, 1, n) \in Seq(Block)
    <3>1. Len(Fetched) \in Nat
      BY <2>1, LenProperties
    <3>2. \A i \in 1..n : i \in 1..Len(Fetched)
      BY <3>1
    <3>3. \A i \in 1..n : Fetched[i] \in Block
      BY <2>1, <3>2, ElementOfSeq
    <3>4. 1 \in Int /\ n \in Int
      BY <3>1
    <3>5. QED  BY <3>3, <3>4, SubSeqProperties
  <2>3. QED  BY <2>1, <2>2
<1>2. \/ got' = got
      \/ \E c \in Command : Read(c) /\ got' = [got EXCEPT ![c] = Fetched]
      \/ \E c \in Command : /\ Read(c)
                            /\ \E n \in 0..Len(Fetched) :
                                 got' = [got EXCEPT ![c] = SubSeq(Fetched, 1, n)]
  <2>1. CASE Reconcile \/ Deliver \/ Requeue \/ Kubelet \/ GarbageCollect \/ UNCHANGED vars
    BY <2>1 DEF Reconcile, ReturnIfOver, SeedStatus, BeginPass, ActionStep, UpdateStatus,
       UpdateConflicts, Deliver, Requeue, Kubelet, GarbageCollect, vars, client
  <2>2. CASE UpdateFails \/ Crash \/ People
    BY <2>2 DEF UpdateFails, Crash, People, DeleteNM, Annotate, DeletePod, ChangeFile, Edit,
       client
  <2>3. CASE \E c \in Command : Client(c)
    BY <2>3 DEF Client, Create, SeeCompleted, GiveUp, Summarize, Fetch, WriteFails, FetchFails,
       Delete
  <2>4. QED  BY <2>1, <2>2, <2>3 DEF Next
<1>3. QED  BY <1>1, <1>2 DEF Others

------------------------------------------------------------------------------
(* A run that was seen to complete is completed for as long as it lives.   *)

(* What is seen of the object is not newer than it, and a pass that is at *)
(* work on its last version began before it was completed.                *)
Versions ==
  /\ \A i \in Seen : watch[i].of = obj.of =>
       watch[i].rv <= obj.rv /\ (watch[i].rv = obj.rv => watch[i].phase = obj.phase)
  /\ Busy /\ nm.of = obj.of =>
       nm.rv <= obj.rv /\ (nm.rv = obj.rv => obj.phase # "Completed")

Deliveries ==
  /\ \A c \in Command : command[c] = "read" /\ obj.of = c => obj.phase = "Completed"
  /\ \A c \in Command : command[c] = "summary" => c \notin pulls
  /\ PullDelivers

(* A write of the object that is there: a version more, and its phase kept, *)
(* but for the status write of the pass that began with this version.       *)
Rewritten ==
  \E phase \in {"", "InProgress", "Completed", "Failed"} :
    /\ obj # NoNM /\ Write([obj EXCEPT !.rv = @ + 1, !.phase = phase])
    /\ phase = obj.phase \/ (Persisting /\ IsCurrent)

Created ==
  \E c \in Command :
    obj = NoNM /\ Create(c) /\ IsNew(c) /\ Write([of |-> c, rv |-> 1, phase |-> ""])

LEMMA ObjMoves ==
  ASSUME [Next]_vars, CopyInv
  PROVE  \/ /\ obj' = obj
            /\ watch' = watch \/ watch' = <<obj>> \/ (Len(watch) > 1 /\ watch' = Tail(watch))
         \/ Write(NoNM)
         \/ Rewritten
         \/ Created
<1>1. CASE ActionStep \/ Kubelet \/ GarbageCollect
  BY <1>1 DEF ActionStep, Kubelet, GarbageCollect, store
<1>2. CASE ReturnIfOver \/ SeedStatus \/ BeginPass \/ Deliver \/ Requeue \/ Crash
  BY <1>2 DEF ReturnIfOver, SeedStatus, BeginPass, Deliver, Requeue, Crash, store
<1>3. CASE UpdateStatus \/ UpdateConflicts \/ UpdateFails
  <2>1. UNCHANGED store \/ (Persisting /\ IsCurrent /\ WriteStatus)
    BY <1>3 DEF UpdateStatus, UpdateConflicts, UpdateFails
  <2>2. CASE Persisting /\ IsCurrent /\ WriteStatus
    <3>1. nm.of \in Command /\ nm.of # 0 /\ obj # NoNM
      BY <2>2, AtWork, CommandNat, NoNMFields DEF Persisting, Busy, IsCurrent
    <3>2. nm.phase \in {"", "InProgress", "Completed", "Failed"}
      BY DEF CopyInv, Types, NMType
    <3>3. QED  BY <2>2, <3>1, <3>2 DEF WriteStatus, Rewritten
  <2>3. QED  BY <2>1, <2>2 DEF store
<1>4. CASE People
  <2>1. CASE DeletePod \/ ChangeFile
    BY <2>1 DEF DeletePod, ChangeFile, store
  <2>2. CASE DeleteNM
    BY <2>2 DEF DeleteNM
  <2>3. CASE Annotate
    <3>1. obj.phase \in {"", "InProgress", "Completed", "Failed"} /\ obj \in NMType
      BY DEF CopyInv, Types, NMType
    <3>2. [obj EXCEPT !.rv = @ + 1] = [obj EXCEPT !.rv = @ + 1, !.phase = obj.phase]
      BY <3>1 DEF NMType
    <3>3. obj # NoNM /\ Write([obj EXCEPT !.rv = @ + 1, !.phase = obj.phase])
      BY <2>3, <3>2 DEF Annotate
    <3>4. QED  BY <3>1, <3>3 DEF Rewritten
  <2>4. QED  BY <1>4, <2>1, <2>2, <2>3 DEF People
<1>5. CASE \E c \in Command : Client(c)
  <2>1. PICK c \in Command : Client(c)
    BY <1>5
  <2>2. CASE Create(c)
    <3>1. \/ obj = NoNM /\ Write([of |-> c, rv |-> 1, phase |-> ""])
          \/ UNCHANGED store
      BY <2>2 DEF Create
    <3>2. IsNew(c)
      BY <2>2 DEF Create, IsNew
    <3>3. QED  BY <2>2, <3>1, <3>2 DEF Created, store
  <2>3. CASE ~Create(c)
    BY <2>1, <2>3 DEF Client, SeeCompleted, GiveUp, Summarize, Fetch, WriteFails, FetchFails,
       Delete, store
  <2>4. QED  BY <2>2, <2>3
<1>6. CASE UNCHANGED vars
  BY <1>6 DEF vars, store
<1>7. QED  BY <1>1, <1>2, <1>3, <1>4, <1>5, <1>6 DEF Next, Reconcile

(* The worker's copy is the one its pass began with, or a new pass begins. *)
LEMMA CopyMoves ==
  ASSUME [Next]_vars, CopyInv, Busy'
  PROVE  \/ Busy /\ nm'.of = nm.of /\ nm'.rv = nm.rv
         \/ /\ UNCHANGED store /\ ~IsOver(Cached)
            /\ nm'.of = Cached.of /\ nm'.rv = Cached.rv
<1>1. nm \in NMType /\ (nm' = nm => nm'.of = nm.of /\ nm'.rv = nm.rv)
  BY DEF CopyInv, Types
<1>2. CASE Execute
  <2>1. Busy /\ (nm' = nm \/ \E phase : nm' = [nm EXCEPT !.phase = phase])
    BY <1>2 DEF Execute, CreateCM, GetCM, UpdateCM, EnsureFails, NotEnsured, GetNode, GetNodeFails,
       TakePod, NoPodYet, CreatePod, EnsurePodFails, WaitForPod, WaitForPodFails, TailLogs,
       TailLogsFails, TailRead, CaptureLogs, CaptureLogsFails, GcPod, Fail, Return, At, Busy
  <2>2. QED  BY <1>1, <2>1 DEF NMType
<1>3. CASE SeedStatus \/ BeginPass
  <2>1. Cached \in NMType
    BY WatchFacts DEF CopyInv
  <2>2. QED  BY <1>3, <2>1 DEF SeedStatus, BeginPass, NMType
<1>4. CASE UpdateStatus \/ UpdateConflicts \/ UpdateFails \/ Crash
  BY <1>4 DEF UpdateStatus, UpdateConflicts, UpdateFails, Crash, Forget, Busy
<1>5. CASE ReturnIfOver \/ Deliver \/ Requeue \/ Kubelet \/ GarbageCollect \/ UNCHANGED vars
  BY <1>1, <1>5 DEF ReturnIfOver, Deliver, Requeue, Kubelet, StartPod, PullScript, PushScript,
     FailPod, GarbageCollect, Collect, vars, scriptVars, action, Busy
<1>6. CASE People \/ \E c \in Command : Client(c)
  BY <1>1, <1>6 DEF People, DeleteNM, Annotate, DeletePod, ChangeFile, Edit, Client, Create,
     SeeCompleted, GiveUp, Summarize, Fetch, WriteFails, FetchFails, Delete, OnlyCommands,
     scriptVars, action, Busy
<1>7. QED  BY <1>2, <1>3, <1>4, <1>5, <1>6 DEF Next, Reconcile, ActionStep

LEMMA Appended ==
  ASSUME Types, Ordered, NEW new \in NMType, Write(new)
  PROVE  \A i \in Seen' : watch'[i] = new \/ \E j \in Seen : watch'[i] = watch[j]
<1> DEFINE n == Len(watch)
<1>1. n \in Nat
  BY WatchFacts
<1>2. /\ Len(watch') = n + 1 /\ watch'[n + 1] = new
      /\ \A i \in 1..n : watch'[i] = watch[i]
  <2>1. watch \in Seq(NMType) /\ watch' = Append(watch, new)
    BY DEF Types, Write
  <2>2. QED  BY <2>1, AppendProperties
<1>3. Seen' = 1..(n + 1) /\ Seen = 1..n
  BY <1>2 DEF Seen
<1> HIDE DEF n
<1>4. \A i \in Seen' : i \in Seen \/ i = n + 1
  BY <1>1, <1>3
<1>5. QED  BY <1>2, <1>3, <1>4

LEMMA Removed ==
  ASSUME Types, Ordered,
         watch' = watch \/ watch' = <<obj>> \/ (Len(watch) > 1 /\ watch' = Tail(watch))
  PROVE  \A i \in Seen' : \E j \in Seen : watch'[i] = watch[j]
<1>1. /\ Len(watch) \in Nat /\ Len(watch) \in Seen /\ watch[Len(watch)] = obj
      /\ watch \in Seq(NMType)
  BY WatchFacts DEF Types
<1>2. CASE watch' = watch
  BY <1>2 DEF Seen
<1>3. CASE watch' = <<obj>>
  <2>1. Len(<<obj>>) = 1 /\ <<obj>>[1] = obj /\ \A i \in 1..1 : i = 1
    OBVIOUS
  <2>2. QED  BY <1>1, <1>3, <2>1 DEF Seen
<1>4. CASE Len(watch) > 1 /\ watch' = Tail(watch)
  <2>1. watch # <<>>
    BY <1>4, EmptySeq
  <2>2. /\ Len(watch') = Len(watch) - 1
        /\ \A i \in 1..Len(watch) - 1 : watch'[i] = watch[i + 1]
    BY <1>1, <1>4, <2>1, HeadTailProperties
  <2>3. \A i \in 1..Len(watch) - 1 : i + 1 \in 1..Len(watch)
    BY <1>1
  <2>4. QED  BY <2>2, <2>3 DEF Seen
<1>5. QED  BY <1>2, <1>3, <1>4

(* A write of the object makes it newer than all that there is of it. *)
LEMMA NewerVersion ==
  ASSUME CopyInv, Versions, Rewritten
  PROVE  /\ obj'.of = obj.of /\ obj'.rv \in Nat /\ obj.rv \in Nat /\ obj'.rv = obj.rv + 1
         /\ obj' \in NMType /\ Write(obj')
<1>1. PICK phase \in {"", "InProgress", "Completed", "Failed"} :
        Write([obj EXCEPT !.rv = @ + 1, !.phase = phase])
  BY DEF Rewritten
<1>2. obj \in NMType /\ obj.rv \in Nat
  BY DEF CopyInv, Types, NMType
<1>3. obj.rv + 1 \in Nat
  BY <1>2, NextVersion
<1>4. /\ obj'.of = obj.of /\ obj'.rv = obj.rv + 1 /\ obj' \in NMType
  BY <1>1, <1>2, <1>3 DEF Write, NMType
<1>5. QED  BY <1>1, <1>2, <1>3, <1>4 DEF Write

LEMMA VersionsMove ==
  ASSUME [Next]_vars, CopyInv, CopyInv', Versions
  PROVE  Versions'
<1>1. /\ nm \in NMType /\ nm.rv \in Nat /\ nm' \in NMType /\ nm'.rv \in Nat
      /\ \A i \in Seen : watch[i] \in NMType /\ watch[i].rv \in Nat
      /\ obj \in NMType /\ obj.rv \in Nat
  <2>1. nm \in NMType /\ nm' \in NMType /\ obj \in NMType /\ \A i \in Seen : watch[i] \in NMType
    BY WatchFacts DEF CopyInv, Types
  <2>2. QED  BY <2>1 DEF NMType
<1>2. CASE /\ obj' = obj
           /\ watch' = watch \/ watch' = <<obj>> \/ (Len(watch) > 1 /\ watch' = Tail(watch))
  <2>1. \A i \in Seen' : \E j \in Seen : watch'[i] = watch[j]
    BY <1>2, Removed DEF CopyInv
  <2>2. ASSUME Busy', nm'.of = obj.of
        PROVE  nm'.rv <= obj.rv /\ (nm'.rv = obj.rv => obj.phase # "Completed")
    <3>1. CASE Busy /\ nm'.of = nm.of /\ nm'.rv = nm.rv
      BY <2>2, <3>1 DEF Versions
    <3>2. CASE ~IsOver(Cached) /\ nm'.of = Cached.of /\ nm'.rv = Cached.rv
      <4>1. Cached = watch[1] /\ 1 \in Seen
        BY WatchFacts DEF CopyInv
      <4>2. Cached.phase # "Completed"
        BY <3>2 DEF IsOver
      <4>3. QED  BY <2>2, <3>2, <4>1, <4>2 DEF Versions
    <3>3. QED  BY <2>2, <3>1, <3>2, CopyMoves
  <2>3. QED  BY <1>2, <2>1, <2>2 DEF Versions, Seen
<1>3. CASE Write(NoNM)
  <2>0. 0 <= 0
    OBVIOUS
  <2>1. obj' = NoNM /\ obj'.of = 0 /\ obj'.rv = 0 /\ obj'.phase # "Completed"
    BY <1>3 DEF Write, NoNM
  <2>2. \A i \in Seen' : watch'[i].of = 0 => watch'[i] = NoNM
    BY DEF CopyInv, Ordered, Named
  <2>3. Busy' => nm'.of # 0
    BY DEF CopyInv, LeftBehind, Named, Busy
  <2>4. QED  BY <2>0, <2>1, <2>2, <2>3 DEF Versions, Seen
<1>4. CASE Rewritten
  <2>1. /\ obj'.of = obj.of /\ obj'.rv \in Nat /\ obj'.rv = obj.rv + 1
        /\ obj' \in NMType /\ Write(obj')
    BY <1>4, NewerVersion
  <2>2. \A i \in Seen' : watch'[i] = obj' \/ \E j \in Seen : watch'[i] = watch[j]
    <3>1. PICK new : new = obj'
      OBVIOUS
    <3>2. QED  BY <2>1, <3>1, Appended DEF CopyInv
  <2>3. \A n \in Nat : n <= obj.rv => n <= obj'.rv /\ n # obj'.rv
    BY <1>1, <2>1
  <2>4. \A j \in Seen : watch[j].of = obj.of => watch[j].rv <= obj'.rv /\ watch[j].rv # obj'.rv
    BY <1>1, <2>3 DEF Versions
  <2>5. obj'.rv <= obj'.rv
    BY <2>1
  <2>6. ASSUME NEW i \in Seen', watch'[i].of = obj'.of
        PROVE  /\ watch'[i].rv <= obj'.rv
               /\ watch'[i].rv = obj'.rv => watch'[i].phase = obj'.phase
    <3>1. CASE watch'[i] = obj'
      BY <2>5, <3>1
    <3>2. CASE \E j \in Seen : watch'[i] = watch[j]
      BY <2>1, <2>4, <2>6, <3>2
    <3>3. QED  BY <2>2, <3>1, <3>2
  <2>7. Busy' /\ nm'.of = obj'.of => nm'.rv <= obj'.rv /\ nm'.rv # obj'.rv
    <3>1. ~UNCHANGED store
      <4>1. obj' # obj
        BY <1>1, <2>1
      <4>2. QED  BY <4>1 DEF store
    <3>2. Busy' => Busy /\ nm'.of = nm.of /\ nm'.rv = nm.rv
      BY <3>1, CopyMoves
    <3>3. QED  BY <1>1, <2>1, <2>3, <3>2 DEF Versions
  <2>8. QED  BY <2>6, <2>7 DEF Versions, Seen
<1>5. CASE Created
  <2>1. PICK c \in Command : /\ Create(c) /\ IsNew(c)
                             /\ Write([of |-> c, rv |-> 1, phase |-> ""])
    BY <1>5 DEF Created
  <2> DEFINE new == [of |-> c, rv |-> 1, phase |-> ""]
  <2>0. c \in Nat /\ 1 <= 1
    BY CommandNat
  <2>2. new \in NMType /\ new.of = c /\ new.rv = 1 /\ new.phase = "" /\ obj' = new
    <3>1. 1 \in Nat
      OBVIOUS
    <3>2. QED  BY <2>1, <3>1 DEF NMType, Write
  <2>3. Write(new)
    BY <2>1
  <2> HIDE DEF new
  <2>4. \A i \in Seen' : watch'[i] = new \/ \E j \in Seen : watch'[i] = watch[j]
    BY <2>2, <2>3, Appended DEF CopyInv
  <2>5. \A j \in Seen : watch[j].of # c
    <3>1. \A j \in Seen : watch[j].of < c /\ watch[j].of \in Nat
      BY <2>1, WatchFacts DEF CopyInv, Ordered
    <3>2. QED  BY <2>0, <3>1
  <2>6. nm'.of # c
    <3>1. nm.of < c /\ nm.of \in Nat
      BY <2>1, OfNat DEF CopyInv, Types, LeftBehind, Past
    <3>2. nm' = nm
      BY <2>1 DEF Create, OnlyCommands, scriptVars, action
    <3>3. QED  BY <2>0, <3>1, <3>2
  <2>7. QED  BY <2>0, <2>2, <2>4, <2>5, <2>6 DEF Versions, Seen
<1>6. QED  BY <1>2, <1>3, <1>4, <1>5, ObjMoves

(* A run that is there now, and is not just being created, was there. *)
LEMMA SameRun ==
  ASSUME [Next]_vars, CopyInv, Versions, NEW c \in Command, ~IsNew(c), obj'.of = c
  PROVE  obj.of = c /\ (obj.phase = "Completed" => obj'.phase = "Completed")
<1>1. c # 0
  BY CommandNat
<1>2. CASE obj' = obj
  BY <1>2
<1>3. CASE Write(NoNM)
  BY <1>1, <1>3, NoNMFields DEF Write
<1>4. CASE Rewritten
  <2>1. PICK phase \in {"", "InProgress", "Completed", "Failed"} :
          /\ Write([obj EXCEPT !.rv = @ + 1, !.phase = phase])
          /\ phase = obj.phase \/ (Persisting /\ IsCurrent)
    BY <1>4 DEF Rewritten
  <2>2. obj'.of = obj.of /\ obj'.phase = phase
    BY <2>1 DEF Write, CopyInv, Types, NMType
  <2>3. Persisting /\ IsCurrent => obj.phase # "Completed"
    BY DEF Versions, Persisting, IsCurrent, Busy
  <2>4. QED  BY <2>1, <2>2, <2>3
<1>5. CASE Created
  <2>1. PICK d \in Command : IsNew(d) /\ obj' = [of |-> d, rv |-> 1, phase |-> ""]
    BY <1>5 DEF Created, Write
  <2>2. QED  BY <2>1
<1>6. QED  BY <1>2, <1>3, <1>4, <1>5, ObjMoves

LEMMA DeliveriesMove ==
  ASSUME [Next]_vars, CopyInv, Versions, Texts, Others, Deliveries
  PROVE  Deliveries'
<1>1. pulls' = pulls /\ adopted \subseteq adopted' /\ \A c \in Command : sent[c] \subseteq sent'[c]
  BY HistoryMoves DEF HistoryGrows, CopyInv
<1>2. ASSUME NEW c \in Command, command'[c] = "read", obj'.of = c
      PROVE  obj'.phase = "Completed"
  <2>1. CASE command[c] = "read"
    <3>1. ~IsNew(c)
      BY <2>1 DEF IsNew
    <3>2. QED  BY <1>2, <2>1, <3>1, SameRun DEF Deliveries
  <2>2. CASE SeeCompleted(c)
    BY <2>2 DEF SeeCompleted, store
  <2>3. QED  BY <1>2, <2>1, <2>2, CommandMoves DEF CopyInv
<1>3. ASSUME NEW c \in Command, command'[c] = "summary" PROVE c \notin pulls'
  BY <1>1, <1>3, CommandMoves DEF CopyInv, Deliveries
<1>4. ASSUME NEW c \in pulls, command'[c] \in {"delete", "done"}
      PROVE  /\ \E d \in Command : got'[c] \in sent'[d]
             /\ obj'.of = c /\ c \notin adopted' => got'[c] \in sent'[c]
  <2>1. c \in Command
    BY DEF CopyInv, Types
  <2>2. CASE command[c] \in {"delete", "done"} /\ got'[c] = got[c]
    <3>1. /\ \E d \in Command : got[c] \in sent[d]
          /\ obj.of = c /\ c \notin adopted => got[c] \in sent[c]
      BY <2>2 DEF Deliveries, PullDelivers
    <3>2. obj'.of = c => obj.of = c
      <4>1. ~IsNew(c)
        BY <2>2 DEF IsNew
      <4>2. QED  BY <2>1, <4>1, SameRun
    <3>3. QED  BY <1>1, <2>1, <2>2, <3>1, <3>2
  <2>3. CASE Fetch(c) /\ got'[c] = Fetched
    <3>1. /\ command[c] = "read" /\ obj' = obj /\ adopted' = adopted /\ Extracts(output.data.text)
          /\ Fetched = Payload(output.data.text)
      BY <2>3 DEF Fetch, Read, Fetched, OnlyCommands, scriptVars, store, output
    <3>2. output.data.by \in Command /\ Fetched \in sent[output.data.by]
      BY <3>1 DEF Texts, Fetchable
    <3>3. obj.of = c /\ c \notin adopted => output.data.by = c
      BY <2>1, <3>1 DEF Deliveries, CopyInv, OutputKnown, Secured, Own
    <3>4. QED  BY <1>1, <2>1, <2>3, <3>1, <3>2, <3>3
  <2>4. CASE command[c] = "summary"
    BY <2>1, <2>4 DEF Deliveries
  <2>5. \/ command[c] \in {"delete", "done"} /\ got'[c] = got[c]
        \/ Fetch(c) /\ got'[c] = Fetched
        \/ command[c] = "summary"
    <3>1. Types /\ Others
      BY DEF CopyInv
    <3>2. QED  BY <1>4, <2>1, <3>1, CommandMoves
  <2>6. QED  BY <2>2, <2>3, <2>4, <2>5
<1>5. PullDelivers'
  BY <1>1, <1>4 DEF PullDelivers
<1>6. QED  BY <1>2, <1>3, <1>5 DEF Deliveries

------------------------------------------------------------------------------
LEMMA InitOutput == ASSUME Init PROVE Texts /\ Others /\ Versions /\ Deliveries
<1>1. NoCM.data.text = <<>> /\ NoPod.log = <<>>
  BY DEF NoCM, NoPod
<1>2. /\ output = NoCM /\ pod = NoPod /\ term = NoPod /\ pc = "idle" /\ obj = NoNM
      /\ watch = <<NoNM>> /\ command = [c \in Command |-> "new"]
  BY DEF Init, output
<1>3. Texts
  <2>1. \A by : Fetchable(<<>>, by) /\ Printable(<<>>, by)
    BY PlainTexts DEF Barren, Fetchable, Printable
  <2>2. sent \in [Command -> SUBSET File]
    BY DEF Init
  <2>3. QED  BY <1>1, <1>2, <2>1, <2>2 DEF Texts
<1>4. Others
  <2>1. 0 \in 0..MaxUpsets
    BY CopyFileAssumption
  <2>2. got \in [Command -> Seq(Block) \cup {NoFile}]
    BY DEF Init
  <2>3. QED  BY <2>1, <2>2, EmptyText DEF Init, Others
<1>5. Versions
  <2>1. Len(<<NoNM>>) = 1 /\ <<NoNM>>[1] = NoNM /\ \A i \in 1..1 : i = 1
    OBVIOUS
  <2>2. NoNM.rv <= NoNM.rv
    BY DEF NoNM
  <2>3. QED  BY <1>2, <2>1, <2>2 DEF Versions, Seen, Busy
<1>6. Deliveries
  <2>1. pulls \subseteq Command
    BY ScriptActionAssumption DEF Init
  <2>2. QED  BY <1>2, <2>1 DEF Deliveries, PullDelivers
<1>7. QED  BY <1>3, <1>4, <1>5, <1>6

LEMMA OutputHolds == Spec => [](Texts /\ Others /\ Versions /\ Deliveries)
<1>1. /\ CopyInv /\ CopyInv'
      /\ Texts /\ Others /\ Versions /\ Deliveries /\ [Next]_vars
      => (Texts /\ Others /\ Versions /\ Deliveries)'
  <2> SUFFICES ASSUME CopyInv, CopyInv', Texts, Others, Versions, Deliveries, [Next]_vars
               PROVE  Texts' /\ Others' /\ Versions' /\ Deliveries'
    OBVIOUS
  <2>1. Types /\ PodKnows
    BY DEF CopyInv
  <2>2. Texts'
    BY <2>1, HistoryMoves, LogsMove, OutputMoves DEF Texts
  <2>3. Others'
    BY <2>1, HistoryMoves, UpsetsMove, QueueMoves, WorkerMoves, GotMoves DEF Others, HistoryGrows
  <2>4. QED  BY <2>2, <2>3, VersionsMove, DeliveriesMove
<1>2. QED  BY <1>1, InitOutput, InvHolds, PTL DEF Spec

(* Every variable of CopyFile keeps to its type. *)
THEOREM TypeCorrect == Spec => []TypeOK
<1>1. CopyInv /\ Texts /\ Others => TypeOK
  <2> SUFFICES ASSUME CopyInv, Texts, Others PROVE TypeOK
    OBVIOUS
  <2>1. nm = NoNM <=> pc = "idle"
    BY DEF CopyInv, LeftBehind, Busy
  <2>2. QED  BY <2>1 DEF CopyInv, Types, Texts, Others, TypeOK
<1>2. QED  BY <1>1, InvHolds, OutputHolds, PTL

(* A pull that reports success has written, byte for byte, a file that a     *)
(* script of the name has printed, and its own script's while its run lives  *)
(* (adopted pods apart): the end sentinel survives a cut of the log only     *)
(* with all that is before it, and a completed run stays completed, with the *)
(* output that it secured, until it is deleted.                              *)
THEOREM PullIsDelivered == Spec => []PullDelivers
<1>1. Deliveries => PullDelivers
  BY DEF Deliveries
<1>2. QED  BY <1>1, OutputHolds, PTL
=============================================================================
