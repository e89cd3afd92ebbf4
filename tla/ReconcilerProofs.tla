--------------------------- MODULE ReconcilerProofs ---------------------------
(***************************************************************************)
(* Theorems about the reconciler, for every set of nodes, controllers and  *)
(* specs and every bound.                                                  *)
(***************************************************************************)
EXTENDS ReconcilerProperties, OrchestratorProofs

(* A step of one worker keeps WorkerOK when that worker's own part is kept. *)
LEMMA WorkerStep ==
  ASSUME WorkerOK, NEW c \in Controller,
         NEW q \in BOOLEAN, NEW p \in {"idle", "seed", "step"} \cup Busy,
         NEW o \in NMType \cup {NoNM}, NEW t \in SUBSET Nat,
         NEW s \in {"", "cordoned", "schedulable", "Succeeded", "Failed"},
         queued' = [queued EXCEPT ![c] = q], pc' = [pc EXCEPT ![c] = p],
         nm' = [nm EXCEPT ![c] = o], todo' = [todo EXCEPT ![c] = t],
         seen' = [seen EXCEPT ![c] = s],
         o = NoNM <=> p = "idle",
         t \subseteq (IF o = NoNM THEN {} ELSE DOMAIN o.status.nodes),
         p \in Busy => \E i \in t : (\A j \in t : i <= j) /\ HasNext(o, i)
  PROVE  WorkerOK'
<1>1. /\ queued' \in [Controller -> BOOLEAN]
      /\ pc' \in [Controller -> {"idle", "seed", "step"} \cup Busy]
      /\ nm' \in [Controller -> NMType \cup {NoNM}]
      /\ todo' \in [Controller -> SUBSET Nat]
      /\ seen' \in [Controller -> {"", "cordoned", "schedulable", "Succeeded", "Failed"}]
  BY DEF WorkerOK
<1>2. ASSUME NEW d \in Controller
      PROVE  WorkerConsistent(d)'
  <2>1. CASE d = c
    <3>1. pc'[c] = p /\ nm'[c] = o /\ todo'[c] = t
      BY DEF WorkerOK
    <3>2. QED  BY <2>1, <3>1 DEF WorkerConsistent
  <2>2. CASE d # c
    <3>1. pc'[d] = pc[d] /\ nm'[d] = nm[d] /\ todo'[d] = todo[d]
      BY <2>2 DEF WorkerOK
    <3>2. QED  BY <3>1 DEF WorkerOK, WorkerConsistent
  <2>3. QED  BY <2>1, <2>2
<1>3. QED  BY <1>1, <1>2 DEF WorkerOK

(* Nothing of a worker changes. *)
LEMMA WorkerStutter == ASSUME WorkerOK, UNCHANGED worker PROVE WorkerOK'
BY DEF WorkerOK, WorkerConsistent, worker

(* A write of a well-formed object keeps the store well-formed. *)
LEMMA WriteType ==
  ASSUME StoreOK, NEW new \in NMType, Write(new)
  PROVE  StoreOK'
<1>1. obj' \in NMType
  <2>1. obj.rv + 1 \in Nat
    BY DEF StoreOK, NMType
  <2>2. [new EXCEPT !.rv = obj.rv + 1] \in NMType
    BY <2>1 DEF NMType
  <2>3. QED  BY <2>2 DEF Write
<1>2. ASSUME NEW c \in Controller
      PROVE  Append(watch[c], obj') \in Seq(NMType) \ {<<>>}
  BY <1>1, AppendProperties DEF StoreOK
<1>3. QED  BY <1>1, <1>2 DEF StoreOK, Write

LEMMA StoreStutter == ASSUME StoreOK, UNCHANGED <<obj, watch>> PROVE StoreOK'
BY DEF StoreOK

LEMMA ClusterStutter == ASSUME ClusterOK, UNCHANGED cluster PROVE ClusterOK'
BY DEF ClusterOK, cluster

(* What a worker reads from its cache is well-formed. *)
LEMMA CachedType ==
  ASSUME StoreOK, NEW c \in Controller
  PROVE  Cached(c) \in NMType
BY HeadTailProperties DEF StoreOK, Cached

(* The initial states are well-typed. *)
LEMMA InitType == Init => TypeOK
<1> SUFFICES ASSUME Init PROVE TypeOK
  OBVIOUS
<1>1. Unseeded \in StatusType
  BY DEF Unseeded, StatusType, RunPhase
<1>2. obj \in NMType
  <2>1. PICK s \in InitialSpecs : obj = [rv |-> 1, spec |-> s, status |-> Unseeded]
    BY DEF Init
  <2>2. s \in SpecType
    BY ReconcilerAssumption DEF ReconcilerAssumption
  <2>3. QED  BY <1>1, <2>1, <2>2 DEF NMType
<1>3. <<obj>> \in Seq(NMType) \ {<<>>}
  BY <1>2
<1>4. StoreOK
  BY <1>2, <1>3 DEF Init, StoreOK
<1>5. WorkerOK
  BY DEF Init, WorkerOK, WorkerConsistent, Busy
<1>6. ClusterOK
  <2>1. NoPod \in PodType
    BY DEF NoPod, PodType
  <2>2. 0 \in 0..RunsCap
    BY ReconcilerAssumption DEF ReconcilerAssumption
  <2>3. QED  BY <2>1, <2>2 DEF Init, ClusterOK
<1>7. CountersOK
  <2>1. 0 \in 0..MaxEdits /\ 0 \in 0..MaxFaults
    BY ReconcilerAssumption DEF ReconcilerAssumption
  <2>2. QED  BY <2>1 DEF Init, CountersOK
<1>8. QED  BY <1>4, <1>5, <1>6, <1>7 DEF TypeOK

(* A worker inside a pass holds a well-formed object, and the entry it is *)
(* working on is one of its entries; a busy worker's entry has an action. *)
LEMMA AtType ==
  ASSUME WorkerOK, NEW c \in Controller, NEW p, NEW i, At(c, p, i), p # "idle"
  PROVE  /\ nm[c] \in NMType
         /\ i \in DOMAIN nm[c].status.nodes
         /\ Target(c, i) \in Node
         /\ p \in Busy => HasNext(nm[c], i)
<1>1. nm[c] \in NMType /\ i \in DOMAIN nm[c].status.nodes
  BY DEF WorkerOK, WorkerConsistent, At
<1>2. Target(c, i) \in Node
  <2>1. nm[c].status.nodes[i] \in NodeStatusType
    BY <1>1, EntriesType
  <2>2. QED  BY <2>1 DEF Target, NodeStatusType
<1>3. ASSUME p \in Busy PROVE HasNext(nm[c], i)
  <2>1. PICK k \in todo[c] : (\A j \in todo[c] : k <= j) /\ HasNext(nm[c], k)
    BY <1>3 DEF WorkerOK, WorkerConsistent, At
  <2>2. k \in Nat /\ i \in Nat /\ k <= i /\ i <= k
    BY <2>1 DEF WorkerOK, At
  <2>3. k = i
    BY <2>2
  <2>4. QED  BY <2>1, <2>3
<1>4. QED  BY <1>1, <1>2, <1>3

(* Going on to the next entry keeps the worker consistent. *)
LEMMA LeaveType ==
  ASSUME WorkerOK, NEW c \in Controller, NEW p, NEW i, At(c, p, i), p # "idle",
         NEW o \in NMType, DOMAIN o.status.nodes = DOMAIN nm[c].status.nodes,
         Leave(c, i, o)
  PROVE  WorkerOK'
<1>1. /\ nm[c] # NoNM /\ nm[c] \in NMType
      /\ todo[c] \in SUBSET Nat /\ queued[c] \in BOOLEAN
      /\ todo[c] \subseteq DOMAIN nm[c].status.nodes
  BY AtType, ReconcilerAssumption DEF WorkerOK, WorkerConsistent, ReconcilerAssumption
<1>2. /\ queued' = [queued EXCEPT ![c] = queued[c]]
      /\ pc' = [pc EXCEPT ![c] = "step"]
      /\ nm' = [nm EXCEPT ![c] = o]
      /\ todo' = [todo EXCEPT ![c] = todo[c] \ {i}]
      /\ seen' = [seen EXCEPT ![c] = ""]
  BY DEF Leave, WorkerOK
<1>3. o # NoNM
  BY ReconcilerAssumption DEF ReconcilerAssumption
<1>4. todo[c] \ {i} \in SUBSET Nat /\ todo[c] \ {i} \subseteq DOMAIN o.status.nodes
  BY <1>1
<1>5. "step" \notin Busy
  BY DEF Busy
<1>6. QED  BY <1>1, <1>2, <1>3, <1>4, <1>5, WorkerStep

(* An action that ended, well or badly, keeps the worker consistent. *)
LEMMA SucceedType ==
  ASSUME WorkerOK, NEW c \in Controller, NEW p \in Busy, NEW i, At(c, p, i),
         Succeed(c, i)
  PROVE  WorkerOK'
<1>1. /\ nm[c] \in NMType /\ i \in DOMAIN nm[c].status.nodes /\ HasNext(nm[c], i)
      /\ p # "idle"
  BY AtType DEF Busy
<1>2. /\ Complete(nm[c], i) \in NMType
      /\ DOMAIN Complete(nm[c], i).status.nodes = DOMAIN nm[c].status.nodes
  BY <1>1, AdvanceType
<1>3. QED  BY <1>1, <1>2, LeaveType DEF Succeed

LEMMA FailType ==
  ASSUME WorkerOK, NEW c \in Controller, NEW p, NEW i, At(c, p, i), p # "idle",
         Fail(c, i)
  PROVE  WorkerOK'
<1>1. nm[c] \in NMType /\ i \in DOMAIN nm[c].status.nodes
  BY AtType
<1>2. /\ failNode(nm[c], i) \in NMType
      /\ DOMAIN failNode(nm[c], i).status.nodes = DOMAIN nm[c].status.nodes
  BY <1>1, AdvanceType
<1>3. QED  BY <1>2, LeaveType DEF Fail

(* Going on to the next call of the same action keeps it consistent too. *)
LEMMA ContinueType ==
  ASSUME WorkerOK, NEW c \in Controller, NEW p, NEW i, At(c, p, i), p # "idle",
         NEW q \in Busy, NEW o \in NMType,
         DOMAIN o.status.nodes = DOMAIN nm[c].status.nodes, HasNext(o, i),
         NEW s \in {"", "cordoned", "schedulable", "Succeeded", "Failed"},
         Continue(c, q, o), seen' = [seen EXCEPT ![c] = s]
  PROVE  WorkerOK'
<1>1. /\ nm[c] # NoNM /\ todo[c] \in SUBSET Nat /\ queued[c] \in BOOLEAN
      /\ todo[c] \subseteq DOMAIN nm[c].status.nodes
  BY AtType, ReconcilerAssumption DEF WorkerOK, WorkerConsistent, ReconcilerAssumption
<1>2. /\ queued' = [queued EXCEPT ![c] = queued[c]]
      /\ pc' = [pc EXCEPT ![c] = q]
      /\ nm' = [nm EXCEPT ![c] = o]
      /\ todo' = [todo EXCEPT ![c] = todo[c]]
  BY DEF Continue, WorkerOK
<1>3. o # NoNM
  BY ReconcilerAssumption DEF ReconcilerAssumption
<1>4. i \in todo[c] /\ \A j \in todo[c] : i <= j
  BY DEF At
<1>5. q # "idle" /\ q \in {"idle", "seed", "step"} \cup Busy
  BY DEF Busy
<1>6. QED  BY <1>1, <1>2, <1>3, <1>4, <1>5, WorkerStep

(* So does the end of a pass, by whatever road. *)
LEMMA IdleType ==
  ASSUME WorkerOK, NEW c \in Controller, NEW q \in BOOLEAN,
         queued' = [queued EXCEPT ![c] = q],
         pc' = [pc EXCEPT ![c] = "idle"], nm' = [nm EXCEPT ![c] = NoNM],
         todo' = [todo EXCEPT ![c] = {}], seen' = [seen EXCEPT ![c] = ""]
  PROVE  WorkerOK'
<1>1. "idle" \notin Busy
  BY DEF Busy
<1>2. QED  BY <1>1, WorkerStep

LEMMA EndPassType ==
  ASSUME WorkerOK, NEW c \in Controller, NEW b \in BOOLEAN, EndPass(c, b)
  PROVE  WorkerOK'
<1>1. queued[c] \/ b \in BOOLEAN
  BY DEF WorkerOK
<1>2. queued' = [queued EXCEPT ![c] = queued[c] \/ b]
  BY DEF EndPass
<1>3. QED  BY <1>1, <1>2, IdleType DEF EndPass

(* Starting a pass: the worker takes the key and holds a copy of its own. *)
LEMMA PickType ==
  ASSUME WorkerOK, NEW c \in Controller, NEW p \in {"seed", "step"},
         NEW o \in NMType, NEW t \in SUBSET (DOMAIN o.status.nodes),
         queued' = [queued EXCEPT ![c] = FALSE],
         pc' = [pc EXCEPT ![c] = p], nm' = [nm EXCEPT ![c] = o],
         todo' = [todo EXCEPT ![c] = t], UNCHANGED seen
  PROVE  WorkerOK'
<1>1. t \in SUBSET Nat
  BY EntriesType
<1>2. seen' = [seen EXCEPT ![c] = seen[c]]
      /\ seen[c] \in {"", "cordoned", "schedulable", "Succeeded", "Failed"}
  BY DEF WorkerOK
<1>3. o # NoNM /\ p # "idle" /\ p \notin Busy
  BY ReconcilerAssumption DEF ReconcilerAssumption, Busy
<1>4. QED  BY <1>1, <1>2, <1>3, WorkerStep

(* What a worker writes back is well-formed. *)
LEMMA WrittenType ==
  ASSUME StoreOK, WorkerOK, NEW c \in Controller, Persisting(c)
  PROVE  /\ nm[c] \in NMType
         /\ Written(c) \in NMType
         /\ [obj EXCEPT !.status = Written(c).status] \in NMType
<1>1. nm[c] \in NMType
  BY DEF WorkerOK, WorkerConsistent, Persisting
<1>2. Written(c) \in NMType
  BY <1>1, RollupType DEF Written
<1>3. QED  BY <1>1, <1>2 DEF NMType, StoreOK

(* Every step of the reconcile loop outside advanceNode keeps the types. *)
LEMMA PassType ==
  ASSUME TypeOK, NEW c \in Controller,
         \/ ReturnIfTerminal(c) \/ SeedStatus(c) \/ HoldPaused(c) \/ BeginStep(c)
         \/ UpdateStatus(c) \/ UpdateConflicts(c) \/ UpdateFails(c) \/ Crash(c)
         \/ Deliver(c)
  PROVE  TypeOK'
<1> USE DEF TypeOK
<1>1. Cached(c) \in NMType
  BY CachedType
<1>2. nm[c] \in NMType \cup {NoNM} /\ todo[c] \in SUBSET Nat
  BY DEF WorkerOK
<1>3. CASE ReturnIfTerminal(c)
  <2>1. WorkerOK'
    BY <1>3 DEF ReturnIfTerminal, WorkerOK, WorkerConsistent
  <2>2. QED  BY <1>3, <2>1, StoreStutter, ClusterStutter
             DEF ReturnIfTerminal, counters, CountersOK
<1>4. CASE SeedStatus(c)
  <2>1. PICK names \in TargetLists :
          nm' = [nm EXCEPT ![c] = [Cached(c) EXCEPT !.status = Seed(names)]]
    BY <1>4 DEF SeedStatus
  <2>2. [Cached(c) EXCEPT !.status = Seed(names)] \in NMType
    BY <1>1, SeedType, ReconcilerAssumption DEF NMType, ReconcilerAssumption
  <2>3. nm[c] = NoNM
    BY <1>4 DEF SeedStatus, Picked, WorkerOK, WorkerConsistent
  <2>4. todo[c] = {}
    BY <2>3 DEF WorkerOK, WorkerConsistent
  <2>5. todo' = [todo EXCEPT ![c] = {}]
    BY <1>4, <2>4 DEF SeedStatus, WorkerOK
  <2>6. WorkerOK'
    <3> DEFINE o == [Cached(c) EXCEPT !.status = Seed(names)]
    <3>1. {} \in SUBSET (DOMAIN o.status.nodes)
      OBVIOUS
    <3>2. /\ o \in NMType /\ nm' = [nm EXCEPT ![c] = o]
          /\ queued' = [queued EXCEPT ![c] = FALSE]
          /\ pc' = [pc EXCEPT ![c] = "seed"] /\ UNCHANGED seen
      BY <1>4, <2>1, <2>2 DEF SeedStatus
    <3> HIDE DEF o
    <3>3. QED  BY <2>5, <3>1, <3>2, PickType
  <2>7. QED  BY <1>4, <2>6, StoreStutter, ClusterStutter DEF SeedStatus, counters, CountersOK
<1>5. CASE HoldPaused(c)
  <2>1. cm' \in Body \cup {NoScript}
    BY <1>1, <1>5 DEF HoldPaused, Render, NMType, SpecType, ClusterOK
  <2>2. ClusterOK'
    BY <1>5, <2>1 DEF HoldPaused, ClusterOK
  <2>3. QED  BY <1>5, <2>2, StoreStutter, WorkerStutter DEF HoldPaused, counters, CountersOK
<1>6. CASE BeginStep(c)
  <2>1. PICK P : /\ nm' = [nm EXCEPT ![c] = Promote(Cached(c), P)]
                 /\ todo' = [todo EXCEPT ![c] = InPhase(nm'[c].status, "InProgress")]
    BY <1>6 DEF BeginStep
  <2>2. Promote(Cached(c), P) \in NMType
    BY <1>1, PromoteType
  <2>3. nm'[c] = Promote(Cached(c), P)
    BY <2>1 DEF WorkerOK
  <2>4. InPhase(nm'[c].status, "InProgress") \in SUBSET (DOMAIN nm'[c].status.nodes)
    BY <2>2, <2>3, EntriesType DEF InPhase
  <2>5. WorkerOK'
    <3> DEFINE o == Promote(Cached(c), P)
               t == InPhase(nm'[c].status, "InProgress")
    <3>1. /\ queued' = [queued EXCEPT ![c] = FALSE]
          /\ pc' = [pc EXCEPT ![c] = "step"] /\ UNCHANGED seen
          /\ nm' = [nm EXCEPT ![c] = o] /\ todo' = [todo EXCEPT ![c] = t]
      BY <1>6, <2>1 DEF BeginStep
    <3>2. o \in NMType /\ t \in SUBSET (DOMAIN o.status.nodes)
      BY <2>2, <2>3, <2>4
    <3> HIDE DEF o, t
    <3>3. QED  BY <3>1, <3>2, PickType
  <2>6. cm' \in Body \cup {NoScript}
    BY <1>1, <1>6 DEF BeginStep, Render, NMType, SpecType, ClusterOK
  <2>7. ClusterOK'
    BY <1>6, <2>6 DEF BeginStep, ClusterOK
  <2>8. QED  BY <1>6, <2>5, <2>7, StoreStutter DEF BeginStep, counters, CountersOK
<1>7. CASE UpdateStatus(c)
  <2>1. StoreOK'
    BY <1>7, WrittenType, WriteType DEF UpdateStatus
  <2>2. PICK late \in BOOLEAN :
          EndPass(c, late \/ pc[c] = "seed" \/ ~IsTerminal(Written(c)))
    BY <1>7 DEF UpdateStatus
  <2>3. WorkerOK'
    BY <2>2, EndPassType
  <2>4. QED  BY <1>7, <2>1, <2>3, ClusterStutter DEF UpdateStatus, counters, CountersOK
<1>8. CASE UpdateConflicts(c)
  <2>1. WorkerOK'
    BY <1>8, EndPassType DEF UpdateConflicts
  <2>2. QED  BY <1>8, <2>1, StoreStutter, ClusterStutter
             DEF UpdateConflicts, counters, CountersOK
<1>9. CASE UpdateFails(c)
  <2>1. StoreOK'
    BY <1>9, StoreStutter, WrittenType, WriteType DEF UpdateFails
  <2>2. WorkerOK'
    BY <1>9, EndPassType DEF UpdateFails
  <2>3. CountersOK'
    BY <1>9, ReconcilerAssumption DEF UpdateFails, CountersOK, ReconcilerAssumption
  <2>4. QED  BY <1>9, <2>1, <2>2, <2>3, ClusterStutter DEF UpdateFails
<1>10. CASE Crash(c)
  <2>1. StoreOK'
    <3>1. <<obj>> \in Seq(NMType) \ {<<>>}
      BY DEF StoreOK
    <3>2. QED  BY <1>10, <3>1 DEF Crash, StoreOK
  <2>2. WorkerOK'
    BY <1>10, IdleType DEF Crash
  <2>3. CountersOK'
    <3>1. MaxFaults \in Nat /\ faults < MaxFaults /\ faults' = faults + 1 /\ UNCHANGED edits
      BY <1>10, ReconcilerAssumption DEF Crash, ReconcilerAssumption
    <3>2. QED  BY <3>1 DEF CountersOK
  <2>4. QED  BY <1>10, <2>1, <2>2, <2>3, ClusterStutter DEF Crash
<1>11. CASE Deliver(c)
  <2>1. StoreOK'
    <3>1. Tail(watch[c]) \in Seq(NMType) /\ Tail(watch[c]) # <<>>
      <4>1. watch[c] \in Seq(NMType) /\ Len(watch[c]) > 1 /\ watch[c] # <<>>
        BY <1>11 DEF Deliver, StoreOK
      <4>2. Tail(watch[c]) \in Seq(NMType) /\ Len(Tail(watch[c])) = Len(watch[c]) - 1
        BY <4>1, HeadTailProperties
      <4>3. Len(watch[c]) \in Nat /\ Len(<<>>) = 0
        BY <4>1, LenProperties
      <4>4. Len(Tail(watch[c])) # 0
        <5> DEFINE k == Len(watch[c])
        <5>1. k \in Nat /\ k > 1
          BY <4>1, <4>3
        <5> HIDE DEF k
        <5>2. k - 1 # 0
          BY <5>1
        <5>3. QED  BY <4>2, <5>2 DEF k
      <4>5. QED  BY <4>2, <4>3, <4>4
    <3>2. QED  BY <1>11, <3>1 DEF Deliver, StoreOK
  <2>2. WorkerOK'
    BY <1>11 DEF Deliver, WorkerOK, WorkerConsistent
  <2>3. QED  BY <1>11, <2>1, <2>2, ClusterStutter DEF Deliver, counters, CountersOK
<1>12. QED  BY <1>3, <1>4, <1>5, <1>6, <1>7, <1>8, <1>9, <1>10, <1>11

(* Every step of advanceNode and of the Script action keeps the types. *)
LEMMA AdvanceStepType ==
  ASSUME TypeOK, NEW c \in Controller, NEW i \in todo[c], Advance(c, i)
  PROVE  TypeOK'
<1> USE DEF TypeOK
<1> DEFINE P == {"step", "execute", "pod", "wait", "gc"}
<1>1. ASSUME NEW p \in P, At(c, p, i)
      PROVE  /\ p # "idle" /\ nm[c] \in NMType /\ i \in DOMAIN nm[c].status.nodes
             /\ Target(c, i) \in Node
             /\ p \in Busy => HasNext(nm[c], i)
  BY <1>1, AtType
<1>2. {"execute", "pod", "wait", "gc"} = Busy
  BY DEF Busy
<1>3. ASSUME NEW p \in P, At(c, p, i), Fail(c, i)
      PROVE  WorkerOK'
  BY <1>1, <1>3, FailType
<1>4. ASSUME NEW p \in Busy, At(c, p, i), Succeed(c, i)
      PROVE  WorkerOK'
  BY <1>4, SucceedType
<1>5. ASSUME NEW p \in Busy, NEW q \in Busy, At(c, p, i), Continue(c, q, nm[c]),
             NEW s \in {"", "cordoned", "schedulable", "Succeeded", "Failed"},
             seen' = [seen EXCEPT ![c] = s]
      PROVE  WorkerOK'
  BY <1>1, <1>2, <1>5, ContinueType
<1>6. seen' = [seen EXCEPT ![c] = seen[c]] \/ seen' # seen
  BY DEF WorkerOK
<1>7. seen[c] \in {"", "cordoned", "schedulable", "Succeeded", "Failed"}
  BY DEF WorkerOK
<1>8. CASE NothingLeft(c, i)
  <2>1. At(c, "step", i) /\ Leave(c, i, Finish(nm[c], i))
    BY <1>8 DEF NothingLeft
  <2>2. nm[c] \in NMType /\ i \in DOMAIN nm[c].status.nodes
    BY <1>1, <2>1
  <2>3. /\ Finish(nm[c], i) \in NMType
        /\ DOMAIN Finish(nm[c], i).status.nodes = DOMAIN nm[c].status.nodes
    BY <2>2, AdvanceType
  <2>4. WorkerOK'
    BY <2>1, <2>3, LeaveType
  <2>5. QED  BY <1>8, <2>4, StoreStutter, ClusterStutter DEF NothingLeft, counters, CountersOK
<1>9. CASE GetNode(c, i)
  <2>1. At(c, "step", i) /\ HasNext(nm[c], i)
    BY <1>9 DEF GetNode
  <2>2. nm[c] \in NMType /\ i \in DOMAIN nm[c].status.nodes
    BY <1>1, <2>1
  <2>3. /\ Start(nm[c], i) \in NMType
        /\ DOMAIN Start(nm[c], i).status.nodes = DOMAIN nm[c].status.nodes
        /\ HasNext(Start(nm[c], i), i)
    BY <2>1, <2>2, AdvanceType, StartKeepsNext
  <2>4. \E s \in {"", "cordoned", "schedulable", "Succeeded", "Failed"} :
          seen' = [seen EXCEPT ![c] = s]
    BY <1>9 DEF GetNode
  <2>5. Continue(c, "execute", Start(nm[c], i))
    BY <1>9 DEF GetNode
  <2>6. WorkerOK'
    BY <1>2, <2>1, <2>3, <2>4, <2>5, ContinueType
  <2>7. QED  BY <1>9, <2>6, StoreStutter, ClusterStutter DEF GetNode, counters, CountersOK
<1>10. CASE GetNodeFails(c, i)
  <2>1. WorkerOK'
    BY <1>3, <1>10 DEF GetNodeFails
  <2>2. QED  BY <1>10, <2>1, StoreStutter, ClusterStutter DEF GetNodeFails, counters, CountersOK
<1>11. CASE Cordon(c, i) \/ Uncordon(c, i)
  <2>1. At(c, "execute", i) /\ Succeed(c, i)
    BY <1>11 DEF Cordon, Uncordon, Executing
  <2>2. WorkerOK'
    BY <1>2, <1>4, <2>1
  <2>3. ClusterOK'
    BY <1>1, <1>11, <2>1 DEF Cordon, Uncordon, ClusterOK
  <2>4. QED  BY <1>11, <2>2, <2>3, StoreStutter DEF Cordon, Uncordon, counters, CountersOK
<1>12. CASE Drain(c, i)
  <2>1. WorkerOK'
    BY <1>2, <1>4, <1>12 DEF Drain, Executing
  <2>2. QED  BY <1>12, <2>1, StoreStutter, ClusterStutter DEF Drain, counters, CountersOK
<1>13. CASE ExecuteFails(c, i)
  <2>1. At(c, "execute", i) /\ Fail(c, i)
    BY <1>13 DEF ExecuteFails, Executing
  <2>2. WorkerOK'
    BY <1>3, <2>1
  <2>3. ClusterOK'
    BY <1>1, <1>13, <2>1 DEF ExecuteFails, ClusterOK
  <2>4. QED  BY <1>13, <2>2, <2>3, StoreStutter DEF ExecuteFails, counters, CountersOK
<1>14. CASE RequireScript(c, i)
  <2>1. WorkerOK'
    BY <1>3, <1>14 DEF RequireScript, Executing
  <2>2. QED  BY <1>14, <2>1, StoreStutter, ClusterStutter DEF RequireScript, counters, CountersOK
<1>15. CASE PrepareScript(c, i) \/ PrepareScriptFails(c, i)
  <2>1. At(c, "execute", i)
    BY <1>15 DEF PrepareScript, PrepareScriptFails, Executing
  <2>2. nm[c].spec.script \in Body \cup {NoScript}
    BY <1>1, <2>1 DEF NMType, SpecType
  <2>3. WorkerOK'
    <3>1. CASE PrepareScript(c, i)
      <4>1. Continue(c, "pod", nm[c]) /\ seen' = [seen EXCEPT ![c] = seen[c]]
        BY <1>6, <3>1 DEF PrepareScript
      <4>2. QED  BY <1>2, <1>5, <1>7, <2>1, <4>1
    <3>2. CASE PrepareScriptFails(c, i)
      BY <1>3, <2>1, <3>2 DEF PrepareScriptFails
    <3>3. QED  BY <1>15, <3>1, <3>2
  <2>4. ClusterOK'
    BY <1>15, <2>2 DEF PrepareScript, PrepareScriptFails, ClusterOK
  <2>5. QED  BY <1>15, <2>3, <2>4, StoreStutter
             DEF PrepareScript, PrepareScriptFails, counters, CountersOK
<1>16. CASE EnsurePod(c, i) \/ EnsurePodFails(c, i)
  <2>1. At(c, "pod", i)
    BY <1>16 DEF EnsurePod, EnsurePodFails
  <2>2. WorkerOK'
    <3>1. CASE EnsurePod(c, i)
      <4>1. Continue(c, "wait", nm[c]) /\ seen' = [seen EXCEPT ![c] = seen[c]]
        BY <1>6, <3>1 DEF EnsurePod
      <4>2. QED  BY <1>2, <1>5, <1>7, <2>1, <4>1
    <3>2. CASE EnsurePodFails(c, i)
      BY <1>3, <2>1, <3>2 DEF EnsurePodFails
    <3>3. QED  BY <1>16, <3>1, <3>2
  <2>3. ClusterOK'
    <3>1. Created \in PodType
      BY DEF Created, PodType
    <3>2. QED  BY <1>1, <1>16, <2>1, <3>1 DEF EnsurePod, EnsurePodFails, ClusterOK
  <2>4. QED  BY <1>16, <2>2, <2>3, StoreStutter DEF EnsurePod, EnsurePodFails, counters, CountersOK
<1>17. CASE WaitForPod(c, i)
  <2>1. /\ At(c, "wait", i) /\ Continue(c, "gc", nm[c])
        /\ \E s \in {"", "cordoned", "schedulable", "Succeeded", "Failed"} :
             seen' = [seen EXCEPT ![c] = s]
    BY <1>17 DEF WaitForPod
  <2>2. WorkerOK'
    BY <1>2, <1>5, <2>1
  <2>3. QED  BY <1>17, <2>2, StoreStutter, ClusterStutter DEF WaitForPod, counters, CountersOK
<1>18. CASE WaitForPodFails(c, i)
  <2>1. WorkerOK'
    BY <1>3, <1>18 DEF WaitForPodFails
  <2>2. QED  BY <1>18, <2>1, StoreStutter, ClusterStutter DEF WaitForPodFails, counters, CountersOK
<1>19. CASE GcPod(c, i)
  <2>1. At(c, "gc", i) /\ (Succeed(c, i) \/ Fail(c, i))
    BY <1>19 DEF GcPod
  <2>2. WorkerOK'
    BY <1>2, <1>3, <1>4, <2>1
  <2>3. ClusterOK'
    <3>1. NoPod \in PodType
      BY DEF NoPod, PodType
    <3>2. QED  BY <1>1, <1>19, <2>1, <3>1 DEF GcPod, ClusterOK
  <2>4. QED  BY <1>19, <2>2, <2>3, StoreStutter DEF GcPod, counters, CountersOK
<1>20. QED  BY <1>8, <1>9, <1>10, <1>11, <1>12, <1>13, <1>14, <1>15, <1>16, <1>17,
               <1>18, <1>19 DEF Advance

(* Pods and people keep the types. *)
LEMMA OutsideType ==
  ASSUME TypeOK, Kubelet \/ People
  PROVE  TypeOK'
<1> USE DEF TypeOK
<1>1. ASSUME NEW n \in Node, StartPod(n) \/ FinishPod(n)
      PROVE  TypeOK'
  <2>1. cm \in Body \cup {NoScript} /\ runs[n] \in 0..RunsCap /\ RunsCap \in Nat
    BY ReconcilerAssumption DEF ClusterOK, ReconcilerAssumption
  <2>2. pod[n] \in PodType
    BY DEF ClusterOK
  <2>3. ClusterOK'
    <3>1. CASE StartPod(n)
      <4>1. [phase |-> "Running", body |-> cm] \in PodType
        BY <2>1 DEF PodType
      <4>2. (IF runs[n] < RunsCap THEN runs[n] + 1 ELSE runs[n]) \in 0..RunsCap
        BY <2>1
      <4>3. pod' \in [Node -> PodType]
        BY <3>1, <4>1 DEF StartPod, ClusterOK
      <4>4. runs' \in [Node -> 0..RunsCap]
        BY <3>1, <4>2 DEF StartPod, ClusterOK
      <4>5. QED  BY <3>1, <4>3, <4>4 DEF StartPod, ClusterOK
    <3>2. CASE FinishPod(n)
      <4>1. [pod[n] EXCEPT !.phase = "Succeeded"] \in PodType
        BY <2>2 DEF PodType
      <4>2. [pod[n] EXCEPT !.phase = "Failed"] \in PodType
        BY <2>2 DEF PodType
      <4>3. pod' \in [Node -> PodType]
        BY <3>2, <4>1, <4>2 DEF FinishPod, ClusterOK
      <4>4. QED  BY <3>2, <4>3 DEF FinishPod, ClusterOK
    <3>3. QED  BY <1>1, <3>1, <3>2
  <2>4. QED  BY <1>1, <2>3, StoreStutter, WorkerStutter
             DEF StartPod, FinishPod, counters, CountersOK
<1>2. ASSUME NEW kind, Edit(kind)
      PROVE  WorkerOK' /\ CountersOK'
  <2>1. MaxEdits \in Nat /\ edits < MaxEdits /\ edits' = edits + 1 /\ UNCHANGED faults
    BY <1>2, ReconcilerAssumption DEF Edit, ReconcilerAssumption
  <2>2. CountersOK'
    BY <2>1 DEF CountersOK
  <2>3. QED  BY <1>2, <2>2, WorkerStutter DEF Edit
<1>3. ASSUME NEW kind, NEW spec \in SpecType, EditSpec(kind, spec)
      PROVE  TypeOK'
  <2>1. [obj EXCEPT !.spec = spec] \in NMType
    BY DEF StoreOK, NMType
  <2>2. StoreOK'
    BY <1>3, <2>1, WriteType DEF EditSpec
  <2>3. QED  BY <1>2, <1>3, <2>2, ClusterStutter DEF EditSpec
<1>4. obj.spec \in SpecType
  BY DEF StoreOK, NMType
<1>5. ASSUME NEW n \in Node, OperatorCordon(n) \/ OperatorUncordon(n) \/ DeletePod(n)
      PROVE  TypeOK'
  <2>1. WorkerOK' /\ CountersOK'
    BY <1>2, <1>5 DEF OperatorCordon, OperatorUncordon, EditNode, DeletePod
  <2>2. NoPod \in PodType
    BY DEF NoPod, PodType
  <2>3. ClusterOK'
    BY <1>5, <2>2 DEF OperatorCordon, OperatorUncordon, EditNode, DeletePod, ClusterOK
  <2>4. QED  BY <1>5, <2>1, <2>3, StoreStutter
             DEF OperatorCordon, OperatorUncordon, EditNode, DeletePod
<1>6. CASE Pause \/ Run
  <2>1. /\ [obj.spec EXCEPT !.paused = TRUE] \in SpecType
        /\ [obj.spec EXCEPT !.paused = FALSE] \in SpecType
    BY <1>4 DEF SpecType
  <2>2. QED  BY <1>3, <1>6, <2>1 DEF Pause, Run
<1>7. ASSUME NEW b \in Body, Attach(b)
      PROVE  TypeOK'
  <2>1. [obj.spec EXCEPT !.script = b] \in SpecType
    BY <1>4 DEF SpecType
  <2>2. QED  BY <1>3, <1>7, <2>1 DEF Attach
<1>8. ASSUME NEW s \in ApplySpecs, Apply(s)
      PROVE  TypeOK'
  BY <1>3, <1>8, ReconcilerAssumption DEF Apply, ReconcilerAssumption
<1>9. QED  BY <1>1, <1>5, <1>6, <1>7, <1>8 DEF Kubelet, People

(* Every step. *)
LEMMA TypeStep ==
  ASSUME TypeOK, [Next]_vars
  PROVE  TypeOK'
<1>1. CASE UNCHANGED vars
  <2>1. UNCHANGED <<obj, watch>> /\ UNCHANGED worker /\ UNCHANGED cluster /\ UNCHANGED counters
    BY <1>1 DEF vars
  <2>2. CountersOK'
    BY <2>1 DEF TypeOK, CountersOK, counters
  <2>3. QED  BY <2>1, <2>2, StoreStutter, WorkerStutter, ClusterStutter DEF TypeOK
<1>2. ASSUME NEW c \in Controller, Reconcile(c) \/ Deliver(c) PROVE TypeOK'
  BY <1>2, PassType, AdvanceStepType DEF Reconcile
<1>3. CASE Fault
  BY <1>3, PassType DEF Fault
<1>4. CASE Kubelet \/ People
  BY <1>4, OutsideType
<1>5. QED  BY <1>1, <1>2, <1>3, <1>4 DEF Next

(* TypeOK is an invariant, for any nodes, controllers, specs and bounds: a   *)
(* worker that is executing an action always has, as the first of the        *)
(* entries it has still to advance, one whose plan has that action left, so  *)
(* that no index of advanceNode leaves its plan or its list of targets.      *)
THEOREM TypeCorrect == Spec => []TypeOK
<1>1. TypeOK /\ [Next]_vars => TypeOK'
  BY TypeStep
<1>2. QED  BY <1>1, InitType, PTL DEF Spec
------------------------------------------------------------------------------
(* The record of a run never claims a script that did not succeed.         *)

(* Every Script an object records is backed by a node in S. *)
EntryBacked(e, S) == (\E k \in DOMAIN e.completed : e.completed[k] = "Script") => e.name \in S
Backed(o, S) == \A i \in DOMAIN o.status.nodes : EntryBacked(o.status.nodes[i], S)

(* The invariant that carries RecordedScriptRan.  The claim travels: from    *)
(* the pod that is read to the worker about to collect it, to the worker's   *)
(* copy, to the stored object, and back through the watch into later copies. *)
StoreBacked ==
  /\ Backed(obj, succeeded)
  /\ \A c \in Controller : \A k \in DOMAIN watch[c] : Backed(watch[c][k], succeeded)

WorkerBacked(c) ==
  /\ nm[c] # NoNM => Backed(nm[c], succeeded)
  /\ \A i \in todo[c] : At(c, "gc", i) /\ seen[c] = "Succeeded" => Target(c, i) \in succeeded

PodsBacked == \A n \in Node : pod[n].phase = "Succeeded" => n \in succeeded

RecordsBacked ==
  /\ StoreBacked
  /\ \A c \in Controller : WorkerBacked(c)
  /\ PodsBacked

------------------------------------------------------------------------------
(* What the steps in memory do to an object's backing.                     *)

(* More successes never take a backing away. *)
LEMMA BackedGrows ==
  ASSUME NEW o, NEW S, NEW T, S \subseteq T, Backed(o, S)
  PROVE  Backed(o, T)
BY DEF Backed, EntryBacked

(* Backing is a matter of the entries alone. *)
LEMMA BackedByEntries ==
  ASSUME NEW o, NEW p, NEW S, p.status.nodes = o.status.nodes, Backed(o, S)
  PROVE  Backed(p, S)
BY DEF Backed

(* It is kept by an update whose new entry is backed. *)
LEMMA BackedUpdate ==
  ASSUME NEW o \in NMType, NEW i \in DOMAIN o.status.nodes, NEW e \in NodeStatusType,
         NEW S, Backed(o, S), EntryBacked(e, S)
  PROVE  Backed(Update(o, i, e), S)
<1> DEFINE u == Update(o, i, e)
<1>1. /\ DOMAIN u.status.nodes = DOMAIN o.status.nodes
      /\ \A j \in DOMAIN o.status.nodes :
           u.status.nodes[j] = IF j = i THEN e ELSE o.status.nodes[j]
  BY UpdateType
<1> HIDE DEF u
<1>2. Backed(u, S)
  BY <1>1 DEF Backed
<1>3. QED  BY <1>2 DEF u

(* Only Complete adds to a record, and it adds a Script only where S has the *)
(* node.                                                                     *)
LEMMA BackedAdvance ==
  ASSUME NEW o \in NMType, NEW i \in DOMAIN o.status.nodes, NEW S, Backed(o, S),
         NEW o2, \/ o2 \in {Finish(o, i), failNode(o, i)}
                 \/ HasNext(o, i) /\ o2 = Start(o, i)
                 \/ /\ HasNext(o, i) /\ o2 = Complete(o, i)
                    /\ NextAction(o, i) = "Script" => o.status.nodes[i].name \in S
  PROVE  Backed(o2, S)
<1> DEFINE e == o.status.nodes[i]
<1>1. e \in NodeStatusType /\ EntryBacked(e, S)
  BY EntriesType DEF Backed
<1>2. \A d \in NodeStatusType :
        EntryBacked(d, S) => Completed(d) \in NodeStatusType /\ EntryBacked(Completed(d), S)
  BY DEF Completed, NodeStatusType, Phase, EntryBacked
<1>3. LET d == [e EXCEPT !.phase = "Failed"] IN d \in NodeStatusType /\ EntryBacked(d, S)
  BY <1>1 DEF NodeStatusType, Phase, EntryBacked
<1>4. ASSUME HasNext(o, i)
      PROVE  LET d == [e EXCEPT !.currentAction = NextAction(o, i)]
             IN d \in NodeStatusType /\ EntryBacked(d, S)
  BY <1>1, <1>4, PlanType DEF NodeStatusType, EntryBacked
<1>5. ASSUME HasNext(o, i), NextAction(o, i) = "Script" => e.name \in S
      PROVE  Recorded(o, i) \in NodeStatusType /\ EntryBacked(Recorded(o, i), S)
  <2> DEFINE s == e.completed
             a == NextAction(o, i)
             t == Append(s, a)
  <2>1. s \in Seq(ActionType) /\ a \in ActionType
    BY <1>1, <1>5, PlanType DEF NodeStatusType
  <2>2. /\ t \in Seq(ActionType)
        /\ Len(t) = Len(s) + 1
        /\ \A k \in 1..Len(s) : t[k] = s[k]
        /\ t[Len(s) + 1] = a
    BY <2>1, AppendProperties
  <2>3. DOMAIN s = 1..Len(s) /\ DOMAIN t = 1..(Len(s) + 1) /\ Len(s) \in Nat
    BY <2>1, <2>2, LenProperties
  <2>4. Recorded(o, i) = [e EXCEPT !.completed = t]
    BY DEF Recorded
  <2> HIDE DEF t
  <2>5. /\ Recorded(o, i) \in NodeStatusType
        /\ Recorded(o, i).completed = t /\ Recorded(o, i).name = e.name
    BY <1>1, <2>2, <2>4 DEF NodeStatusType
  <2>6. ASSUME NEW k \in DOMAIN t, t[k] = "Script" PROVE e.name \in S
    <3>1. CASE k = Len(s) + 1
      BY <1>5, <2>2, <2>6, <3>1
    <3>2. CASE k # Len(s) + 1
      <4>1. k \in 1..Len(s)
        BY <2>3, <3>2
      <4>2. QED  BY <1>1, <2>2, <2>3, <2>6, <4>1 DEF EntryBacked
    <3>3. QED  BY <3>1, <3>2
  <2>7. QED  BY <2>5, <2>6 DEF EntryBacked
<1>6. \E d \in NodeStatusType : EntryBacked(d, S) /\ o2 = Update(o, i, d)
  <2>1. CASE o2 = Finish(o, i)
    BY <1>1, <1>2, <2>1 DEF Finish
  <2>2. CASE o2 = failNode(o, i)
    BY <1>3, <2>2 DEF failNode
  <2>3. CASE HasNext(o, i) /\ o2 = Start(o, i)
    BY <1>4, <2>3 DEF Start
  <2>4. CASE /\ HasNext(o, i) /\ o2 = Complete(o, i)
             /\ NextAction(o, i) = "Script" => e.name \in S
    BY <1>2, <1>5, <2>4 DEF Complete
  <2>5. QED  BY <2>1, <2>2, <2>3, <2>4
<1>7. QED  BY <1>6, BackedUpdate

(* admit leaves the records as they are, and seeding starts them empty. *)
LEMMA BackedPromote ==
  ASSUME NEW o \in NMType, NEW P, NEW S, Backed(o, S)
  PROVE  Backed(Promote(o, P), S)
<1> DEFINE s == o.status.nodes
           p(i) == [s[i] EXCEPT !.phase = IF i \in P THEN "InProgress" ELSE @]
           t == [i \in 1..Len(s) |-> p(i)]
<1>1. DOMAIN s = 1..Len(s) /\ \A i \in 1..Len(s) : s[i] \in NodeStatusType
  BY EntriesType
<1>2. \A i \in 1..Len(s) : p(i).name = s[i].name /\ p(i).completed = s[i].completed
  BY <1>1 DEF NodeStatusType
<1> HIDE DEF p
<1>3. Promote(o, P).status.nodes = t
  BY DEF Promote, NMType, StatusType, p
<1>4. \A i \in 1..Len(s) : t[i].name = s[i].name /\ t[i].completed = s[i].completed
  BY <1>2
<1>5. DOMAIN t = 1..Len(s)
  OBVIOUS
<1> HIDE DEF t
<1>6. QED  BY <1>1, <1>3, <1>4, <1>5 DEF Backed, EntryBacked

LEMMA BackedSeed ==
  ASSUME NEW o \in NMType, NEW names, NEW S
  PROVE  Backed([o EXCEPT !.status = Seed(names)], S)
<1> DEFINE t == [i \in 1..Len(names) |->
                  [name |-> names[i], phase |-> "Pending",
                   currentAction |-> "", completed |-> <<>>]]
           u == [o EXCEPT !.status = Seed(names)]
<1>1. u.status.nodes = t
  BY DEF NMType, Seed
<1>2. \A i \in DOMAIN t : t[i].completed = <<>>
  OBVIOUS
<1>3. DOMAIN <<>> = {}
  OBVIOUS
<1> HIDE DEF t, u
<1>4. Backed(u, S)
  BY <1>1, <1>2, <1>3 DEF Backed, EntryBacked
<1>5. QED  BY <1>4 DEF u

------------------------------------------------------------------------------
(* The parts of the invariant, step by step.                               *)

(* A write of a backed object keeps the store and the watches backed. *)
LEMMA StoreBackedWrite ==
  ASSUME StoreOK, StoreBacked, UNCHANGED succeeded,
         NEW new \in NMType, Backed(new, succeeded), Write(new)
  PROVE  StoreBacked'
<1>1. obj'.status.nodes = new.status.nodes
  BY DEF Write, NMType
<1>2. Backed(obj, succeeded)'
  BY <1>1, BackedByEntries
<1>3. ASSUME NEW c \in Controller, NEW k \in DOMAIN watch'[c]
      PROVE  Backed(watch'[c][k], succeeded')
  <2>1. watch[c] \in Seq(NMType) /\ watch'[c] = Append(watch[c], obj')
    BY DEF StoreOK, Write
  <2>2. obj' \in NMType
    BY WriteType DEF StoreOK
  <2>3. /\ Len(watch'[c]) = Len(watch[c]) + 1 /\ watch'[c] \in Seq(NMType)
        /\ \A j \in 1..Len(watch[c]) : watch'[c][j] = watch[c][j]
        /\ watch'[c][Len(watch[c]) + 1] = obj'
    BY <2>1, <2>2, AppendProperties
  <2>4. /\ DOMAIN watch[c] = 1..Len(watch[c]) /\ Len(watch[c]) \in Nat
        /\ k \in 1..(Len(watch[c]) + 1)
    BY <2>1, <2>3, LenProperties
  <2>5. CASE k = Len(watch[c]) + 1
    BY <1>2, <2>3, <2>5
  <2>6. CASE k # Len(watch[c]) + 1
    <3>1. k \in DOMAIN watch[c]
      BY <2>4, <2>6
    <3>2. QED  BY <2>3, <2>4, <3>1 DEF StoreBacked
  <2>7. QED  BY <2>5, <2>6
<1>4. QED  BY <1>2, <1>3 DEF StoreBacked

LEMMA StoreBackedStutter ==
  ASSUME StoreBacked, UNCHANGED <<obj, watch>>, succeeded \subseteq succeeded'
  PROVE  StoreBacked'
BY BackedGrows DEF StoreBacked

(* Another worker's step, or a success, leaves a worker's part as it was. *)
LEMMA WorkerBackedStutter ==
  ASSUME NEW c \in Controller, WorkerBacked(c), succeeded \subseteq succeeded',
         pc'[c] = pc[c], nm'[c] = nm[c], todo'[c] = todo[c], seen'[c] = seen[c]
  PROVE  WorkerBacked(c)'
BY BackedGrows DEF WorkerBacked, At, Target

(* What a worker reads from its cache is backed. *)
LEMMA CachedBacked ==
  ASSUME StoreOK, StoreBacked, NEW c \in Controller
  PROVE  Backed(Cached(c), succeeded)
<1>1. 1 \in DOMAIN watch[c] /\ Cached(c) = watch[c][1]
  <2>1. watch[c] \in Seq(NMType) /\ watch[c] # <<>>
    BY DEF StoreOK
  <2>2. QED  BY <2>1, HeadTailProperties, EmptySeq, LenProperties DEF Cached
<1>2. QED  BY <1>1 DEF StoreBacked

(* A worker whose object is backed and who is not about to collect a pod. *)
LEMMA WorkerBackedStep ==
  ASSUME NEW c \in Controller, pc'[c] # "gc",
         nm'[c] # NoNM => Backed(nm'[c], succeeded')
  PROVE  WorkerBacked(c)'
BY DEF WorkerBacked, At

(* A step of a worker's pass leaves the others and the successes alone. *)
LEMMA OthersKept ==
  ASSUME TypeOK, NEW c \in Controller,
         \/ Reconcile(c) \/ Deliver(c) \/ UpdateFails(c) \/ Crash(c)
  PROVE  /\ UNCHANGED succeeded
         /\ \A d \in Controller \ {c} :
              pc'[d] = pc[d] /\ nm'[d] = nm[d] /\ todo'[d] = todo[d] /\ seen'[d] = seen[d]
<1> USE DEF TypeOK, WorkerOK, cluster
<1>1. CASE \/ ReturnIfTerminal(c) \/ SeedStatus(c) \/ HoldPaused(c) \/ BeginStep(c)
           \/ Deliver(c) \/ Crash(c)
  BY <1>1 DEF ReturnIfTerminal, SeedStatus, HoldPaused, BeginStep, Deliver, Crash, worker
<1>2. CASE UpdateStatus(c) \/ UpdateConflicts(c) \/ UpdateFails(c)
  BY <1>2 DEF UpdateStatus, UpdateConflicts, UpdateFails, EndPass
<1>3. ASSUME NEW i \in todo[c], Advance(c, i)
      PROVE  /\ UNCHANGED succeeded
             /\ \A d \in Controller \ {c} :
                  pc'[d] = pc[d] /\ nm'[d] = nm[d] /\ todo'[d] = todo[d] /\ seen'[d] = seen[d]
  <2>1. \A o : Leave(c, i, o) =>
          \A d \in Controller \ {c} :
            pc'[d] = pc[d] /\ nm'[d] = nm[d] /\ todo'[d] = todo[d] /\ seen'[d] = seen[d]
    BY DEF Leave
  <2>2. CASE \/ NothingLeft(c, i) \/ GetNodeFails(c, i) \/ Cordon(c, i) \/ Uncordon(c, i)
             \/ Drain(c, i) \/ ExecuteFails(c, i) \/ RequireScript(c, i)
             \/ PrepareScriptFails(c, i) \/ EnsurePodFails(c, i) \/ WaitForPodFails(c, i)
             \/ GcPod(c, i)
    <3>1. UNCHANGED succeeded
      BY <2>2 DEF NothingLeft, GetNodeFails, Cordon, Uncordon, Drain, ExecuteFails,
        RequireScript, PrepareScriptFails, EnsurePodFails, WaitForPodFails, GcPod
    <3>2. \E o : Leave(c, i, o)
      BY <2>2 DEF NothingLeft, GetNodeFails, Cordon, Uncordon, Drain, ExecuteFails,
        RequireScript, PrepareScriptFails, EnsurePodFails, WaitForPodFails, GcPod,
        Succeed, Fail
    <3>3. QED  BY <2>1, <3>1, <3>2
  <2>3. CASE \/ GetNode(c, i) \/ PrepareScript(c, i) \/ EnsurePod(c, i) \/ WaitForPod(c, i)
    BY <2>3 DEF GetNode, PrepareScript, EnsurePod, WaitForPod, Continue
  <2>4. QED  BY <1>3, <2>2, <2>3 DEF Advance
<1>4. QED  BY <1>1, <1>2, <1>3 DEF Reconcile

(* The reconcile loop outside advanceNode keeps the backing. *)
LEMMA PassBacked ==
  ASSUME TypeOK, RecordsBacked, NEW c \in Controller,
         \/ ReturnIfTerminal(c) \/ SeedStatus(c) \/ HoldPaused(c) \/ BeginStep(c)
         \/ UpdateStatus(c) \/ UpdateConflicts(c) \/ UpdateFails(c) \/ Crash(c)
         \/ Deliver(c)
  PROVE  StoreBacked' /\ WorkerBacked(c)' /\ PodsBacked'
<1> USE DEF TypeOK, RecordsBacked
<1>1. UNCHANGED succeeded
  BY OthersKept DEF Reconcile
<1>2. Cached(c) \in NMType /\ Backed(Cached(c), succeeded)
  BY CachedType, CachedBacked
<1>3. PodsBacked'
  <2>1. UNCHANGED pod
    BY DEF ReturnIfTerminal, SeedStatus, HoldPaused, BeginStep, UpdateStatus,
      UpdateConflicts, UpdateFails, Crash, Deliver, cluster
  <2>2. QED  BY <1>1, <2>1 DEF PodsBacked
<1>4. CASE ReturnIfTerminal(c) \/ HoldPaused(c)
  <2>1. UNCHANGED <<obj, watch, pc, nm, todo, seen>>
    BY <1>4 DEF ReturnIfTerminal, HoldPaused, worker
  <2>2. QED  BY <1>1, <1>3, <2>1, StoreBackedStutter, WorkerBackedStutter
<1>5. CASE SeedStatus(c)
  <2>1. PICK names \in TargetLists :
          nm' = [nm EXCEPT ![c] = [Cached(c) EXCEPT !.status = Seed(names)]]
    BY <1>5 DEF SeedStatus
  <2>2. Backed(nm'[c], succeeded')
    BY <1>2, <2>1, BackedSeed DEF WorkerOK
  <2>3. pc'[c] # "gc"
    BY <1>5 DEF SeedStatus, WorkerOK
  <2>4. StoreBacked'
    BY <1>1, <1>5, StoreBackedStutter DEF SeedStatus
  <2>5. QED  BY <1>3, <2>2, <2>3, <2>4, WorkerBackedStep
<1>6. CASE BeginStep(c)
  <2>1. PICK P : nm' = [nm EXCEPT ![c] = Promote(Cached(c), P)]
    BY <1>6 DEF BeginStep
  <2>2. Backed(nm'[c], succeeded')
    BY <1>1, <1>2, <2>1, BackedPromote DEF WorkerOK
  <2>3. pc'[c] # "gc"
    BY <1>6 DEF BeginStep, WorkerOK
  <2>4. StoreBacked'
    BY <1>1, <1>6, StoreBackedStutter DEF BeginStep
  <2>5. QED  BY <1>3, <2>2, <2>3, <2>4, WorkerBackedStep
<1>7. CASE UpdateStatus(c) \/ UpdateConflicts(c) \/ UpdateFails(c)
  <2>1. pc'[c] = "idle" /\ nm'[c] = NoNM
    BY <1>7 DEF UpdateStatus, UpdateConflicts, UpdateFails, EndPass, WorkerOK
  <2>2. WorkerBacked(c)'
    BY <2>1, WorkerBackedStep
  <2>3. ASSUME Persisting(c), Write([obj EXCEPT !.status = Written(c).status])
        PROVE  StoreBacked'
    <3> DEFINE new == [obj EXCEPT !.status = Written(c).status]
    <3>1. new \in NMType /\ nm[c] \in NMType
      BY <2>3, WrittenType
    <3>2. Backed(nm[c], succeeded)
      BY <3>1, ReconcilerAssumption DEF WorkerBacked, ReconcilerAssumption
    <3>3. Written(c).status.nodes = nm[c].status.nodes
      BY <3>1, RollupType DEF Written
    <3>4. new.status.nodes = nm[c].status.nodes
      BY <3>3 DEF StoreOK, NMType
    <3> HIDE DEF new
    <3>5. Backed(new, succeeded)
      BY <3>2, <3>4, BackedByEntries
    <3>6. Write(new)
      BY <2>3 DEF new
    <3>7. QED  BY <1>1, <3>1, <3>5, <3>6, StoreBackedWrite
  <2>4. StoreBacked'
    BY <1>1, <1>7, <2>3, StoreBackedStutter DEF UpdateStatus, UpdateConflicts, UpdateFails
  <2>5. QED  BY <1>3, <2>2, <2>4
<1>8. CASE Crash(c)
  <2>1. pc'[c] = "idle" /\ nm'[c] = NoNM
    BY <1>8 DEF Crash, WorkerOK
  <2>2. StoreBacked'
    <3>1. Backed(obj, succeeded)'
      BY <1>1, <1>8 DEF Crash, StoreBacked
    <3>2. \A d \in Controller : watch'[d] = IF d = c THEN <<obj>> ELSE watch[d]
      BY <1>8 DEF Crash, StoreOK
    <3>3. DOMAIN <<obj>> = {1} /\ <<obj>>[1] = obj
      OBVIOUS
    <3>4. QED  BY <1>1, <3>1, <3>2, <3>3 DEF StoreBacked, Crash
  <2>3. QED  BY <1>3, <2>1, <2>2, WorkerBackedStep
<1>9. CASE Deliver(c)
  <2>1. UNCHANGED <<obj, pc, nm, todo, seen>>
    BY <1>9 DEF Deliver
  <2>2. WorkerBacked(c)'
    BY <1>1, <2>1, WorkerBackedStutter
  <2>3. ASSUME NEW d \in Controller, NEW k \in DOMAIN watch'[d]
        PROVE  Backed(watch'[d][k], succeeded)
    <3>1. CASE d # c
      BY <1>9, <3>1 DEF Deliver, StoreOK, StoreBacked
    <3>2. CASE d = c
      <4>1. watch[c] \in Seq(NMType) /\ watch[c] # <<>> /\ watch'[c] = Tail(watch[c])
        BY <1>9 DEF Deliver, StoreOK
      <4>2. \A j \in 1..Len(Tail(watch[c])) : Tail(watch[c])[j] = watch[c][j + 1]
        BY <4>1, HeadTailProperties
      <4>3. /\ Len(Tail(watch[c])) = Len(watch[c]) - 1 /\ Len(watch[c]) \in Nat
            /\ DOMAIN watch[c] = 1..Len(watch[c])
            /\ DOMAIN Tail(watch[c]) = 1..Len(Tail(watch[c]))
        BY <4>1, HeadTailProperties, LenProperties
      <4>4. k \in 1..(Len(watch[c]) - 1)
        BY <3>2, <4>1, <4>3
      <4>5. k + 1 \in DOMAIN watch[c]
        BY <4>3, <4>4
      <4>6. watch'[c][k] = watch[c][k + 1]
        BY <4>1, <4>2, <4>3, <4>4
      <4>7. QED  BY <3>2, <4>5, <4>6 DEF StoreBacked
    <3>3. QED  BY <3>1, <3>2
  <2>4. QED  BY <1>1, <1>3, <2>1, <2>2, <2>3 DEF StoreBacked
<1>10. QED  BY <1>4, <1>5, <1>6, <1>7, <1>8, <1>9

(* An action that a worker starts, records or gives up keeps it backed: the *)
(* only Script recorded is the one whose pod was read as Succeeded.         *)
LEMMA AdvanceBacked ==
  ASSUME TypeOK, RecordsBacked, NEW c \in Controller, NEW i \in todo[c], Advance(c, i)
  PROVE  StoreBacked' /\ WorkerBacked(c)' /\ PodsBacked'
<1> USE DEF TypeOK, RecordsBacked
<1> DEFINE P == {"step", "execute", "pod", "wait", "gc"}
<1>1. UNCHANGED succeeded
  BY OthersKept DEF Reconcile
<1>2. UNCHANGED <<obj, watch>>
  BY DEF Advance, NothingLeft, GetNode, GetNodeFails, Cordon, Uncordon, Drain,
    ExecuteFails, RequireScript, PrepareScript, PrepareScriptFails, EnsurePod,
    EnsurePodFails, WaitForPod, WaitForPodFails, GcPod
<1>3. StoreBacked'
  BY <1>1, <1>2, StoreBackedStutter
<1>4. PICK p \in P : At(c, p, i)
  BY DEF Advance, NothingLeft, GetNode, GetNodeFails, Cordon, Uncordon, Drain,
    ExecuteFails, RequireScript, PrepareScript, PrepareScriptFails, EnsurePod,
    EnsurePodFails, WaitForPod, WaitForPodFails, GcPod, Executing
<1>5. /\ nm[c] \in NMType /\ i \in DOMAIN nm[c].status.nodes /\ Target(c, i) \in Node
      /\ p \in Busy => HasNext(nm[c], i)
      /\ p = "step" \/ p \in Busy
  BY <1>4, AtType DEF Busy
<1>6. Backed(nm[c], succeeded)
  BY <1>5, ReconcilerAssumption DEF WorkerBacked, ReconcilerAssumption
<1>7. PodsBacked'
  <2>1. UNCHANGED pod \/ \E s \in {"absent", "Pending"} :
          \A n \in Node : pod'[n].phase = s \/ pod'[n] = pod[n]
    <3>1. CASE EnsurePod(c, i) \/ EnsurePodFails(c, i) \/ GcPod(c, i)
      BY <3>1 DEF EnsurePod, EnsurePodFails, GcPod, NoPod, Created, ClusterOK
    <3>2. CASE ~(EnsurePod(c, i) \/ EnsurePodFails(c, i) \/ GcPod(c, i))
      BY <3>2 DEF Advance, NothingLeft, GetNode, GetNodeFails, Cordon, Uncordon, Drain,
        ExecuteFails, RequireScript, PrepareScript, PrepareScriptFails, WaitForPod,
        WaitForPodFails, cluster
    <3>3. QED  BY <3>1, <3>2
  <2>2. QED  BY <1>1, <2>1 DEF PodsBacked
<1>8. ASSUME NEW o, Leave(c, i, o), Backed(o, succeeded)
      PROVE  WorkerBacked(c)'
  <2>1. nm'[c] = o /\ pc'[c] = "step"
    BY <1>8 DEF Leave, WorkerOK
  <2>2. QED  BY <1>1, <1>8, <2>1, WorkerBackedStep
<1>9. ASSUME Fail(c, i) PROVE WorkerBacked(c)'
  <2>1. Backed(failNode(nm[c], i), succeeded)
    BY <1>5, <1>6, BackedAdvance
  <2>2. QED  BY <1>8, <1>9, <2>1 DEF Fail
<1>10. ASSUME Succeed(c, i), p \in Busy, NextAction(nm[c], i) = "Script" => Target(c, i) \in succeeded
       PROVE  WorkerBacked(c)'
  <2>1. Backed(Complete(nm[c], i), succeeded)
    BY <1>5, <1>6, <1>10, BackedAdvance DEF Target
  <2>2. QED  BY <1>8, <1>10, <2>1 DEF Succeed
<1>11. CASE NothingLeft(c, i)
  <2>1. Backed(Finish(nm[c], i), succeeded)
    BY <1>5, <1>6, BackedAdvance
  <2>2. WorkerBacked(c)'
    BY <1>8, <1>11, <2>1 DEF NothingLeft
  <2>3. QED  BY <1>3, <1>7, <2>2
<1>12. CASE GetNode(c, i)
  <2>1. HasNext(nm[c], i) /\ nm' = [nm EXCEPT ![c] = Start(nm[c], i)] /\ pc'[c] # "gc"
    BY <1>12 DEF GetNode, Continue, WorkerOK
  <2>2. Backed(Start(nm[c], i), succeeded)
    BY <1>5, <1>6, <2>1, BackedAdvance
  <2>3. nm'[c] = Start(nm[c], i)
    BY <2>1 DEF WorkerOK
  <2>4. QED  BY <1>1, <1>3, <1>7, <2>1, <2>2, <2>3, WorkerBackedStep
<1>13. CASE Cordon(c, i) \/ Uncordon(c, i) \/ Drain(c, i)
  <2>1. Succeed(c, i) /\ p \in Busy /\ NextAction(nm[c], i) # "Script"
    BY <1>4, <1>5, <1>13 DEF Cordon, Uncordon, Drain, Executing, At
  <2>2. QED  BY <1>3, <1>7, <1>10, <2>1
<1>14. CASE \/ GetNodeFails(c, i) \/ ExecuteFails(c, i) \/ RequireScript(c, i)
            \/ PrepareScriptFails(c, i) \/ EnsurePodFails(c, i) \/ WaitForPodFails(c, i)
  <2>1. Fail(c, i)
    BY <1>14 DEF GetNodeFails, ExecuteFails, RequireScript, PrepareScriptFails,
      EnsurePodFails, WaitForPodFails
  <2>2. QED  BY <1>3, <1>7, <1>9, <2>1
<1>15. CASE PrepareScript(c, i) \/ EnsurePod(c, i)
  <2>1. nm'[c] = nm[c] /\ pc'[c] # "gc"
    BY <1>15 DEF PrepareScript, EnsurePod, Continue, WorkerOK
  <2>2. QED  BY <1>1, <1>3, <1>6, <1>7, <2>1, WorkerBackedStep
<1>16. CASE WaitForPod(c, i)
  <2>1. At(c, "wait", i) /\ nm'[c] = nm[c] /\ todo' = todo /\ seen'[c] = pod[Target(c, i)].phase
    BY <1>16 DEF WaitForPod, Continue, WorkerOK
  <2>2. seen'[c] = "Succeeded" => Target(c, i) \in succeeded
    BY <1>5, <2>1 DEF PodsBacked
  <2>3. ASSUME NEW j \in todo'[c], At(c, "gc", j)' PROVE j = i
    <3>1. i \in todo[c] /\ j \in todo[c] /\ \A k \in todo[c] : i <= k
      BY <2>1, <2>3 DEF At
    <3>2. j <= i
      BY <2>1, <2>3, <3>1 DEF At
    <3>3. i \in Nat /\ j \in Nat /\ i <= j
      BY <3>1 DEF WorkerOK
    <3>4. QED  BY <3>2, <3>3
  <2>4. Target(c, i)' = Target(c, i)
    BY <2>1 DEF Target
  <2>5. WorkerBacked(c)'
    BY <1>1, <1>6, <2>1, <2>2, <2>3, <2>4 DEF WorkerBacked
  <2>6. QED  BY <1>3, <1>7, <2>5
<1>17. CASE GcPod(c, i)
  <2>1. At(c, "gc", i) /\ p \in Busy
    BY <1>4, <1>5, <1>17 DEF GcPod, At
  <2>2. CASE Fail(c, i)
    BY <1>3, <1>7, <1>9, <2>2
  <2>3. CASE seen[c] = "Succeeded" /\ Succeed(c, i)
    <3>1. Target(c, i) \in succeeded
      BY <2>1, <2>3 DEF WorkerBacked
    <3>2. QED  BY <1>3, <1>7, <1>10, <2>1, <2>3, <3>1
  <2>4. QED  BY <1>17, <2>2, <2>3 DEF GcPod
<1>18. QED  BY <1>11, <1>12, <1>13, <1>14, <1>15, <1>16, <1>17 DEF Advance

(* Outside the controller, a pod that succeeds is counted as it does. *)
LEMMA OutsideBacked ==
  ASSUME TypeOK, RecordsBacked, Kubelet \/ People
  PROVE  RecordsBacked'
<1> USE DEF TypeOK, RecordsBacked
<1>1. ASSUME UNCHANGED worker, succeeded \subseteq succeeded'
      PROVE  \A c \in Controller : WorkerBacked(c)'
  BY <1>1, WorkerBackedStutter DEF worker
<1>2. ASSUME NEW n \in Node, StartPod(n)
      PROVE  RecordsBacked'
  <2>1. PodsBacked'
    BY <1>2 DEF StartPod, PodsBacked, ClusterOK
  <2>2. QED  BY <1>1, <1>2, <2>1, StoreBackedStutter DEF StartPod
<1>3. ASSUME NEW n \in Node, FinishPod(n)
      PROVE  RecordsBacked'
  <2>1. succeeded \subseteq succeeded' /\ UNCHANGED <<obj, watch, worker>>
    BY <1>3 DEF FinishPod
  <2>2. PodsBacked'
    <3>1. CASE /\ pod' = [pod EXCEPT ![n].phase = "Succeeded"]
               /\ succeeded' = succeeded \cup {n}
      BY <3>1 DEF PodsBacked, ClusterOK
    <3>2. CASE pod' = [pod EXCEPT ![n].phase = "Failed"] /\ UNCHANGED succeeded
      <4>1. pod'[n].phase = "Failed"
        BY <3>2 DEF ClusterOK, PodType
      <4>2. QED  BY <3>2, <4>1 DEF PodsBacked, ClusterOK
    <3>3. QED  BY <1>3, <3>1, <3>2 DEF FinishPod
  <2>3. QED  BY <1>1, <2>1, <2>2, StoreBackedStutter
<1>4. ASSUME NEW kind, NEW spec \in SpecType, EditSpec(kind, spec)
      PROVE  RecordsBacked'
  <2> DEFINE new == [obj EXCEPT !.spec = spec]
  <2>1. new \in NMType /\ new.status.nodes = obj.status.nodes /\ Write(new)
    BY <1>4 DEF StoreOK, NMType, EditSpec
  <2>2. UNCHANGED <<worker, pod, succeeded>>
    BY <1>4 DEF EditSpec, Edit, cluster
  <2> HIDE DEF new
  <2>3. Backed(new, succeeded)
    BY <2>1, BackedByEntries DEF StoreBacked
  <2>4. StoreBacked'
    BY <2>1, <2>2, <2>3, StoreBackedWrite
  <2>5. PodsBacked'
    BY <2>2 DEF PodsBacked
  <2>6. QED  BY <1>1, <2>2, <2>4, <2>5
<1>5. obj.spec \in SpecType
  BY DEF StoreOK, NMType
<1>6. ASSUME NEW n \in Node, OperatorCordon(n) \/ OperatorUncordon(n) \/ DeletePod(n)
      PROVE  RecordsBacked'
  <2>1. UNCHANGED <<obj, watch, worker, succeeded>>
    BY <1>6 DEF OperatorCordon, OperatorUncordon, EditNode, DeletePod, Edit
  <2>2. PodsBacked'
    BY <1>6, <2>1 DEF OperatorCordon, OperatorUncordon, EditNode, DeletePod, NoPod,
      PodsBacked, ClusterOK
  <2>3. QED  BY <1>1, <2>1, <2>2, StoreBackedStutter
<1>7. CASE Pause \/ Run
  <2>1. /\ [obj.spec EXCEPT !.paused = TRUE] \in SpecType
        /\ [obj.spec EXCEPT !.paused = FALSE] \in SpecType
    BY <1>5 DEF SpecType
  <2>2. QED  BY <1>4, <1>7, <2>1 DEF Pause, Run
<1>8. ASSUME NEW b \in Body, Attach(b)
      PROVE  RecordsBacked'
  <2>1. [obj.spec EXCEPT !.script = b] \in SpecType
    BY <1>5 DEF SpecType
  <2>2. QED  BY <1>4, <1>8, <2>1 DEF Attach
<1>9. ASSUME NEW s \in ApplySpecs, Apply(s)
      PROVE  RecordsBacked'
  BY <1>4, <1>9, ReconcilerAssumption DEF Apply, ReconcilerAssumption
<1>10. QED  BY <1>2, <1>3, <1>6, <1>7, <1>8, <1>9 DEF Kubelet, People

(* The initial states record nothing. *)
LEMMA InitBacked == Init => RecordsBacked
<1> SUFFICES ASSUME Init PROVE RecordsBacked
  OBVIOUS
<1>1. obj.status = Unseeded
  <2>1. PICK s \in InitialSpecs : obj = [rv |-> 1, spec |-> s, status |-> Unseeded]
    BY DEF Init
  <2>2. QED  BY <2>1
<1>2. Backed(obj, succeeded)
  <2>1. obj.status.nodes = <<>>
    <3>1. Unseeded.nodes = <<>>
      BY DEF Unseeded
    <3>2. QED  BY <1>1, <3>1
  <2>2. DOMAIN <<>> = {}
    OBVIOUS
  <2>3. DOMAIN obj.status.nodes = {}
    BY <2>1, <2>2
  <2>4. QED  BY <2>3 DEF Backed
<1>3. \A c \in Controller : \A k \in DOMAIN watch[c] : watch[c][k] = obj
  <2>1. DOMAIN <<obj>> = {1} /\ <<obj>>[1] = obj
    OBVIOUS
  <2>2. \A c \in Controller : watch[c] = <<obj>>
    BY DEF Init
  <2>3. QED  BY <2>1, <2>2
<1>4. \A c \in Controller : WorkerBacked(c)
  BY DEF Init, WorkerBacked
<1>5. PodsBacked
  BY DEF Init, PodsBacked, NoPod
<1>6. QED  BY <1>2, <1>3, <1>4, <1>5 DEF RecordsBacked, StoreBacked

(* Nothing else is part of the invariant. *)
LEMMA BackedStutter ==
  ASSUME RecordsBacked, UNCHANGED <<obj, watch, queued, pc, nm, todo, seen, pod, succeeded>>
  PROVE  RecordsBacked'
<1>1. PodsBacked'
  BY DEF PodsBacked, RecordsBacked
<1>2. \A c \in Controller : WorkerBacked(c)'
  BY WorkerBackedStutter DEF RecordsBacked
<1>3. QED  BY <1>1, <1>2, StoreBackedStutter DEF RecordsBacked

(* Every step keeps it. *)
LEMMA BackedStep ==
  ASSUME TypeOK, RecordsBacked, [Next]_vars
  PROVE  RecordsBacked'
<1>1. CASE UNCHANGED vars
  <2>1. UNCHANGED <<obj, watch, queued, pc, nm, todo, seen, pod, succeeded>>
    BY <1>1 DEF vars, worker, cluster
  <2>2. QED  BY <2>1, BackedStutter
<1>2. ASSUME NEW c \in Controller,
             Reconcile(c) \/ Deliver(c) \/ UpdateFails(c) \/ Crash(c)
      PROVE  RecordsBacked'
  <2>1. StoreBacked' /\ WorkerBacked(c)' /\ PodsBacked'
    BY <1>2, PassBacked, AdvanceBacked DEF Reconcile
  <2>2. \A d \in Controller \ {c} : WorkerBacked(d)'
    BY <1>2, OthersKept, WorkerBackedStutter DEF RecordsBacked
  <2>3. QED  BY <2>1, <2>2 DEF RecordsBacked
<1>3. CASE Kubelet \/ People
  BY <1>3, OutsideBacked
<1>4. QED  BY <1>1, <1>2, <1>3 DEF Next, Fault

LEMMA BackedMeansRan == RecordsBacked => RecordedScriptRan
BY DEF RecordsBacked, StoreBacked, Backed, EntryBacked, RecordedScriptRan, Entries, Entry

(* A Script that the run's record shows has succeeded on its node: through   *)
(* stale caches, conflicting edits, retried passes, deleted pods, crashes    *)
(* and two controllers at once.                                              *)
THEOREM RecordsAreTrue == Spec => []RecordedScriptRan
<1>1. TypeOK /\ RecordsBacked /\ [Next]_vars => RecordsBacked'
  BY BackedStep
<1>2. QED  BY <1>1, BackedMeansRan, InitBacked, TypeCorrect, PTL DEF Spec
==============================================================================
