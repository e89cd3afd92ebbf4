----------------------------- MODULE DrainProofs -----------------------------
(***************************************************************************)
(* The drain's safety properties, for any pods, options and faults.        *)
(***************************************************************************)
EXTENDS Drain, TLAPS

(* Only pods the drain is meant to take are waiting to be evicted. *)
PendingIsMeant ==
  \A p \in pending : p \notin Mirror /\ (p \in DaemonSet => options = "evict")

(* While a pass that saw a list is under way, what it holds for blocked is *)
(* what has been refused since that list.                                  *)
BlockedIsRefused == pc = "evict" /\ ~lastListErr => blocked = refused

DrainInv ==
  /\ TypeOK
  /\ DrainedStaysEmpty
  /\ BlameIsTrue
  /\ PendingIsMeant
  /\ BlockedIsRefused

(* The cluster and the clock leave the loop's own state alone. *)
LEMMA LoopUndisturbed ==
  ASSUME Cluster \/ DeadlinePasses \/ UNCHANGED vars
  PROVE  UNCHANGED loop
BY DEF Cluster, Terminated, Finished, NewPod, SetPod, BudgetChanges,
       OperatorUncordon, DeadlinePasses, vars

(* The transient failures counted so far stay within their bound. *)
LEMMA FaultsBounded ==
  ASSUME faults \in 0..MaxFaults, faults < MaxFaults, faults' = faults + 1
  PROVE  faults' \in 0..MaxFaults
BY DrainAssumption

(* Every step of the loop and of the cluster keeps the state well-formed; in *)
(* particular it is the returning steps, and only those, that set a result.  *)
LEMMA TypeStep == TypeOK /\ [Next]_vars => TypeOK'
<1> SUFFICES ASSUME TypeOK, [Next]_vars PROVE TypeOK'
  OBVIOUS
<1> USE DrainAssumption DEF TypeOK
<1>1. CASE ListPods
  BY <1>1 DEF ListPods, Return, Results, env
<1>2. CASE ListFailsTransiently \/ ListFails
  <2>1. faults' \in 0..MaxFaults
    BY <1>2, FaultsBounded DEF ListFailsTransiently, ListFails
  <2> QED
    BY <1>2, <2>1 DEF ListFailsTransiently, ListFails, Return, Results, env
<1>3. ASSUME NEW p \in Pod, Evict(p) PROVE TypeOK'
  BY <1>3 DEF Evict, Evicting, TakenDown
<1>4. ASSUME NEW p \in Pod, EvictBlocked(p) PROVE TypeOK'
  <2>1. faults' \in 0..MaxFaults
    BY <1>4, FaultsBounded DEF EvictBlocked
  <2> QED
    BY <1>4, <2>1 DEF EvictBlocked, env
<1>5. ASSUME NEW p \in Pod, EvictFailsTransiently(p) PROVE TypeOK'
  <2>1. faults' \in 0..MaxFaults
    BY <1>5, FaultsBounded DEF EvictFailsTransiently
  <2> QED
    BY <1>5, <2>1 DEF EvictFailsTransiently, Evicting, TakenDown
<1>6. ASSUME NEW p \in Pod, EvictFails(p) PROVE TypeOK'
  BY <1>6 DEF EvictFails, Evicting, Return, Results, env
<1>7. CASE EndPass
  BY <1>7 DEF EndPass, Remembered, Blame, Results, env
<1>8. CASE Cancelled
  BY <1>8 DEF Cancelled, Return, Results, env
<1>9. ASSUME NEW p \in Pod, Terminated(p) \/ Finished(p) \/ NewPod(p) PROVE TypeOK'
  BY <1>9 DEF Terminated, Finished, NewPod, SetPod, loop
<1>10. ASSUME NEW p \in Pod, BudgetChanges(p) PROVE TypeOK'
  BY <1>10 DEF BudgetChanges, loop
<1>11. CASE OperatorUncordon \/ DeadlinePasses
  BY <1>11 DEF OperatorUncordon, DeadlinePasses, loop
<1>12. CASE UNCHANGED vars
  BY <1>12 DEF vars, env, loop
<1> QED
  BY <1>1, <1>2, <1>3, <1>4, <1>5, <1>6, <1>7, <1>8, <1>9, <1>10, <1>11, <1>12
  DEF Next, Execute, Cluster

(* What a list that comes back empty says of each pod. *)
LEMMA NothingEvictable ==
  ASSUME TypeOK, NEW p \in Pod, ~Evictable(p), p \notin Mirror \cup DaemonSet
  PROVE  pods[p] \in {"absent", "finished"}
BY DEF TypeOK, Evictable

(* An empty node stays so: the loop is over, and a pod that comes to a       *)
(* cordoned node is a static one or a DaemonSet's.                           *)
LEMMA EmptyStep == TypeOK /\ DrainedStaysEmpty /\ [Next]_vars => DrainedStaysEmpty'
<1> SUFFICES ASSUME TypeOK, DrainedStaysEmpty, [Next]_vars,
                    result' = "drained", cordoned',
                    NEW p \in Pod, p \notin Mirror \cup DaemonSet
             PROVE  pods'[p] \in {"absent", "finished"}
  BY DEF DrainedStaysEmpty
<1>1. CASE ListPods
  <2>1. \A q \in Pod : ~Evictable(q)
    BY <1>1 DEF ListPods, TypeOK
  <2> QED
    BY <1>1, <2>1, NothingEvictable DEF ListPods, env
<1>2. CASE \/ ListFailsTransiently \/ ListFails \/ EndPass \/ Cancelled
           \/ \E q \in Pod : EvictFails(q)
  BY <1>2 DEF ListFailsTransiently, ListFails, EndPass, Cancelled, EvictFails,
              Evicting, Return, Blame, TypeOK
<1>3. CASE \E q \in Pod : Evict(q) \/ EvictBlocked(q) \/ EvictFailsTransiently(q)
  BY <1>3 DEF Evict, EvictBlocked, EvictFailsTransiently, Evicting, TypeOK
<1>4. ASSUME NEW q \in Pod, Terminated(q) \/ Finished(q) \/ NewPod(q)
      PROVE  pods'[p] \in {"absent", "finished"}
  BY <1>4 DEF Terminated, Finished, NewPod, SetPod, loop, TypeOK, DrainedStaysEmpty
<1>5. CASE (\E q \in Pod : BudgetChanges(q)) \/ OperatorUncordon \/ DeadlinePasses
  BY <1>5 DEF BudgetChanges, OperatorUncordon, DeadlinePasses, loop, DrainedStaysEmpty
<1>6. CASE UNCHANGED vars
  BY <1>6 DEF vars, env, loop, DrainedStaysEmpty
<1> QED
  BY <1>1, <1>2, <1>3, <1>4, <1>5, <1>6 DEF Next, Execute, Cluster

(* The pass's own record of refusals is the history of them, because a list *)
(* clears both and a refusal enters both.                                   *)
LEMMA BlockedStep == TypeOK /\ BlockedIsRefused /\ [Next]_vars => BlockedIsRefused'
<1> SUFFICES ASSUME TypeOK, BlockedIsRefused, [Next]_vars PROVE BlockedIsRefused'
  OBVIOUS
<1> USE DEF BlockedIsRefused
<1>1. CASE ListPods \/ ListFailsTransiently \/ ListFails
  BY <1>1 DEF ListPods, ListFailsTransiently, ListFails, Return
<1>2. CASE \E p \in Pod : \/ Evict(p) \/ EvictBlocked(p)
                          \/ EvictFailsTransiently(p) \/ EvictFails(p)
  BY <1>2 DEF Evict, EvictBlocked, EvictFailsTransiently, EvictFails, Return
<1>3. CASE EndPass \/ Cancelled
  BY <1>3 DEF EndPass, Cancelled, Return
<1>4. CASE Cluster \/ DeadlinePasses \/ UNCHANGED vars
  BY <1>4, LoopUndisturbed DEF loop
<1> QED
  BY <1>1, <1>2, <1>3, <1>4 DEF Next, Execute

(* A timeout is returned only at the end of a pass, where blocked, refused *)
(* and lastListErr agree; nothing changes them afterwards.                 *)
LEMMA BlameStep ==
  TypeOK /\ BlameIsTrue /\ BlockedIsRefused /\ [Next]_vars => BlameIsTrue'
<1> SUFFICES ASSUME TypeOK, BlameIsTrue, BlockedIsRefused, [Next]_vars
             PROVE  BlameIsTrue'
  OBVIOUS
<1>1. CASE EndPass
  BY <1>1 DEF EndPass, Blame, Remembered, BlockedIsRefused, BlameIsTrue, TypeOK
<1>2. CASE \/ ListPods \/ ListFailsTransiently \/ ListFails \/ Cancelled
           \/ \E p \in Pod : EvictFails(p)
  BY <1>2 DEF ListPods, ListFailsTransiently, ListFails, Cancelled, EvictFails,
              Evicting, Return, BlameIsTrue, TypeOK
<1>3. CASE \E p \in Pod : Evict(p) \/ EvictBlocked(p) \/ EvictFailsTransiently(p)
  BY <1>3 DEF Evict, EvictBlocked, EvictFailsTransiently, Evicting, BlameIsTrue, TypeOK
<1>4. CASE Cluster \/ DeadlinePasses \/ UNCHANGED vars
  <2>1. result' = result /\ refused' = refused
    BY <1>4, LoopUndisturbed DEF loop
  <2>2. lastListErr' = lastListErr
    BY <1>4, LoopUndisturbed DEF loop
  <2> QED
    BY <2>1, <2>2, Zenon DEF BlameIsTrue
<1> QED
  BY <1>1, <1>2, <1>3, <1>4 DEF Next, Execute

(* A pass evicts from the list it saw, which was filtered by the options. *)
LEMMA PendingStep == TypeOK /\ PendingIsMeant /\ [Next]_vars => PendingIsMeant'
<1> SUFFICES ASSUME TypeOK, PendingIsMeant, [Next]_vars PROVE PendingIsMeant'
  OBVIOUS
<1> USE DEF PendingIsMeant
<1>1. CASE ListPods
  BY <1>1, DrainAssumption DEF ListPods, Return, Evictable, IgnoreDaemonSets, TypeOK
<1>2. CASE ListFailsTransiently \/ ListFails \/ EndPass \/ Cancelled
  BY <1>2 DEF ListFailsTransiently, ListFails, EndPass, Cancelled, Return
<1>3. CASE \E p \in Pod : \/ Evict(p) \/ EvictBlocked(p)
                          \/ EvictFailsTransiently(p) \/ EvictFails(p)
  BY <1>3 DEF Evict, EvictBlocked, EvictFailsTransiently, EvictFails, Return
<1>4. CASE Cluster \/ DeadlinePasses \/ UNCHANGED vars
  BY <1>4 DEF Cluster, Terminated, Finished, NewPod, SetPod, BudgetChanges,
              OperatorUncordon, DeadlinePasses, vars, loop
<1> QED
  BY <1>1, <1>2, <1>3, <1>4 DEF Next, Execute

(* The invariant holds in every reachable state of a drain. *)
THEOREM DrainInvariant == Spec => []DrainInv
<1>1. Init => DrainInv
  <2> SUFFICES ASSUME Init PROVE DrainInv
    OBVIOUS
  <2>1. TypeOK
    <3>0. faults = 0
      BY DEF Init
    <3>1. faults \in 0..MaxFaults
      BY <3>0, DrainAssumption
    <3>2. lastListErr \in BOOLEAN /\ cordoned \in BOOLEAN /\ expired \in BOOLEAN
      BY DEF Init
    <3>3. /\ options \in Options /\ protected \subseteq Pod
          /\ pods \in [Pod -> {"absent", "running", "terminating", "finished"}]
          /\ pending \subseteq Pod /\ blocked \subseteq Pod
          /\ lastBlocked \subseteq Pod /\ refused \subseteq Pod
      BY DEF Init
    <3>4. /\ pc \in {"list", "evict", "returned"} /\ result \in Results
          /\ pc = "returned" <=> result # ""
      BY DEF Init, Results
    <3> QED
      BY <3>1, <3>2, <3>3, <3>4 DEF TypeOK
  <2>2. DrainedStaysEmpty /\ BlameIsTrue
    BY DEF Init, DrainedStaysEmpty, BlameIsTrue
  <2>3. PendingIsMeant /\ BlockedIsRefused
    BY DEF Init, PendingIsMeant, BlockedIsRefused
  <2> QED
    BY <2>1, <2>2, <2>3 DEF DrainInv
<1>2. DrainInv /\ [Next]_vars => DrainInv'
  BY TypeStep, EmptyStep, BlockedStep, BlameStep, PendingStep DEF DrainInv
<1> QED
  BY <1>1, <1>2, PTL DEF Spec

(* Every variable of a drain keeps to its type, and a drain has a result *)
(* exactly when it has returned.                                         *)
THEOREM DrainTypes == Spec => []TypeOK
<1>1. DrainInv => TypeOK
  BY DEF DrainInv
<1> QED
  BY <1>1, DrainInvariant, PTL

(* A drain that returned success has left the node empty, and the node stays *)
(* empty for as long as it is cordoned and only the pods of NewPod arrive.   *)
THEOREM DrainLeavesNodeEmpty == Spec => []DrainedStaysEmpty
<1>1. DrainInv => DrainedStaysEmpty
  BY DEF DrainInv
<1> QED
  BY <1>1, DrainInvariant, PTL

(* The error of a drain that timed out blames what the last pass met. *)
THEOREM DrainBlamesTruly == Spec => []BlameIsTrue
<1>1. DrainInv => BlameIsTrue
  BY DEF DrainInv
<1> QED
  BY <1>1, DrainInvariant, PTL

(* No step takes down a pod that the drain is meant to spare, or one that its *)
(* budget protects.                                                           *)
THEOREM DrainSpares == Spec => EvictsOnlyEvictable
<1> DEFINE Spared ==
      \A p \in Pod : pods[p] = "running" /\ pods'[p] = "terminating"
        => /\ p \notin Mirror \cup protected
           /\ p \in DaemonSet => options = "evict"
<1>1. DrainInv /\ [Next]_vars => Spared
  <2> SUFFICES ASSUME DrainInv, [Next]_vars, NEW p \in Pod,
                      pods[p] = "running", pods'[p] = "terminating"
               PROVE  /\ p \notin Mirror \cup protected
                      /\ p \in DaemonSet => options = "evict"
    OBVIOUS
  <2> USE DEF DrainInv, TypeOK
  <2>1. ASSUME NEW q \in Pod, Evict(q) \/ EvictFailsTransiently(q)
        PROVE  p = q /\ q \in pending /\ q \notin protected
    BY <2>1 DEF Evict, EvictFailsTransiently, Evicting, TakenDown, Disruptable
  <2>2. ~(\/ ListPods \/ ListFailsTransiently \/ ListFails \/ EndPass \/ Cancelled
          \/ \E q \in Pod : EvictBlocked(q) \/ EvictFails(q))
    BY DEF ListPods, ListFailsTransiently, ListFails, EndPass, Cancelled,
           EvictBlocked, EvictFails, env
  <2>3. ~(Cluster \/ DeadlinePasses \/ UNCHANGED vars)
    BY DEF Cluster, Terminated, Finished, NewPod, SetPod, BudgetChanges,
           OperatorUncordon, DeadlinePasses, vars, env
  <2> QED
    BY <2>1, <2>2, <2>3 DEF Next, Execute, PendingIsMeant
<1>2. Spec => [][Spared]_vars
  BY <1>1, DrainInvariant, PTL DEF Spec
<1> QED
  BY <1>2 DEF EvictsOnlyEvictable
==============================================================================
