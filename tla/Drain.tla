-------------------------------- MODULE Drain --------------------------------
(***************************************************************************)
(* One execution of the Drain action on one node: the list-evict-poll loop *)
(* beside the disruption budgets, the kubelet, the controllers that create *)
(* pods on the node and the operator who may uncordon it.                  *)
(*                                                                         *)
(* The deadline is a clock that may run out at any moment.                 *)
(***************************************************************************)
EXTENDS Naturals, FiniteSets

CONSTANTS
  Pod,        \* the pods that may be on the node
  Mirror,     \* those that mirror a static pod of the kubelet
  DaemonSet,  \* those a DaemonSet owns
  Options,    \* spec.drainOptions: "nil", or ignoreDaemonSets as "ignore" or "evict"
  MaxFaults   \* bound: calls that fail transiently or are throttled

ASSUME DrainAssumption ==
  /\ IsFiniteSet(Pod)
  /\ Mirror \subseteq Pod /\ DaemonSet \subseteq Pod
  /\ Options \subseteq {"nil", "ignore", "evict"}
  /\ MaxFaults \in Nat

VARIABLES
  options,      \* the drainOptions of this action
  pods,         \* per pod: what the API server says of it
  protected,    \* pods whose budget allows no disruption now
  cordoned,     \* the node is unschedulable
  expired,      \* the deadline has passed
  pc,           \* the loop: at the list, among the evictions, or over
  pending,      \* listed pods this pass has still to evict
  blocked,      \* pods refused in this pass
  lastBlocked,  \* pods refused in the last pass that saw a list
  lastListErr,  \* the last list failed transiently
  refused,      \* history: pods refused (429) since the last list that was seen
  result,       \* what Execute returned
  faults        \* transient failures so far

env == <<pods, protected, cordoned, expired>>
loop == <<pc, pending, blocked, lastBlocked, lastListErr, refused, result>>
vars == <<options, env, loop, faults>>

Results == {"", "drained", "list error", "evict error", "cancelled",
            "timed out: list", "timed out: blocked", "timed out"}

TypeOK ==
  /\ options \in Options
  /\ pods \in [Pod -> {"absent", "running", "terminating", "finished"}]
  /\ protected \subseteq Pod
  /\ cordoned \in BOOLEAN /\ expired \in BOOLEAN
  /\ pc \in {"list", "evict", "returned"}
  /\ pending \subseteq Pod /\ blocked \subseteq Pod
  /\ lastBlocked \subseteq Pod /\ refused \subseteq Pod
  /\ lastListErr \in BOOLEAN
  /\ result \in Results
  /\ pc = "returned" <=> result # ""
  /\ faults \in 0..MaxFaults

Init ==
  /\ options \in Options
  /\ pods \in [Pod -> {"absent", "running", "terminating", "finished"}]
  /\ protected \in SUBSET Pod
  /\ cordoned = TRUE /\ expired = FALSE
  /\ pc = "list" /\ pending = {} /\ blocked = {}
  /\ lastBlocked = {} /\ lastListErr = FALSE /\ refused = {}
  /\ result = "" /\ faults = 0

(* Without options DaemonSet pods are left alone; with them, as they say. *)
IgnoreDaemonSets == options \in {"nil", "ignore"}

(* Mutants of Evictable: pods that shut down no longer count; DaemonSet pods *)
(* are taken whatever the options say.                                       *)
EvictableUntilDeleted(p) ==
  /\ p \notin Mirror
  /\ ~(p \in DaemonSet /\ IgnoreDaemonSets)
  /\ pods[p] = "running"

EvictableDaemons(p) == p \notin Mirror /\ pods[p] \in {"running", "terminating"}

(* podsToEvict: pods that are shutting down still count. *)
Evictable(p) ==
  /\ p \notin Mirror
  /\ ~(p \in DaemonSet /\ IgnoreDaemonSets)
  /\ pods[p] \in {"running", "terminating"}

(* Mutant of Return: the error is dropped. *)
ReturnNothing(r) ==
  /\ pc' = "returned"
  /\ UNCHANGED <<result, pending, blocked, lastBlocked, lastListErr>>

Return(r) ==
  /\ pc' = "returned"
  /\ result' = r
  /\ UNCHANGED <<pending, blocked, lastBlocked, lastListErr>>

(* Mutants of ListPods: what an earlier pass was refused is carried over; a *)
(* pod that was refused once is not tried again.                            *)
ListPodsCarryingBlocked ==
  /\ pc = "list"
  /\ refused' = {}
  /\ IF \A p \in Pod : ~Evictable(p) THEN Return("drained")
     ELSE /\ pc' = "evict"
          /\ pending' = {p \in Pod : Evictable(p) /\ pods[p] # "terminating"}
          /\ lastListErr' = FALSE
          /\ UNCHANGED <<blocked, lastBlocked, result>>
  /\ UNCHANGED <<options, env, faults>>

ListPodsSkippingBlocked ==
  /\ pc = "list"
  /\ refused' = {}
  /\ IF \A p \in Pod : ~Evictable(p) THEN Return("drained")
     ELSE /\ pc' = "evict"
          /\ pending' = {p \in Pod \ lastBlocked : Evictable(p) /\ pods[p] = "running"}
          /\ blocked' = lastBlocked
          /\ lastListErr' = FALSE
          /\ UNCHANGED <<lastBlocked, result>>
  /\ UNCHANGED <<options, env, faults>>

(* The list, and the early return when it is empty.  Only pods that are not *)
(* shutting down already are evicted in the pass that follows.              *)
ListPods ==
  /\ pc = "list"
  /\ refused' = {}
  /\ IF \A p \in Pod : ~Evictable(p) THEN Return("drained")
     ELSE /\ pc' = "evict"
          /\ pending' = {p \in Pod : Evictable(p) /\ pods[p] # "terminating"}
          /\ blocked' = {}
          /\ lastListErr' = FALSE
          /\ UNCHANGED <<lastBlocked, result>>
  /\ UNCHANGED <<options, env, faults>>

(* 503, 504, a timeout or 429 on the list: the pass evicts nothing. *)
ListFailsTransiently ==
  /\ pc = "list"
  /\ faults < MaxFaults /\ faults' = faults + 1
  /\ pc' = "evict"
  /\ pending' = {} /\ blocked' = {}
  /\ lastListErr' = TRUE
  /\ UNCHANGED <<options, env, lastBlocked, refused, result>>

ListFails ==
  /\ pc = "list"
  /\ Return("list error")
  /\ UNCHANGED <<options, env, refused, faults>>

Evicting(p) == pc = "evict" /\ p \in pending

(* The Eviction API takes a pod down unless its budget forbids it; a pod that *)
(* is gone by then, or has finished, is not missed.                           *)
Disruptable(p) == pods[p] = "running" => p \notin protected
TakenDown(p) ==
  [pods EXCEPT ![p] = CASE @ = "running" -> "terminating"
                        [] @ = "finished" -> "absent"
                        [] OTHER -> @]

Evict(p) ==
  /\ Evicting(p)
  /\ Disruptable(p)
  /\ pods' = TakenDown(p)
  /\ pending' = pending \ {p}
  /\ UNCHANGED <<options, protected, cordoned, expired, pc, blocked, lastBlocked,
                 lastListErr, refused, result, faults>>

(* 429: the pod's budget refuses, or the API server is throttling, which the *)
(* code takes for the same; the pod is tried again next pass.                *)
EvictBlocked(p) ==
  /\ Evicting(p)
  /\ \/ ~Disruptable(p) /\ UNCHANGED faults
     \/ faults < MaxFaults /\ faults' = faults + 1
  /\ blocked' = blocked \cup {p}
  /\ refused' = refused \cup {p}
  /\ pending' = pending \ {p}
  /\ UNCHANGED <<options, env, pc, lastBlocked, lastListErr, result>>

(* A transient failure is swallowed; the eviction may have gone through. *)
EvictFailsTransiently(p) ==
  /\ Evicting(p)
  /\ faults < MaxFaults /\ faults' = faults + 1
  /\ \/ UNCHANGED pods
     \/ Disruptable(p) /\ pods' = TakenDown(p)
  /\ pending' = pending \ {p}
  /\ UNCHANGED <<options, protected, cordoned, expired, pc, blocked, lastBlocked,
                 lastListErr, refused, result>>

EvictFails(p) ==
  /\ Evicting(p)
  /\ Return("evict error")
  /\ UNCHANGED <<options, env, refused, faults>>

(* The end of a pass: what was refused is remembered only if the pass saw a *)
(* list; then the deadline is checked, and the error blames the list, the   *)
(* budgets or neither.                                                      *)
Remembered == IF lastListErr THEN lastBlocked ELSE blocked

Blame == IF lastListErr THEN "timed out: list"
         ELSE IF Remembered # {} THEN "timed out: blocked"
         ELSE "timed out"

(* Mutant of EndPass: the deadline is not checked. *)
EndPassForever ==
  /\ pc = "evict" /\ pending = {}
  /\ lastBlocked' = Remembered
  /\ pc' = "list"
  /\ UNCHANGED <<options, env, pending, blocked, lastListErr, refused, result, faults>>

EndPass ==
  /\ pc = "evict" /\ pending = {}
  /\ lastBlocked' = Remembered
  /\ IF expired THEN pc' = "returned" /\ result' = Blame
                ELSE pc' = "list" /\ UNCHANGED result
  /\ UNCHANGED <<options, env, pending, blocked, lastListErr, refused, faults>>

(* The controller is shutting down: the wait between passes is cut short. *)
Cancelled ==
  /\ pc = "evict" /\ pending = {} /\ ~expired
  /\ Return("cancelled")
  /\ UNCHANGED <<options, env, refused, faults>>

------------------------------------------------------------------------------
(* The cluster.                                                            *)

SetPod(p, from, to) ==
  /\ pods[p] \in from
  /\ pods' = [pods EXCEPT ![p] = to]
  /\ UNCHANGED <<options, protected, cordoned, expired, loop, faults>>

Terminated(p) == SetPod(p, {"terminating"}, "absent")
Finished(p) == p \notin Mirror /\ SetPod(p, {"running"}, "finished")

(* A new pod comes to the node: a DaemonSet's or a static one whether or not *)
(* the node is cordoned, any other only while it is schedulable.             *)
NewPod(p) ==
  /\ ~cordoned \/ p \in DaemonSet \cup Mirror
  /\ SetPod(p, {"absent"}, "running")

BudgetChanges(p) ==
  /\ protected' = IF p \in protected THEN protected \ {p} ELSE protected \cup {p}
  /\ UNCHANGED <<options, pods, cordoned, expired, loop, faults>>

OperatorUncordon ==
  /\ cordoned /\ cordoned' = FALSE
  /\ UNCHANGED <<options, pods, protected, expired, loop, faults>>

DeadlinePasses ==
  /\ pc # "returned"
  /\ ~expired /\ expired' = TRUE
  /\ UNCHANGED <<options, pods, protected, cordoned, loop, faults>>

Execute ==
  \/ ListPods \/ ListFailsTransiently \/ ListFails
  \/ \E p \in Pod :
       Evict(p) \/ EvictBlocked(p) \/ EvictFailsTransiently(p) \/ EvictFails(p)
  \/ EndPass \/ Cancelled

Cluster ==
  \/ \E p \in Pod : Terminated(p) \/ Finished(p) \/ NewPod(p) \/ BudgetChanges(p)
  \/ OperatorUncordon

Next == Execute \/ Cluster \/ DeadlinePasses

(* Every call returns and the kubelet takes down what is terminating. *)
Fairness == WF_vars(Execute) /\ \A p \in Pod : WF_vars(Terminated(p))

Spec == Init /\ [][Next]_vars
FairSpec == Spec /\ Fairness

------------------------------------------------------------------------------
(* A drain that succeeds leaves the node empty, pods still shutting down    *)
(* included.  That it stays so for as long as nobody uncordons it is the    *)
(* doing of NewPod's environment, in which only DaemonSet and static pods   *)
(* come to a cordoned node: the runner pod of a Script that follows a Drain *)
(* does come, and is outside this claim.                                    *)
DrainedStaysEmpty ==
  result = "drained" /\ cordoned =>
    \A p \in Pod : p \notin Mirror \cup DaemonSet => pods[p] \in {"absent", "finished"}

(* A drain takes down no pod it is meant to leave alone, and no pod whose   *)
(* budget allows no disruption.                                             *)
EvictsOnlyEvictable ==
  [][\A p \in Pod : pods[p] = "running" /\ pods'[p] = "terminating"
       => /\ p \notin Mirror \cup protected
          /\ p \in DaemonSet => options = "evict"]_vars

(* A timeout blames refused evictions exactly when the last pass had some,  *)
(* and the list exactly when that failed: never a cause from before.        *)
BlameIsTrue ==
  /\ result = "timed out: blocked" => refused # {} /\ ~lastListErr
  /\ result = "timed out" => refused = {} /\ ~lastListErr
  /\ result = "timed out: list" => lastListErr

(* A drain whose deadline passes returns, even when every eviction is refused *)
(* or DaemonSet pods come back as fast as they are evicted.                   *)
DrainReturns == <>expired => <>(pc = "returned")

(* A drain with time left succeeds once the budgets let it: neither lost     *)
(* calls nor refusals along the way make it give up or hang.                 *)
DrainSucceeds ==
  /\ [](~expired /\ cordoned /\ IgnoreDaemonSets)
  /\ <>[](protected = {})
  /\ [](result \notin {"list error", "evict error", "cancelled"})
  => <>(result = "drained")
==============================================================================
