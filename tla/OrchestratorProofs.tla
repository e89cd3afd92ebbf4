-------------------------- MODULE OrchestratorProofs --------------------------
(***************************************************************************)
(* What the orchestrator's in-memory steps preserve and change, for every  *)
(* NodeMaintenance: the lemmas the reconciler's proofs rest on.            *)
(***************************************************************************)
EXTENDS Orchestrator, SequenceTheorems, FiniteSetTheorems, TLAPS

(* The entries of a well-formed object are a sequence indexed from 1. *)
LEMMA EntriesType ==
  ASSUME NEW o \in NMType
  PROVE  /\ o.status.nodes \in Seq(NodeStatusType)
         /\ Len(o.status.nodes) \in Nat
         /\ DOMAIN o.status.nodes = 1..Len(o.status.nodes)
         /\ \A i \in DOMAIN o.status.nodes : o.status.nodes[i] \in NodeStatusType
         /\ o.rv \in Nat /\ o.spec \in SpecType /\ o.status.phase \in RunPhase
<1>1. o.status.nodes \in Seq(NodeStatusType)
  BY DEF NMType, StatusType
<1>2. QED  BY <1>1, LenProperties, ElementOfSeq DEF NMType, StatusType

(* Replacing the entries of a well-formed object by well-formed entries. *)
LEMMA SetNodesType ==
  ASSUME NEW o \in NMType, NEW s \in Seq(NodeStatusType)
  PROVE  /\ [o EXCEPT !.status.nodes = s] \in NMType
         /\ [o EXCEPT !.status.nodes = s].status.nodes = s
         /\ [o EXCEPT !.status.nodes = s].status.phase = o.status.phase
         /\ [o EXCEPT !.status.nodes = s].spec = o.spec
         /\ [o EXCEPT !.status.nodes = s].rv = o.rv
BY DEF NMType, StatusType

(* Update changes one entry and nothing else. *)
LEMMA UpdateType ==
  ASSUME NEW o \in NMType, NEW i \in DOMAIN o.status.nodes, NEW e \in NodeStatusType
  PROVE  LET u == Update(o, i, e)
         IN /\ u \in NMType
            /\ DOMAIN u.status.nodes = DOMAIN o.status.nodes
            /\ Len(u.status.nodes) = Len(o.status.nodes)
            /\ \A j \in DOMAIN o.status.nodes :
                 u.status.nodes[j] = IF j = i THEN e ELSE o.status.nodes[j]
            /\ u.status.phase = o.status.phase /\ u.spec = o.spec /\ u.rv = o.rv
<1> DEFINE s == o.status.nodes
           t == [s EXCEPT ![i] = e]
<1>1. s \in Seq(NodeStatusType) /\ i \in 1..Len(s) /\ DOMAIN s = 1..Len(s)
  BY EntriesType
<1>2. /\ t \in Seq(NodeStatusType)
      /\ Len(t) = Len(s)
      /\ \A j \in 1..Len(s) : t[j] = IF j = i THEN e ELSE s[j]
  BY <1>1, ExceptSeq
<1>3. Update(o, i, e) = [o EXCEPT !.status.nodes = t]
  BY DEF NMType, StatusType, Update
<1>4. DOMAIN t = DOMAIN s
  OBVIOUS
<1> DEFINE u == [o EXCEPT !.status.nodes = t]
<1> HIDE DEF t
<1>5. /\ u \in NMType
      /\ u.status.nodes = t
      /\ u.status.phase = o.status.phase /\ u.spec = o.spec /\ u.rv = o.rv
  BY <1>2, SetNodesType
<1> HIDE DEF u
<1>6. QED  BY <1>1, <1>2, <1>3, <1>4, <1>5 DEF u

(* EffectiveActions is a sequence of actions, and so is what follows in it. *)
LEMMA PlanType ==
  ASSUME NEW o \in NMType
  PROVE  /\ EffectiveActions(o.spec) \in Seq(ActionType)
         /\ \A i \in DOMAIN o.status.nodes : HasNext(o, i) => NextAction(o, i) \in ActionType
<1>1. EffectiveActions(o.spec) \in Seq(ActionType)
  <2>1. o.spec.actions \in Seq(ActionType)
    BY DEF NMType, SpecType
  <2>2. <<"Cordon", "Script", "Uncordon">> \in Seq(ActionType)
    BY DEF ActionType
  <2>3. <<>> \in Seq(ActionType)
    OBVIOUS
  <2>4. QED  BY <2>1, <2>2, <2>3, Zenon DEF EffectiveActions
<1>2. ASSUME NEW i \in DOMAIN o.status.nodes, HasNext(o, i)
      PROVE  NextAction(o, i) \in ActionType
  <2>1. o.status.nodes[i].completed \in Seq(ActionType)
    BY EntriesType DEF NodeStatusType
  <2>2. Len(o.status.nodes[i].completed) + 1 \in 1..Len(EffectiveActions(o.spec))
    BY <1>1, <1>2, <2>1, LenProperties DEF HasNext
  <2>3. QED  BY <1>1, <2>2, ElementOfSeq DEF NextAction
<1>3. QED  BY <1>1, <1>2

(* What advanceNode may leave in memory is well-formed, with the same entries *)
(* and the same spec; only an action that the plan has is started or recorded. *)
LEMMA AdvanceType ==
  ASSUME NEW o \in NMType, NEW i \in DOMAIN o.status.nodes,
         NEW o2, \/ o2 \in {Finish(o, i), failNode(o, i)}
                 \/ HasNext(o, i) /\ o2 \in {Start(o, i), Complete(o, i)}
  PROVE  /\ o2 \in NMType
         /\ DOMAIN o2.status.nodes = DOMAIN o.status.nodes
         /\ o2.spec = o.spec /\ o2.rv = o.rv
<1> DEFINE e == o.status.nodes[i]
<1>1. e \in NodeStatusType
  BY EntriesType
<1>2. \A d \in NodeStatusType : Completed(d) \in NodeStatusType
  BY DEF Completed, NodeStatusType, Phase
<1>3. [e EXCEPT !.phase = "Failed"] \in NodeStatusType
  BY <1>1 DEF NodeStatusType, Phase
<1>4. HasNext(o, i) => [e EXCEPT !.currentAction = NextAction(o, i)] \in NodeStatusType
  BY <1>1, PlanType DEF NodeStatusType
<1>5. HasNext(o, i) => Recorded(o, i) \in NodeStatusType
  <2>1. e.completed \in Seq(ActionType)
    BY <1>1 DEF NodeStatusType
  <2>2. HasNext(o, i) => Append(e.completed, NextAction(o, i)) \in Seq(ActionType)
    BY <2>1, PlanType, AppendProperties
  <2>3. QED  BY <1>1, <2>2 DEF NodeStatusType, Recorded
<1>6. \E d \in NodeStatusType : o2 = Update(o, i, d)
  <2>1. CASE o2 = Finish(o, i)
    BY <1>1, <1>2, <2>1 DEF Finish
  <2>2. CASE o2 = failNode(o, i)
    BY <1>3, <2>2 DEF failNode
  <2>3. CASE HasNext(o, i) /\ o2 = Start(o, i)
    BY <1>4, <2>3 DEF Start
  <2>4. CASE HasNext(o, i) /\ o2 = Complete(o, i)
    BY <1>2, <1>5, <2>4 DEF Complete
  <2>5. QED  BY <2>1, <2>2, <2>3, <2>4
<1>7. QED  BY <1>6, UpdateType

(* Starting an action records nothing: it is still the next one. *)
LEMMA StartKeepsNext ==
  ASSUME NEW o \in NMType, NEW i \in DOMAIN o.status.nodes, HasNext(o, i)
  PROVE  HasNext(Start(o, i), i)
<1> DEFINE e == o.status.nodes[i]
           d == [e EXCEPT !.currentAction = NextAction(o, i)]
<1>1. e \in NodeStatusType
  BY EntriesType
<1>2. d \in NodeStatusType /\ d.completed = e.completed
  BY <1>1, PlanType DEF NodeStatusType
<1> HIDE DEF d
<1>3. Update(o, i, d).status.nodes[i] = d /\ Update(o, i, d).spec = o.spec
  BY <1>2, UpdateType
<1>4. Start(o, i) = Update(o, i, d)
  BY DEF Start, d
<1>5. QED  BY <1>2, <1>3, <1>4 DEF HasNext

(* admit changes phases of entries only. *)
LEMMA PromoteType ==
  ASSUME NEW o \in NMType, NEW P
  PROVE  /\ Promote(o, P) \in NMType
         /\ DOMAIN Promote(o, P).status.nodes = DOMAIN o.status.nodes
         /\ Promote(o, P).spec = o.spec /\ Promote(o, P).rv = o.rv
<1> DEFINE s == o.status.nodes
           p(i) == [s[i] EXCEPT !.phase = IF i \in P THEN "InProgress" ELSE @]
           t == [i \in 1..Len(s) |-> p(i)]
<1>1. Len(s) \in Nat /\ DOMAIN s = 1..Len(s) /\ \A i \in 1..Len(s) : s[i] \in NodeStatusType
  BY EntriesType
<1>2. \A i \in 1..Len(s) : p(i) \in NodeStatusType
  BY <1>1 DEF NodeStatusType, Phase
<1> HIDE DEF p
<1>3. t \in Seq(NodeStatusType)
  BY <1>1, <1>2, IsASeq
<1>4. Promote(o, P) = [o EXCEPT !.status.nodes = t]
  BY DEF Promote, p
<1>5. DOMAIN t = DOMAIN s
  BY <1>1
<1> HIDE DEF t
<1>6. QED  BY <1>3, <1>4, <1>5, SetNodesType

(* rollup changes the run's phase only. *)
LEMMA RollupType ==
  ASSUME NEW o \in NMType
  PROVE  /\ rollup(o) \in NMType
         /\ rollup(o).status.nodes = o.status.nodes
         /\ rollup(o).status.phase # ""
         /\ rollup(o).spec = o.spec /\ rollup(o).rv = o.rv
BY DEF rollup, NMType, StatusType, RunPhase

(* Seeding writes a well-formed status. *)
LEMMA SeedType ==
  ASSUME NEW names \in Seq(Node)
  PROVE  Seed(names) \in StatusType
<1> DEFINE e(i) == [name |-> names[i], phase |-> "Pending",
                    currentAction |-> "", completed |-> <<>>]
<1>1. Len(names) \in Nat /\ \A i \in 1..Len(names) : names[i] \in Node
  BY LenProperties, ElementOfSeq
<1>2. \A i \in 1..Len(names) : e(i) \in NodeStatusType
  BY <1>1 DEF NodeStatusType, Phase
<1>3. [i \in 1..Len(names) |-> e(i)] \in Seq(NodeStatusType)
  <2> HIDE DEF e
  <2>1. QED  BY <1>1, <1>2, IsASeq
<1>4. QED  BY <1>3 DEF Seed, StatusType, RunPhase
==============================================================================
