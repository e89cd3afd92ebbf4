------------------------------- MODULE RunProofs -------------------------------
(***************************************************************************)
(* The controller implements the abstract run of RunLifecycle, for every   *)
(* set of nodes, controllers and specs and every bound.                    *)
(***************************************************************************)
EXTENDS ReconcilerProofs

(* What runActions works through when admit has promoted P. *)
InFlight(o, P) == InPhase(o.status, "InProgress") \cup P

(* Entry e records what entry d does. *)
SameRecord(d, e) == e.name = d.name /\ e.completed = d.completed

(* Entry e is what one pass of advanceNode makes of entry d under plan. *)
Advanced(plan, d, e) ==
  LET k == Len(d.completed)
  IN \/ SameRecord(d, e) /\ e.phase = "Failed"
     \/ SameRecord(d, e) /\ e.phase = "Completed" /\ k >= Len(plan)
     \/ /\ k < Len(plan)
        /\ e.name = d.name
        /\ e.completed = Append(d.completed, plan[k + 1])
        /\ e.phase = IF k + 1 = Len(plan) THEN "Completed" ELSE "InProgress"

(* Copy w is object o in the middle of a step that promoted P and has still *)
(* the entries in t to advance.                                             *)
MidStep(o, P, w, t) ==
  /\ Admits(o, P)
  /\ DOMAIN w.status.nodes = DOMAIN o.status.nodes
  /\ t \subseteq InFlight(o, P)
  /\ \A i \in t : /\ SameRecord(o.status.nodes[i], w.status.nodes[i])
                  /\ w.status.nodes[i].phase = "InProgress"
  /\ \A i \in InFlight(o, P) \ t :
       Advanced(EffectiveActions(o.spec), o.status.nodes[i], w.status.nodes[i])
  /\ \A i \in DOMAIN o.status.nodes \ InFlight(o, P) :
       w.status.nodes[i] = o.status.nodes[i]

(* The invariant that carries the refinement.  A resourceVersion names one *)
(* version of the object, so a worker whose copy carries the stored one    *)
(* started its pass from the stored object, and its write records exactly  *)
(* the pass it made.  A copy that carries an older one will conflict.      *)
Seeding(c) ==
  /\ IsUnseeded(obj)
  /\ \E names \in TargetLists : ResolvesTo(obj.spec, names) /\ nm[c].status = Seed(names)

Stepping(c) ==
  /\ ~IsTerminal(obj) /\ ~IsUnseeded(obj) /\ ~obj.spec.paused
  /\ \E P \in SUBSET InPhase(obj.status, "Pending") : MidStep(obj, P, nm[c], todo[c])

CopyFaithful(c) ==
  \/ nm[c] = NoNM
  \/ nm[c].rv < obj.rv
  \/ /\ nm[c].rv = obj.rv /\ nm[c].spec = obj.spec
     /\ IF pc[c] = "seed" THEN Seeding(c) ELSE Stepping(c)

VersionsNamed ==
  \A c \in Controller : \A k \in DOMAIN watch[c] :
    watch[c][k].rv < obj.rv \/ watch[c][k] = obj

RunInv ==
  /\ obj.status.phase = "" => IsUnseeded(obj)
  /\ VersionsNamed
  /\ \A c \in Controller : CopyFaithful(c)

------------------------------------------------------------------------------
(* A step in memory.                                                       *)

(* What advanceNode may make of the entry it is at. *)
LEMMA AdvanceEntry ==
  ASSUME NEW o \in NMType, NEW i \in DOMAIN o.status.nodes
  PROVE  LET d == o.status.nodes[i]
             plan == EffectiveActions(o.spec)
         IN \E f, x, s, r \in NodeStatusType :
              /\ Finish(o, i) = Update(o, i, f)
              /\ SameRecord(d, f) /\ f.phase = "Completed"
              /\ failNode(o, i) = Update(o, i, x)
              /\ SameRecord(d, x) /\ x.phase = "Failed"
              /\ HasNext(o, i) =>
                   /\ Start(o, i) = Update(o, i, s)
                   /\ SameRecord(d, s) /\ s.phase = d.phase
                   /\ Complete(o, i) = Update(o, i, r)
                   /\ r.name = d.name
                   /\ r.completed = Append(d.completed, plan[Len(d.completed) + 1])
                   /\ r.phase = IF Len(d.completed) + 1 = Len(plan) THEN "Completed"
                                                                   ELSE d.phase
<1> DEFINE d == o.status.nodes[i]
           plan == EffectiveActions(o.spec)
           f == Completed(d)
           x == [d EXCEPT !.phase = "Failed"]
<1>1. d \in NodeStatusType
  BY EntriesType
<1>2. \A e \in NodeStatusType :
        /\ Completed(e) \in NodeStatusType
        /\ SameRecord(e, Completed(e)) /\ Completed(e).phase = "Completed"
  BY DEF Completed, NodeStatusType, Phase, SameRecord
<1>3. x \in NodeStatusType /\ SameRecord(d, x) /\ x.phase = "Failed"
  BY <1>1 DEF NodeStatusType, Phase, SameRecord
<1>4. Finish(o, i) = Update(o, i, f) /\ failNode(o, i) = Update(o, i, x)
  BY DEF Finish, failNode
<1>5. CASE ~HasNext(o, i)
  BY <1>1, <1>2, <1>3, <1>4, <1>5
<1>6. CASE HasNext(o, i)
  <2> DEFINE s == [d EXCEPT !.currentAction = NextAction(o, i)]
             e == Recorded(o, i)
             k == Len(d.completed)
             r == IF k + 1 = Len(plan) THEN Completed(e) ELSE e
  <2>1. NextAction(o, i) \in ActionType /\ NextAction(o, i) = plan[k + 1]
    BY <1>6, PlanType DEF NextAction
  <2>2. s \in NodeStatusType /\ SameRecord(d, s) /\ s.phase = d.phase
    BY <1>1, <2>1 DEF NodeStatusType, SameRecord
  <2>3. /\ d.completed \in Seq(ActionType)
        /\ Append(d.completed, NextAction(o, i)) \in Seq(ActionType)
        /\ Len(Append(d.completed, NextAction(o, i))) = k + 1
        /\ k \in Nat
    <3>1. d.completed \in Seq(ActionType)
      BY <1>1 DEF NodeStatusType
    <3>2. QED  BY <2>1, <3>1, AppendProperties, LenProperties
  <2>4. /\ e \in NodeStatusType
        /\ e.name = d.name /\ e.phase = d.phase
        /\ e.completed = Append(d.completed, plan[k + 1])
    BY <1>1, <2>1, <2>3 DEF Recorded, NodeStatusType
  <2>5. Len(plan) \in Nat /\ k < Len(plan)
    BY <1>6, PlanType, LenProperties DEF HasNext
  <2>6. Complete(o, i) = Update(o, i, r)
    <3>1. Len(e.completed) = k + 1
      BY <2>1, <2>3, <2>4
    <3>2. (Len(e.completed) < Len(plan)) = (k + 1 # Len(plan))
      BY <2>3, <2>5, <3>1
    <3> HIDE DEF e
    <3>3. (IF Len(e.completed) < Len(plan) THEN e ELSE Completed(e)) = r
      BY <3>2
    <3>4. QED  BY <3>3 DEF Complete, e
  <2>7. /\ r \in NodeStatusType /\ r.name = d.name
        /\ r.completed = Append(d.completed, plan[k + 1])
        /\ r.phase = IF k + 1 = Len(plan) THEN "Completed" ELSE d.phase
    <3> HIDE DEF e
    <3>1. QED  BY <1>2, <2>4 DEF SameRecord
  <2>8. Start(o, i) = Update(o, i, s)
    BY DEF Start
  <2> HIDE DEF f, x, s, r
  <2>9. f \in NodeStatusType /\ SameRecord(d, f) /\ f.phase = "Completed"
    BY <1>1, <1>2 DEF f
  <2>10. QED  BY <1>3, <1>4, <2>2, <2>6, <2>7, <2>8, <2>9
<1>7. QED  BY <1>5, <1>6

(* admit and the choice of entries in flight begin a step. *)
LEMMA BeginMidStep ==
  ASSUME NEW o \in NMType, NEW P, Admits(o, P)
  PROVE  MidStep(o, P, Promote(o, P), InPhase(Promote(o, P).status, "InProgress"))
<1> DEFINE s == o.status.nodes
           p(i) == [s[i] EXCEPT !.phase = IF i \in P THEN "InProgress" ELSE @]
           w == Promote(o, P)
           t == InPhase(w.status, "InProgress")
<1>1. Len(s) \in Nat /\ DOMAIN s = 1..Len(s) /\ \A i \in 1..Len(s) : s[i] \in NodeStatusType
  BY EntriesType
<1>2. \A i \in 1..Len(s) :
        /\ SameRecord(s[i], p(i))
        /\ i \in P => p(i).phase = "InProgress"
        /\ i \notin P => p(i) = s[i]
  BY <1>1 DEF NodeStatusType, SameRecord
<1> HIDE DEF p
<1>3. w.status.nodes = [i \in 1..Len(s) |-> p(i)] /\ DOMAIN w.status.nodes = DOMAIN s
  <2>1. w.status.nodes = [i \in 1..Len(s) |-> p(i)]
    BY DEF Promote, NMType, StatusType, p
  <2>2. QED  BY <1>1, <2>1
<1>4. \A i \in 1..Len(s) : w.status.nodes[i] = p(i)
  BY <1>3
<1>5. Len(w.status.nodes) = Len(s)
  <2>1. w \in NMType
    BY PromoteType
  <2>2. DOMAIN w.status.nodes = 1..Len(w.status.nodes) /\ Len(w.status.nodes) \in Nat
    BY <2>1, EntriesType
  <2>3. \A m, n \in Nat : 1..m = 1..n => m = n
    OBVIOUS
  <2> HIDE DEF w
  <2>4. QED  BY <1>1, <1>3, <2>2, <2>3
<1>6. P \subseteq 1..Len(s) /\ InPhase(o.status, "InProgress") \subseteq 1..Len(s)
  BY DEF Admits, InPhase
<1>7. t = InFlight(o, P)
  <2>1. \A i \in 1..Len(s) : p(i).phase = "InProgress" <=> i \in InFlight(o, P)
    BY <1>2 DEF InFlight, InPhase
  <2>2. t = {i \in 1..Len(s) : p(i).phase = "InProgress"}
    BY <1>4, <1>5 DEF InPhase
  <2>3. QED  BY <1>6, <2>1, <2>2 DEF InFlight
<1>8. \A i \in t : i \in 1..Len(s) /\ SameRecord(s[i], w.status.nodes[i])
                   /\ w.status.nodes[i].phase = "InProgress"
  BY <1>2, <1>4, <1>5 DEF InPhase
<1>9. \A i \in DOMAIN s \ InFlight(o, P) : w.status.nodes[i] = s[i]
  BY <1>1, <1>2, <1>4 DEF InFlight
<1> HIDE DEF w, t
<1>10. MidStep(o, P, w, t)
  BY <1>3, <1>7, <1>8, <1>9 DEF MidStep
<1>11. QED  BY <1>10 DEF w, t

(* Starting an entry's action leaves the step where it is, and every way    *)
(* advanceNode has of ending with an entry advances it by what Advanced says. *)
LEMMA GoMidStep ==
  ASSUME NEW o \in NMType, NEW w \in NMType, NEW P, NEW t, MidStep(o, P, w, t),
         w.spec = o.spec, NEW i \in t, i \in DOMAIN w.status.nodes
  PROVE  /\ HasNext(w, i) => MidStep(o, P, Start(w, i), t)
         /\ \A w2 : \/ ~HasNext(w, i) /\ w2 = Finish(w, i)
                    \/ w2 = failNode(w, i)
                    \/ HasNext(w, i) /\ w2 = Complete(w, i)
                    => MidStep(o, P, w2, t \ {i})
<1> DEFINE d == w.status.nodes[i]
           b == o.status.nodes[i]
           plan == EffectiveActions(o.spec)
           k == Len(d.completed)
<1>1. SameRecord(b, d) /\ d.phase = "InProgress" /\ i \in InFlight(o, P)
  BY DEF MidStep
<1>2. Len(d.completed) \in Nat /\ Len(plan) \in Nat
  <2>1. d.completed \in Seq(ActionType) /\ plan \in Seq(ActionType)
    BY EntriesType, PlanType DEF NodeStatusType
  <2>2. QED  BY <2>1, LenProperties
<1>3. HasNext(w, i) <=> k < Len(plan)
  BY DEF HasNext
<1>4. PICK f, x, s, r \in NodeStatusType :
        /\ Finish(w, i) = Update(w, i, f)
        /\ SameRecord(d, f) /\ f.phase = "Completed"
        /\ failNode(w, i) = Update(w, i, x)
        /\ SameRecord(d, x) /\ x.phase = "Failed"
        /\ HasNext(w, i) =>
             /\ Start(w, i) = Update(w, i, s)
             /\ SameRecord(d, s) /\ s.phase = d.phase
             /\ Complete(w, i) = Update(w, i, r)
             /\ r.name = d.name
             /\ r.completed = Append(d.completed, plan[k + 1])
             /\ r.phase = IF k + 1 = Len(plan) THEN "Completed" ELSE d.phase
  BY AdvanceEntry
<1>5. \A e \in NodeStatusType :
        LET u == Update(w, i, e)
        IN /\ DOMAIN u.status.nodes = DOMAIN w.status.nodes
           /\ \A j \in DOMAIN w.status.nodes :
                u.status.nodes[j] = IF j = i THEN e ELSE w.status.nodes[j]
  BY UpdateType
<1>6. InFlight(o, P) \subseteq DOMAIN o.status.nodes /\ DOMAIN w.status.nodes = DOMAIN o.status.nodes
  BY EntriesType DEF MidStep, Admits, InFlight, InPhase
<1>7. ASSUME NEW e \in NodeStatusType, SameRecord(d, e), e.phase = "InProgress"
      PROVE  MidStep(o, P, Update(w, i, e), t)
  <2> DEFINE u == Update(w, i, e)
  <2>1. /\ DOMAIN u.status.nodes = DOMAIN w.status.nodes
        /\ \A j \in DOMAIN w.status.nodes :
             u.status.nodes[j] = IF j = i THEN e ELSE w.status.nodes[j]
    BY <1>5
  <2> HIDE DEF u
  <2>2. SameRecord(b, e)
    BY <1>1, <1>7 DEF SameRecord
  <2>3. MidStep(o, P, u, t)
    BY <1>6, <1>7, <2>1, <2>2 DEF MidStep
  <2>4. QED  BY <2>3 DEF u
<1>8. ASSUME NEW e \in NodeStatusType, Advanced(plan, b, e)
      PROVE  MidStep(o, P, Update(w, i, e), t \ {i})
  <2> DEFINE u == Update(w, i, e)
  <2>1. /\ DOMAIN u.status.nodes = DOMAIN w.status.nodes
        /\ \A j \in DOMAIN w.status.nodes :
             u.status.nodes[j] = IF j = i THEN e ELSE w.status.nodes[j]
    BY <1>5
  <2> HIDE DEF u
  <2>2. \A j \in InFlight(o, P) \ (t \ {i}) :
          Advanced(plan, o.status.nodes[j], u.status.nodes[j])
    BY <1>6, <1>8, <2>1 DEF MidStep
  <2>3. MidStep(o, P, u, t \ {i})
    BY <1>1, <1>6, <2>1, <2>2 DEF MidStep
  <2>4. QED  BY <2>3 DEF u
<1>9. Advanced(plan, b, x)
  BY <1>1, <1>4 DEF Advanced, SameRecord
<1>10. ~HasNext(w, i) => Advanced(plan, b, f)
  BY <1>1, <1>2, <1>3, <1>4 DEF Advanced, SameRecord
<1>11. HasNext(w, i) => Advanced(plan, b, r)
  BY <1>1, <1>2, <1>3, <1>4 DEF Advanced, SameRecord
<1>12. QED  BY <1>1, <1>4, <1>7, <1>8, <1>9, <1>10, <1>11

------------------------------------------------------------------------------
(* A write, seen as a step of the abstract run.                            *)

(* What the abstract run sees of an entry. *)
Shown(e) == [name |-> e.name, phase |-> e.phase, completed |-> e.completed]

LEMMA ShownFields ==
  ASSUME NEW e
  PROVE  Shown(e).name = e.name /\ Shown(e).phase = e.phase /\ Shown(e).completed = e.completed
BY DEF Shown

(* The plan and the budget of the abstract run are the orchestrator's. *)
LEMMA PlanAndBudget ==
  ASSUME obj \in NMType
  PROVE  RL!Plan = EffectiveActions(obj.spec) /\ RL!Budget = effectiveBudget(obj)
<1> DEFINE nodes == [i \in Entries |->
                       [name |-> Entry(i).name, phase |-> Entry(i).phase,
                        completed |-> Entry(i).completed]]
<1>1. Len(nodes) = Len(obj.status.nodes)
  <2>1. /\ DOMAIN nodes = 1..Len(obj.status.nodes)
        /\ Len(obj.status.nodes) \in Nat
    BY EntriesType DEF Entries
  <2> DEFINE rec == [i \in 1..Len(obj.status.nodes) |->
                       [name |-> Entry(i).name, phase |-> Entry(i).phase,
                        completed |-> Entry(i).completed]]
             T == {rec[i] : i \in 1..Len(obj.status.nodes)}
  <2>2. nodes = rec
    BY <2>1
  <2>3. rec \in Seq(T) /\ Len(rec) = Len(obj.status.nodes)
    BY <2>1, IsASeq
  <2>4. QED  BY <2>2, <2>3
<1>2. RL!Plan = EffectiveActions(obj.spec)
  BY DEF RL!Plan, EffectiveActions, NMType, SpecType
<1>3. obj.spec.maxUnavailable \in Nat /\ obj.spec.atOnce \in BOOLEAN
  BY DEF NMType, SpecType
<1> HIDE DEF nodes
<1>4. RL!Budget = CASE obj.spec.atOnce -> Len(nodes)
                    [] ~obj.spec.atOnce /\ obj.spec.maxUnavailable = 0 -> 1
                    [] OTHER -> obj.spec.maxUnavailable
  BY DEF RL!Budget, nodes
<1>5. QED  BY <1>1, <1>2, <1>3, <1>4 DEF effectiveBudget

(* The entries that a finished step advanced stay within the budget, unless *)
(* it admitted none.                                                        *)
LEMMA StepWithinBudget ==
  ASSUME NEW o \in NMType, NEW P \in SUBSET InPhase(o.status, "Pending"), Admits(o, P)
  PROVE  \/ InFlight(o, P) = InPhase(o.status, "InProgress")
         \/ Cardinality(InFlight(o, P)) <= effectiveBudget(o)
<1> DEFINE A == InPhase(o.status, "InProgress")
<1>1. IsFiniteSet(A) /\ IsFiniteSet(P)
  <2>1. Len(o.status.nodes) \in Nat
    BY EntriesType
  <2>2. IsFiniteSet(1..Len(o.status.nodes))
    BY <2>1, FS_Interval
  <2>3. A \subseteq 1..Len(o.status.nodes) /\ P \subseteq 1..Len(o.status.nodes)
    BY DEF InPhase
  <2>4. QED  BY <2>2, <2>3, FS_Subset
<1>2. A \cap P = {}
  BY DEF InPhase
<1>3. Cardinality(A \cup P) = Cardinality(A) + Cardinality(P)
  <2>1. Cardinality(A \cap P) = 0
    BY <1>2, FS_EmptySet
  <2>2. Cardinality(A) \in Nat /\ Cardinality(P) \in Nat
    BY <1>1, FS_CardinalityType
  <2>3. Cardinality(A \cup P) = Cardinality(A) + Cardinality(P) - Cardinality(A \cap P)
    BY <1>1, FS_Union
  <2> HIDE DEF A
  <2>4. QED  BY <2>1, <2>2, <2>3
<1>4. P # {} => Cardinality(A) + Cardinality(P) <= effectiveBudget(o)
  BY DEF Admits
<1>5. QED  BY <1>3, <1>4 DEF InFlight

(* An advanced entry differs from what it was, as the abstract run has it. *)
LEMMA AdvancedMoves ==
  ASSUME obj \in NMType, NEW d \in NodeStatusType, NEW e \in NodeStatusType,
         d.phase \in {"Pending", "InProgress"},
         Advanced(EffectiveActions(obj.spec), d, e)
  PROVE  RL!Moves(Shown(d), Shown(e)) /\ Shown(e) # Shown(d)
<1> DEFINE plan == EffectiveActions(obj.spec)
           k == Len(d.completed)
           m == Shown(d)
           n == Shown(e)
<1>1. /\ m.name = d.name /\ m.phase = d.phase /\ m.completed = d.completed
      /\ n.name = e.name /\ n.phase = e.phase /\ n.completed = e.completed
  BY ShownFields
<1>2. d.completed \in Seq(ActionType) /\ plan \in Seq(ActionType)
  BY PlanType DEF NodeStatusType
<1>3. k \in Nat /\ Len(plan) \in Nat
  BY <1>2, LenProperties
<1>4. RL!Plan = plan
  BY PlanAndBudget
<1> HIDE DEF k, plan, m, n
<1>5. RL!Moves(m, n)
  BY <1>1, <1>4 DEF RL!Moves, Advanced, SameRecord, k, plan
<1>6. ASSUME n = m PROVE FALSE
  <2>1. e.phase = d.phase /\ e.completed = d.completed
    BY <1>1, <1>6
  <2>2. k < Len(plan) /\ e.completed = Append(d.completed, plan[k + 1])
    BY <2>1 DEF Advanced, SameRecord, k, plan
  <2>3. plan[k + 1] \in ActionType
    <3>1. k + 1 \in 1..Len(plan)
      BY <1>3, <2>2
    <3>2. QED  BY <1>2, <3>1, ElementOfSeq
  <2>4. Len(Append(d.completed, plan[k + 1])) = k + 1
    BY <1>2, <2>3, AppendProperties DEF k
  <2>5. k = k + 1
    BY <2>1, <2>2, <2>4 DEF k
  <2>6. QED  BY <1>3, <2>5
<1>7. QED  BY <1>5, <1>6 DEF m, n

(* The write of a finished step is a step of the abstract run. *)
LEMMA WriteAdvances ==
  ASSUME obj \in NMType, NEW w \in NMType,
         NEW P \in SUBSET InPhase(obj.status, "Pending"), MidStep(obj, P, w, {}),
         obj.status.phase = "InProgress", ~obj.spec.paused,
         obj'.spec = obj.spec, obj'.status = rollup(w).status
  PROVE  RL!Advance
<1> DEFINE s == obj.status.nodes
           v == w.status.nodes
           nodes == [i \in Entries |->
                       [name |-> Entry(i).name, phase |-> Entry(i).phase,
                        completed |-> Entry(i).completed]]
<1>1. /\ Len(s) \in Nat /\ DOMAIN s = 1..Len(s)
      /\ \A i \in DOMAIN s : s[i] \in NodeStatusType /\ v[i] \in NodeStatusType
      /\ DOMAIN v = DOMAIN s /\ Len(v) = Len(s)
  <2>1. DOMAIN v = DOMAIN s
    BY DEF MidStep
  <2>2. /\ Len(s) \in Nat /\ DOMAIN s = 1..Len(s)
        /\ Len(v) \in Nat /\ DOMAIN v = 1..Len(v)
        /\ \A i \in DOMAIN s : s[i] \in NodeStatusType
        /\ \A i \in DOMAIN v : v[i] \in NodeStatusType
    BY EntriesType
  <2>3. \A m, n \in Nat : 1..m = 1..n => m = n
    OBVIOUS
  <2> HIDE DEF s, v
  <2>4. Len(v) = Len(s)
    BY <2>1, <2>2, <2>3
  <2>5. QED  BY <2>1, <2>2, <2>4
<1>2. obj'.status.nodes = v
  BY RollupType
<1>3. DOMAIN nodes = DOMAIN s /\ DOMAIN nodes' = DOMAIN s
  BY <1>1, <1>2 DEF Entries
<1>4. \A i \in DOMAIN s :
        nodes[i] = Shown(s[i]) /\ nodes'[i] = Shown(v[i])
  BY <1>1, <1>2 DEF Entries, Entry, Shown
<1>5. InFlight(obj, P) \subseteq DOMAIN s
      /\ \A i \in InFlight(obj, P) : s[i].phase \in {"Pending", "InProgress"}
  BY <1>1 DEF InFlight, InPhase
<1>6. \A i \in InFlight(obj, P) : Advanced(EffectiveActions(obj.spec), s[i], v[i])
  BY DEF MidStep
<1>7. \A i \in DOMAIN s \ InFlight(obj, P) : v[i] = s[i]
  BY DEF MidStep
<1>8. PICK old, new : old = nodes /\ new = nodes'
  OBVIOUS
<1>9. /\ DOMAIN old = DOMAIN s /\ DOMAIN new = DOMAIN s
      /\ \A i \in DOMAIN s : old[i] = Shown(s[i]) /\ new[i] = Shown(v[i])
  BY <1>3, <1>4, <1>8
<1> DEFINE moved == {i \in DOMAIN old : new[i] # old[i]}
<1>10. \A i \in InFlight(obj, P) : RL!Moves(old[i], new[i]) /\ new[i] # old[i]
  BY <1>1, <1>5, <1>6, <1>9, AdvancedMoves
<1> HIDE DEF nodes
<1>11. moved = InFlight(obj, P)
  BY <1>5, <1>7, <1>9, <1>10
<1>12. RL!InFlight = InPhase(obj.status, "InProgress")
  <2>1. RL!InFlight = {i \in DOMAIN old : old[i].phase = "InProgress"}
    BY <1>8 DEF RL!InFlight, nodes
  <2>2. \A i \in DOMAIN s : old[i].phase = s[i].phase
    BY <1>9, ShownFields
  <2>3. QED  BY <1>1, <1>9, <2>1, <2>2 DEF InPhase
<1>13. moved # RL!InFlight => Cardinality(moved) <= RL!Budget
  BY <1>11, <1>12, PlanAndBudget, StepWithinBudget DEF MidStep
<1>14. RL!InFlight \subseteq moved /\ \A i \in moved : RL!Moves(old[i], new[i])
  BY <1>10, <1>11, <1>12 DEF InFlight
<1>15. obj'.status.phase =
         IF \E i \in DOMAIN old : new[i].phase \notin Terminal THEN "InProgress"
         ELSE IF \E i \in DOMAIN old : new[i].phase = "Failed" THEN "Failed"
         ELSE "Completed"
  <2>1. \A i \in DOMAIN s : new[i].phase = v[i].phase /\ v[i].phase \in Phase
    BY <1>1, <1>9, ShownFields DEF NodeStatusType
  <2>2. \A p : InPhase(w.status, p) = {i \in DOMAIN s : v[i].phase = p}
    BY <1>1 DEF InPhase
  <2>3. InPhase(w.status, "Pending") \cup InPhase(w.status, "InProgress") # {}
          <=> \E i \in DOMAIN old : new[i].phase \notin Terminal
    <3>1. \A i \in DOMAIN s : v[i].phase \in {"Pending", "InProgress"} <=> new[i].phase \notin Terminal
      BY <2>1 DEF Phase, Terminal
    <3>2. InPhase(w.status, "Pending") \cup InPhase(w.status, "InProgress")
            = {i \in DOMAIN s : v[i].phase \in {"Pending", "InProgress"}}
      BY <2>2
    <3>3. QED  BY <1>9, <3>1, <3>2
  <2>4. InPhase(w.status, "Failed") # {} <=> \E i \in DOMAIN old : new[i].phase = "Failed"
    BY <1>9, <2>1, <2>2
  <2>5. rollup(w).status.phase =
          IF InPhase(w.status, "Pending") \cup InPhase(w.status, "InProgress") # {}
            THEN "InProgress"
          ELSE IF InPhase(w.status, "Failed") # {} THEN "Failed"
          ELSE "Completed"
    BY DEF rollup, NMType, StatusType
  <2>6. QED  BY <2>3, <2>4, <2>5
<1>16. QED
  <2>1. Cardinality(moved) = RL!Cardinality(moved)
    BY Zenon DEF Cardinality, RL!Cardinality
  <2>2. /\ DOMAIN new = DOMAIN old
        /\ RL!InFlight \subseteq moved
        /\ \A i \in moved : RL!Moves(old[i], new[i])
        /\ moved # RL!InFlight => RL!Cardinality(moved) <= RL!Budget
    BY <1>9, <1>13, <1>14, <2>1
  <2> HIDE DEF s, v
  <2>3. QED  BY <1>8, <1>15, <2>2, Zenon DEF RL!Advance, RL!Terminal, Terminal, nodes

(* A sorted copy has the same names. *)
LEMMA CopyNames ==
  ASSUME NEW names \in Seq(Node), NEW of \in Seq(Node), IsSortedCopy(names, of)
  PROVE  {names[i] : i \in 1..Len(names)} = {of[k] : k \in 1..Len(of)}
<1> DEFINE At1(s, n) == {i \in 1..Len(s) : s[i] = n}
<1>1. ASSUME NEW s \in Seq(Node), NEW n
      PROVE  IsFiniteSet(At1(s, n))
  <2>1. Len(s) \in Nat
    BY LenProperties
  <2>2. IsFiniteSet(1..Len(s))
    BY <2>1, FS_Interval
  <2>3. At1(s, n) \in SUBSET (1..Len(s))
    OBVIOUS
  <2> HIDE DEF At1
  <2>4. QED  BY <2>2, <2>3, FS_Subset
<1>2. \A n \in Node : Cardinality(At1(names, n)) = Cardinality(At1(of, n))
  BY DEF IsSortedCopy
<1>3. \A n \in Node : At1(names, n) = {} <=> At1(of, n) = {}
  <2> HIDE DEF At1
  <2>1. QED  BY <1>1, <1>2, FS_EmptySet
<1>4. /\ \A i \in 1..Len(names) : names[i] \in Node
      /\ \A k \in 1..Len(of) : of[k] \in Node
  BY ElementOfSeq
<1>5. QED  BY <1>3, <1>4

(* The write of a seeded status resolves the targets of the abstract run. *)
LEMMA WriteResolves ==
  ASSUME obj \in NMType, IsUnseeded(obj), NEW names \in Seq(Node),
         ResolvesTo(obj.spec, names),
         obj'.spec = obj.spec, obj'.status = Seed(names)
  PROVE  RL!Resolve
<1> DEFINE v == obj'.status.nodes
           nodes == [i \in Entries |->
                       [name |-> Entry(i).name, phase |-> Entry(i).phase,
                        completed |-> Entry(i).completed]]
           fresh(n) == [name |-> n, phase |-> "Pending", completed |-> <<>>]
<1>1. /\ Len(names) \in Nat /\ DOMAIN names = 1..Len(names)
      /\ \A i \in 1..Len(names) : names[i] \in Node
  BY LenProperties, ElementOfSeq
<1>2. v = [i \in 1..Len(names) |-> [name |-> names[i], phase |-> "Pending",
                                    currentAction |-> "", completed |-> <<>>]]
  <2>1. Seed(names).nodes
          = [i \in 1..Len(names) |-> [name |-> names[i], phase |-> "Pending",
                                      currentAction |-> "", completed |-> <<>>]]
    BY DEF Seed
  <2>2. QED  BY <2>1
<1>3. PICK new : new = nodes'
  OBVIOUS
<1>4. /\ DOMAIN new = 1..Len(names)
      /\ \A i \in 1..Len(names) : new[i] = fresh(names[i])
  <2> HIDE DEF v
  <2>1. DOMAIN v = 1..Len(names)
        /\ \A i \in 1..Len(names) :
             v[i].name = names[i] /\ v[i].phase = "Pending" /\ v[i].completed = <<>>
    BY <1>2
  <2>2. QED  BY <1>3, <2>1 DEF Entries, Entry, v
<1>5. \A n : fresh(n).name = n
  OBVIOUS
<1> HIDE DEF nodes, v, fresh
<1>6. \A i \in 1..Len(names) : new[i].name = names[i] /\ new[i] = fresh(new[i].name)
  BY <1>4, <1>5
<1>7. new = <<>> <=> names = <<>>
  <2> DEFINE T == {new[i] : i \in 1..Len(names)}
             f == [i \in 1..Len(names) |-> new[i]]
  <2>1. f \in Seq(T) /\ Len(f) = Len(names)
    BY <1>1, IsASeq
  <2>2. new = f
    BY <1>3, <1>4 DEF nodes
  <2>3. new \in Seq(T) /\ Len(new) = Len(names)
    BY <2>1, <2>2
  <2> HIDE DEF T
  <2>4. new = <<>> <=> Len(new) = 0
    BY <2>3, EmptySeq
  <2>5. names = <<>> <=> Len(names) = 0
    BY EmptySeq
  <2>6. QED  BY <2>3, <2>4, <2>5
<1>8. obj.status.phase = ""
  <2>1. Unseeded.phase = ""
    BY DEF Unseeded
  <2>2. QED  BY <2>1 DEF IsUnseeded
<1>9. obj'.status.phase = IF new = <<>> THEN "Completed" ELSE "InProgress"
  <2>1. Seed(names).phase = IF names = <<>> THEN "Completed" ELSE "InProgress"
    BY DEF Seed
  <2>2. QED  BY <1>7, <2>1
<1>10. \A i, j \in 1..Len(names) : i < j => names[i] <= names[j]
  <2>1. IsListing(names) => \A i, j \in 1..Len(names) : i < j => names[i] <= names[j]
    <3>1. \A i \in 1..Len(names) : names[i] \in Nat
      BY <1>1, NodeAssumption DEF NodeAssumption
    <3>2. \A m, n \in Nat : m < n => m <= n
      OBVIOUS
    <3>3. QED  BY <3>1, <3>2 DEF IsListing
  <2>2. names = <<>> => \A i, j \in 1..Len(names) : i < j => names[i] <= names[j]
    BY EmptySeq
  <2>3. QED  BY <2>1, <2>2 DEF ResolvesTo, IsSortedCopy, Sorted
<1>11. ~obj.spec.allNodes /\ obj.spec.nodeNames # <<>> =>
         {new[i].name : i \in DOMAIN new}
           = {obj.spec.nodeNames[k] : k \in DOMAIN obj.spec.nodeNames}
  <2>1. obj.spec.nodeNames \in Seq(Node)
    BY DEF NMType, SpecType
  <2>2. DOMAIN obj.spec.nodeNames = 1..Len(obj.spec.nodeNames)
    BY <2>1, LenProperties
  <2>3. ~obj.spec.allNodes /\ obj.spec.nodeNames # <<>>
          => IsSortedCopy(names, obj.spec.nodeNames)
    BY DEF ResolvesTo
  <2>4. {new[i].name : i \in DOMAIN new} = {names[i] : i \in 1..Len(names)}
    BY <1>4, <1>6
  <2>5. QED  BY <2>1, <2>2, <2>3, <2>4, CopyNames
<1>12. ~obj.spec.allNodes /\ obj.spec.nodeNames = <<>> /\ ~obj.spec.nodeSelector => new = <<>>
  BY <1>7 DEF ResolvesTo
<1>13. \A i \in DOMAIN new :
         new[i] = [name |-> new[i].name, phase |-> "Pending", completed |-> <<>>]
  BY <1>4, <1>6, Zenon DEF fresh
<1>14. \A i, j \in DOMAIN new : i < j => new[i].name <= new[j].name
  BY <1>4, <1>6, <1>10
<1>15. QED
  <2>1. /\ \A i \in DOMAIN nodes' :
             nodes'[i] = [name |-> nodes'[i].name, phase |-> "Pending", completed |-> <<>>]
        /\ \A i, j \in DOMAIN nodes' : i < j => nodes'[i].name <= nodes'[j].name
        /\ ~obj.spec.allNodes /\ obj.spec.nodeNames # <<>> =>
             {nodes'[i].name : i \in DOMAIN nodes'}
               = {obj.spec.nodeNames[k] : k \in DOMAIN obj.spec.nodeNames}
        /\ ~obj.spec.allNodes /\ obj.spec.nodeNames = <<>> /\ ~obj.spec.nodeSelector
             => nodes' = <<>>
        /\ obj'.status.phase = IF nodes' = <<>> THEN "Completed" ELSE "InProgress"
    BY <1>3, <1>9, <1>11, <1>12, <1>13, <1>14, Zenon
  <2>2. QED  BY <1>8, <2>1, Zenon DEF RL!Resolve, RL!Names, nodes

------------------------------------------------------------------------------
(* The invariant, step by step.                                            *)

(* advanceNode either goes on with the entry it is at, which is then as it *)
(* was or started, or is done with it in one of three ways.                *)
LEMMA AdvanceShape ==
  ASSUME TypeOK, NEW c \in Controller, NEW i \in todo[c], Advance(c, i)
  PROVE  /\ UNCHANGED <<obj, watch>>
         /\ nm[c] \in NMType /\ i \in DOMAIN nm[c].status.nodes
         /\ pc[c] # "seed" /\ pc'[c] # "seed"
         /\ \/ /\ todo'[c] = todo[c]
               /\ nm'[c] = nm[c] \/ (HasNext(nm[c], i) /\ nm'[c] = Start(nm[c], i))
            \/ /\ todo'[c] = todo[c] \ {i}
               /\ \/ ~HasNext(nm[c], i) /\ nm'[c] = Finish(nm[c], i)
                  \/ nm'[c] = failNode(nm[c], i)
                  \/ HasNext(nm[c], i) /\ nm'[c] = Complete(nm[c], i)
<1> USE DEF TypeOK
<1>1. UNCHANGED <<obj, watch>>
  BY DEF Advance, NothingLeft, GetNode, GetNodeFails, Cordon, Uncordon, Drain,
    ExecuteFails, RequireScript, PrepareScript, PrepareScriptFails, EnsurePod,
    EnsurePodFails, WaitForPod, WaitForPodFails, GcPod
<1>2. PICK p \in {"step", "execute", "pod", "wait", "gc"} : At(c, p, i)
  BY DEF Advance, NothingLeft, GetNode, GetNodeFails, Cordon, Uncordon, Drain,
    ExecuteFails, RequireScript, PrepareScript, PrepareScriptFails, EnsurePod,
    EnsurePodFails, WaitForPod, WaitForPodFails, GcPod, Executing
<1>3. /\ nm[c] \in NMType /\ i \in DOMAIN nm[c].status.nodes
      /\ p \in Busy => HasNext(nm[c], i)
      /\ pc[c] = p /\ pc[c] # "seed"
      /\ p = "step" \/ p \in Busy
  BY <1>2, AtType DEF Busy, At
<1>4. \A o : Leave(c, i, o) => /\ nm'[c] = o /\ todo'[c] = todo[c] \ {i} /\ pc'[c] # "seed"
  BY DEF Leave, WorkerOK
<1>5. CASE NothingLeft(c, i)
  BY <1>1, <1>3, <1>4, <1>5 DEF NothingLeft
<1>6. CASE GetNode(c, i)
  BY <1>1, <1>3, <1>6 DEF GetNode, Continue, WorkerOK
<1>7. CASE \/ GetNodeFails(c, i) \/ ExecuteFails(c, i) \/ RequireScript(c, i)
           \/ PrepareScriptFails(c, i) \/ EnsurePodFails(c, i) \/ WaitForPodFails(c, i)
  <2>1. Fail(c, i)
    BY <1>7 DEF GetNodeFails, ExecuteFails, RequireScript, PrepareScriptFails,
      EnsurePodFails, WaitForPodFails
  <2>2. QED  BY <1>1, <1>3, <1>4, <2>1 DEF Fail
<1>8. CASE Cordon(c, i) \/ Uncordon(c, i) \/ Drain(c, i)
  <2>1. Succeed(c, i) /\ HasNext(nm[c], i)
    BY <1>2, <1>3, <1>8 DEF Cordon, Uncordon, Drain, Executing, At, Busy
  <2>2. QED  BY <1>1, <1>3, <1>4, <2>1 DEF Succeed
<1>9. CASE GcPod(c, i)
  <2>1. HasNext(nm[c], i) /\ (Succeed(c, i) \/ Fail(c, i))
    BY <1>2, <1>3, <1>9 DEF GcPod, At, Busy
  <2>2. QED  BY <1>1, <1>3, <1>4, <2>1 DEF Succeed, Fail
<1>10. CASE PrepareScript(c, i) \/ EnsurePod(c, i) \/ WaitForPod(c, i)
  BY <1>1, <1>3, <1>10 DEF PrepareScript, EnsurePod, WaitForPod, Continue, WorkerOK
<1>11. QED  BY <1>5, <1>6, <1>7, <1>8, <1>9, <1>10 DEF Advance

(* A write gives the object a resourceVersion that no copy has. *)
LEMMA WriteFields ==
  ASSUME StoreOK, NEW new \in NMType, Write(new)
  PROVE  /\ obj' \in NMType
         /\ obj'.spec = new.spec /\ obj'.status = new.status
         /\ obj.rv \in Nat /\ obj'.rv = obj.rv + 1
         /\ obj.rv < obj'.rv /\ \A r \in Nat : r < obj.rv => r < obj'.rv
<1>1. obj' \in NMType /\ obj.rv \in Nat
  BY WriteType DEF StoreOK, NMType
<1>2. obj'.spec = new.spec /\ obj'.status = new.status /\ obj'.rv = obj.rv + 1
  BY DEF Write, NMType
<1>4. \A r, m, n \in Nat : n = m + 1 => m < n /\ (r < m => r < n)
  OBVIOUS
<1>5. obj'.rv \in Nat
  BY <1>1 DEF NMType
<1>6. QED  BY <1>1, <1>2, <1>4, <1>5

LEMMA WriteNamesVersion ==
  ASSUME StoreOK, VersionsNamed, NEW new \in NMType, Write(new)
  PROVE  VersionsNamed'
<1> SUFFICES ASSUME NEW c \in Controller, NEW k \in DOMAIN watch'[c]
             PROVE  watch'[c][k].rv < obj'.rv \/ watch'[c][k] = obj'
  BY DEF VersionsNamed
<1>1. watch[c] \in Seq(NMType) /\ watch'[c] = Append(watch[c], obj') /\ obj' \in NMType
  BY WriteFields DEF StoreOK, Write
<1>2. /\ Len(watch'[c]) = Len(watch[c]) + 1 /\ watch'[c] \in Seq(NMType)
      /\ \A j \in 1..Len(watch[c]) : watch'[c][j] = watch[c][j]
      /\ watch'[c][Len(watch[c]) + 1] = obj'
  BY <1>1, AppendProperties
<1>3. /\ DOMAIN watch[c] = 1..Len(watch[c]) /\ Len(watch[c]) \in Nat
      /\ k \in 1..(Len(watch[c]) + 1)
  BY <1>1, <1>2, LenProperties
<1>4. CASE k = Len(watch[c]) + 1
  BY <1>2, <1>4
<1>5. CASE k # Len(watch[c]) + 1
  <2>1. k \in 1..Len(watch[c])
    BY <1>3, <1>5
  <2>2. watch[c][k] \in NMType
    BY <1>1, <2>1, ElementOfSeq
  <2>3. watch[c][k].rv \in Nat
    BY <2>2 DEF NMType
  <2>4. watch[c][k].rv < obj.rv \/ watch[c][k] = obj
    BY <1>3, <2>1 DEF VersionsNamed
  <2>5. watch[c][k].rv < obj'.rv
    BY <2>3, <2>4, WriteFields
  <2>6. QED  BY <1>2, <2>1, <2>5
<1>6. QED  BY <1>4, <1>5

(* It makes every copy in a worker's hands an old one. *)
LEMMA CopyOutdated ==
  ASSUME StoreOK, WorkerOK, NEW c \in Controller, CopyFaithful(c),
         NEW new \in NMType, Write(new), nm'[c] = nm[c]
  PROVE  CopyFaithful(c)'
<1>1. CASE nm[c] = NoNM
  BY <1>1 DEF CopyFaithful
<1>2. CASE nm[c] # NoNM
  <2>1. nm[c] \in NMType
    BY <1>2 DEF WorkerOK
  <2>2. nm[c].rv \in Nat
    BY <2>1 DEF NMType
  <2>3. nm[c].rv < obj.rv \/ nm[c].rv = obj.rv
    BY <1>2 DEF CopyFaithful
  <2>4. nm[c].rv < obj'.rv
    BY <2>2, <2>3, WriteFields
  <2>5. QED  BY <2>4 DEF CopyFaithful
<1>3. QED  BY <1>1, <1>2

LEMMA CopyKept ==
  ASSUME NEW c \in Controller, CopyFaithful(c), UNCHANGED obj,
         pc'[c] = pc[c], nm'[c] = nm[c], todo'[c] = todo[c]
  PROVE  CopyFaithful(c)'
BY DEF CopyFaithful, Seeding, Stepping

LEMMA CopyDropped ==
  ASSUME NEW c \in Controller, nm'[c] = NoNM
  PROVE  CopyFaithful(c)'
BY DEF CopyFaithful

(* What a worker reads from its cache is the stored object or older. *)
LEMMA CachedVersion ==
  ASSUME StoreOK, VersionsNamed, NEW c \in Controller
  PROVE  Cached(c).rv < obj.rv \/ Cached(c) = obj
<1>1. watch[c] \in Seq(NMType) /\ watch[c] # <<>>
  BY DEF StoreOK
<1>2. 1 \in DOMAIN watch[c] /\ Cached(c) = watch[c][1]
  BY <1>1, HeadTailProperties, EmptySeq, LenProperties DEF Cached
<1>3. QED  BY <1>2 DEF VersionsNamed

(* What a worker with a current copy writes is a step of the abstract run, *)
(* and no run is written back unseeded.                                    *)
LEMMA WriteIsStep ==
  ASSUME TypeOK, RunInv, NEW c \in Controller, Persisting(c), IsCurrent(c),
         Write([obj EXCEPT !.status = Written(c).status])
  PROVE  /\ RL!Resolve \/ RL!Advance
         /\ obj'.status.phase # ""
<1> DEFINE new == [obj EXCEPT !.status = Written(c).status]
<1> USE DEF TypeOK
<1>1. nm[c] \in NMType /\ Written(c) \in NMType /\ new \in NMType
  BY WrittenType
<1>2. obj \in NMType
  BY DEF StoreOK
<1>3. new.spec = obj.spec /\ new.status = Written(c).status
  BY <1>2 DEF NMType
<1> HIDE DEF new
<1>4. Write(new)
  BY DEF new
<1>5. obj'.spec = obj.spec /\ obj'.status = Written(c).status
  BY <1>1, <1>3, <1>4, WriteFields
<1>6. /\ nm[c].rv = obj.rv /\ nm[c].spec = obj.spec
      /\ IF pc[c] = "seed" THEN Seeding(c) ELSE Stepping(c)
  <2>1. nm[c] # NoNM
    BY <1>1, ReconcilerAssumption DEF ReconcilerAssumption
  <2>2. nm[c].rv = obj.rv /\ obj.rv \in Nat
    BY <1>2 DEF IsCurrent, NMType
  <2>3. \A n \in Nat : ~(n < n)
    OBVIOUS
  <2>4. ~(nm[c].rv < obj.rv)
    BY <2>2, <2>3
  <2>5. CopyFaithful(c)
    BY DEF RunInv
  <2>6. QED  BY <2>1, <2>4, <2>5 DEF CopyFaithful
<1>7. CASE pc[c] = "seed"
  <2>1. PICK names \in TargetLists : ResolvesTo(obj.spec, names) /\ nm[c].status = Seed(names)
    BY <1>6, <1>7 DEF Seeding
  <2>2. names \in Seq(Node)
    BY ReconcilerAssumption DEF ReconcilerAssumption
  <2>3. obj'.status = Seed(names)
    BY <1>5, <1>7, <2>1 DEF Written
  <2>4. IsUnseeded(obj)
    BY <1>6, <1>7 DEF Seeding
  <2>5. RL!Resolve
    BY <1>2, <1>5, <2>1, <2>2, <2>3, <2>4, WriteResolves
  <2>6. Seed(names).phase # ""
    BY DEF Seed
  <2>7. QED  BY <2>3, <2>5, <2>6
<1>8. CASE pc[c] # "seed"
  <2>1. todo[c] = {} /\ Written(c) = rollup(nm[c])
    BY <1>8 DEF Persisting, Written
  <2>2. PICK P \in SUBSET InPhase(obj.status, "Pending") : MidStep(obj, P, nm[c], {})
    BY <1>6, <1>8, <2>1 DEF Stepping
  <2>3. ~obj.spec.paused /\ ~IsTerminal(obj) /\ ~IsUnseeded(obj)
    BY <1>6, <1>8 DEF Stepping
  <2>4. obj.status.phase = "InProgress"
    BY <1>2, <2>3 DEF RunInv, IsTerminal, Terminal, NMType, StatusType, RunPhase
  <2>5. RL!Advance
    BY <1>1, <1>2, <1>5, <2>1, <2>2, <2>3, <2>4, WriteAdvances
  <2>6. obj'.status.phase # ""
    <3>1. rollup(nm[c]).status.phase # ""
      BY <1>1, RollupType
    <3>2. QED  BY <1>5, <2>1, <3>1
  <2>7. QED  BY <2>5, <2>6
<1>9. QED  BY <1>7, <1>8

(* The reconcile loop outside advanceNode. *)
LEMMA PassRun ==
  ASSUME TypeOK, RunInv, NEW c \in Controller,
         \/ ReturnIfTerminal(c) \/ SeedStatus(c) \/ HoldPaused(c) \/ BeginStep(c)
         \/ UpdateStatus(c) \/ UpdateConflicts(c) \/ UpdateFails(c) \/ Crash(c)
         \/ Deliver(c)
  PROVE  /\ RunInv'
         /\ UNCHANGED obj \/ RL!Resolve \/ RL!Advance
<1> USE DEF TypeOK
<1>1. Cached(c) \in NMType /\ (Cached(c).rv < obj.rv \/ Cached(c) = obj)
  BY CachedType, CachedVersion DEF RunInv
<1>2. \A d \in Controller \ {c} :
        pc'[d] = pc[d] /\ nm'[d] = nm[d] /\ todo'[d] = todo[d] /\ seen'[d] = seen[d]
  BY OthersKept DEF Reconcile
<1>3. ASSUME UNCHANGED obj, VersionsNamed', CopyFaithful(c)'
      PROVE  RunInv'
  <2>1. \A d \in Controller \ {c} : CopyFaithful(d)'
    BY <1>2, <1>3, CopyKept DEF RunInv
  <2>2. QED  BY <1>3, <2>1 DEF RunInv, IsUnseeded
<1>4. ASSUME UNCHANGED <<obj, watch>> PROVE VersionsNamed'
  BY <1>4 DEF RunInv, VersionsNamed
<1>5. CASE ReturnIfTerminal(c) \/ HoldPaused(c)
  <2>1. UNCHANGED <<obj, watch, pc, nm, todo>>
    BY <1>5 DEF ReturnIfTerminal, HoldPaused, worker
  <2>2. CopyFaithful(c)'
    BY <2>1, CopyKept DEF RunInv
  <2>3. QED  BY <1>3, <1>4, <2>1, <2>2
<1>6. CASE SeedStatus(c)
  <2>1. PICK names \in TargetLists :
          /\ ResolvesTo(Cached(c).spec, names)
          /\ nm' = [nm EXCEPT ![c] = [Cached(c) EXCEPT !.status = Seed(names)]]
    BY <1>6 DEF SeedStatus
  <2>2. /\ nm'[c].rv = Cached(c).rv /\ nm'[c].spec = Cached(c).spec
        /\ nm'[c].status = Seed(names)
    BY <1>1, <2>1 DEF WorkerOK, NMType
  <2>3. UNCHANGED <<obj, watch>> /\ pc'[c] = "seed" /\ IsUnseeded(Cached(c))
    BY <1>6 DEF SeedStatus, WorkerOK
  <2>4. CopyFaithful(c)'
    <3>1. CASE Cached(c).rv < obj.rv
      BY <2>2, <2>3, <3>1 DEF CopyFaithful
    <3>2. CASE Cached(c) = obj
      BY <2>1, <2>2, <2>3, <3>2 DEF CopyFaithful, Seeding, IsUnseeded
    <3>3. QED  BY <1>1, <3>1, <3>2
  <2>5. QED  BY <1>3, <1>4, <2>3, <2>4
<1>7. CASE BeginStep(c)
  <2>1. PICK P \in SUBSET InPhase(Cached(c).status, "Pending") :
          /\ Admits(Cached(c), P)
          /\ nm' = [nm EXCEPT ![c] = Promote(Cached(c), P)]
          /\ todo' = [todo EXCEPT ![c] = InPhase(nm'[c].status, "InProgress")]
    BY <1>7 DEF BeginStep
  <2>2. /\ nm'[c] = Promote(Cached(c), P)
        /\ todo'[c] = InPhase(Promote(Cached(c), P).status, "InProgress")
    BY <2>1 DEF WorkerOK
  <2>3. nm'[c].rv = Cached(c).rv /\ nm'[c].spec = Cached(c).spec
    BY <1>1, <2>2, PromoteType
  <2>4. MidStep(Cached(c), P, nm'[c], todo'[c])
    BY <1>1, <2>1, <2>2, BeginMidStep
  <2>5. UNCHANGED <<obj, watch>> /\ pc'[c] = "step"
    BY <1>7 DEF BeginStep, WorkerOK
  <2>6. ~IsTerminal(Cached(c)) /\ ~IsUnseeded(Cached(c)) /\ ~Cached(c).spec.paused
    BY <1>7 DEF BeginStep
  <2>7. CopyFaithful(c)'
    <3>1. CASE Cached(c).rv < obj.rv
      BY <2>3, <2>5, <3>1 DEF CopyFaithful
    <3>2. CASE Cached(c) = obj
      BY <2>1, <2>3, <2>4, <2>5, <2>6, <3>2 DEF CopyFaithful, Stepping, IsTerminal, IsUnseeded
    <3>3. QED  BY <1>1, <3>1, <3>2
  <2>8. QED  BY <1>3, <1>4, <2>5, <2>7
<1>8. ASSUME Persisting(c), IsCurrent(c), nm'[c] = NoNM,
             Write([obj EXCEPT !.status = Written(c).status])
      PROVE  RunInv' /\ (RL!Resolve \/ RL!Advance)
  <2> DEFINE new == [obj EXCEPT !.status = Written(c).status]
  <2>1. new \in NMType
    BY <1>8, WrittenType
  <2> HIDE DEF new
  <2>2. Write(new)
    BY <1>8 DEF new
  <2>3. VersionsNamed'
    BY <2>1, <2>2, WriteNamesVersion DEF RunInv
  <2>4. \A d \in Controller \ {c} : CopyFaithful(d)'
    BY <1>2, <2>1, <2>2, CopyOutdated DEF RunInv
  <2>5. CopyFaithful(c)'
    BY <1>8, CopyDropped
  <2>6. obj'.status.phase # "" /\ (RL!Resolve \/ RL!Advance)
    BY <1>8, WriteIsStep
  <2>7. QED  BY <2>3, <2>4, <2>5, <2>6 DEF RunInv
<1>9. CASE UpdateStatus(c) \/ UpdateConflicts(c) \/ UpdateFails(c)
  <2>1. nm'[c] = NoNM /\ Persisting(c)
    BY <1>9 DEF UpdateStatus, UpdateConflicts, UpdateFails, EndPass, WorkerOK
  <2>2. CASE UNCHANGED <<obj, watch>>
    BY <1>3, <1>4, <2>1, <2>2, CopyDropped
  <2>3. CASE ~UNCHANGED <<obj, watch>>
    <3>1. IsCurrent(c) /\ Write([obj EXCEPT !.status = Written(c).status])
      BY <1>9, <2>3 DEF UpdateStatus, UpdateConflicts, UpdateFails
    <3>2. QED  BY <1>8, <2>1, <3>1
  <2>4. QED  BY <2>2, <2>3
<1>10. CASE Crash(c)
  <2>1. nm'[c] = NoNM /\ UNCHANGED obj /\ watch' = [watch EXCEPT ![c] = <<obj>>]
    BY <1>10 DEF Crash, WorkerOK
  <2>2. \A d \in Controller : watch'[d] = IF d = c THEN <<obj>> ELSE watch[d]
    BY <2>1 DEF StoreOK
  <2>3. DOMAIN <<obj>> = {1} /\ <<obj>>[1] = obj
    OBVIOUS
  <2>4. ASSUME NEW d \in Controller, NEW k \in DOMAIN watch'[d]
        PROVE  watch'[d][k].rv < obj.rv \/ watch'[d][k] = obj
    <3>1. CASE d = c
      BY <2>2, <2>3, <3>1
    <3>2. CASE d # c
      BY <2>2, <3>2 DEF RunInv, VersionsNamed
    <3>3. QED  BY <3>1, <3>2
  <2>5. VersionsNamed'
    BY <2>1, <2>4 DEF VersionsNamed
  <2>6. QED  BY <1>3, <2>1, <2>5, CopyDropped
<1>11. CASE Deliver(c)
  <2>1. UNCHANGED <<obj, pc, nm, todo>> /\ watch' = [watch EXCEPT ![c] = Tail(watch[c])]
    BY <1>11 DEF Deliver, StoreOK
  <2>2. ASSUME NEW d \in Controller, NEW k \in DOMAIN watch'[d]
        PROVE  \E j \in DOMAIN watch[d] : watch'[d][k] = watch[d][j]
    <3>1. CASE d # c
      BY <2>1, <3>1 DEF StoreOK
    <3>2. CASE d = c
      <4>1. watch[c] \in Seq(NMType) /\ watch[c] # <<>> /\ watch'[c] = Tail(watch[c])
        BY <1>11, <2>1 DEF StoreOK
      <4>2. \A j \in 1..Len(Tail(watch[c])) : Tail(watch[c])[j] = watch[c][j + 1]
        BY <4>1, HeadTailProperties
      <4>3. /\ Len(Tail(watch[c])) = Len(watch[c]) - 1 /\ Len(watch[c]) \in Nat
            /\ DOMAIN watch[c] = 1..Len(watch[c])
            /\ DOMAIN Tail(watch[c]) = 1..Len(Tail(watch[c]))
        BY <4>1, HeadTailProperties, LenProperties
      <4>4. k \in 1..(Len(watch[c]) - 1)
        BY <3>2, <4>1, <4>3
      <4>5. k + 1 \in DOMAIN watch[c]
        BY <4>3, <4>4
      <4>6. QED  BY <3>2, <4>1, <4>2, <4>3, <4>4, <4>5
    <3>3. QED  BY <3>1, <3>2
  <2>3. VersionsNamed'
    BY <2>1, <2>2 DEF RunInv, VersionsNamed
  <2>4. CopyFaithful(c)'
    BY <2>1, CopyKept DEF RunInv
  <2>5. QED  BY <1>3, <2>1, <2>3, <2>4
<1>12. QED  BY <1>5, <1>6, <1>7, <1>9, <1>10, <1>11

(* advanceNode works on the copy alone, and keeps it a step in progress. *)
LEMMA AdvanceRun ==
  ASSUME TypeOK, RunInv, NEW c \in Controller, NEW i \in todo[c], Advance(c, i)
  PROVE  RunInv' /\ UNCHANGED obj
<1> USE DEF TypeOK
<1>1. \A d \in Controller \ {c} :
        pc'[d] = pc[d] /\ nm'[d] = nm[d] /\ todo'[d] = todo[d] /\ seen'[d] = seen[d]
  BY OthersKept DEF Reconcile
<1>2. /\ UNCHANGED <<obj, watch>>
      /\ nm[c] \in NMType /\ i \in DOMAIN nm[c].status.nodes
      /\ pc[c] # "seed" /\ pc'[c] # "seed"
      /\ \/ /\ todo'[c] = todo[c]
            /\ nm'[c] = nm[c] \/ (HasNext(nm[c], i) /\ nm'[c] = Start(nm[c], i))
         \/ /\ todo'[c] = todo[c] \ {i}
            /\ \/ ~HasNext(nm[c], i) /\ nm'[c] = Finish(nm[c], i)
               \/ nm'[c] = failNode(nm[c], i)
               \/ HasNext(nm[c], i) /\ nm'[c] = Complete(nm[c], i)
  BY AdvanceShape
<1>3. nm[c] # NoNM
  BY <1>2, ReconcilerAssumption DEF ReconcilerAssumption
<1>4. nm'[c].rv = nm[c].rv /\ nm'[c].spec = nm[c].spec
  BY <1>2, AdvanceType
<1>5. CASE nm[c].rv < obj.rv
  BY <1>1, <1>2, <1>4, <1>5, CopyKept DEF RunInv, CopyFaithful, VersionsNamed, IsUnseeded
<1>6. CASE ~(nm[c].rv < obj.rv)
  <2>1. nm[c].rv = obj.rv /\ nm[c].spec = obj.spec /\ Stepping(c)
    BY <1>2, <1>3, <1>6 DEF RunInv, CopyFaithful
  <2>2. PICK P \in SUBSET InPhase(obj.status, "Pending") : MidStep(obj, P, nm[c], todo[c])
    BY <2>1 DEF Stepping
  <2>3. obj \in NMType
    BY DEF StoreOK
  <2>4. MidStep(obj, P, nm'[c], todo'[c])
    <3>1. /\ HasNext(nm[c], i) => MidStep(obj, P, Start(nm[c], i), todo[c])
          /\ \A w2 : \/ ~HasNext(nm[c], i) /\ w2 = Finish(nm[c], i)
                     \/ w2 = failNode(nm[c], i)
                     \/ HasNext(nm[c], i) /\ w2 = Complete(nm[c], i)
                     => MidStep(obj, P, w2, todo[c] \ {i})
      BY <1>2, <2>1, <2>2, <2>3, GoMidStep
    <3>2. QED  BY <1>2, <2>2, <3>1
  <2>5. Stepping(c)'
    BY <1>2, <2>1, <2>4 DEF Stepping, IsTerminal, IsUnseeded
  <2>6. CopyFaithful(c)'
    BY <1>2, <1>4, <2>1, <2>5 DEF CopyFaithful
  <2>7. QED  BY <1>1, <1>2, <2>6, CopyKept DEF RunInv, VersionsNamed, IsUnseeded
<1>7. QED  BY <1>5, <1>6

(* Pods and people: the only writes are edits of the spec. *)
LEMMA OutsideRun ==
  ASSUME TypeOK, RunInv, Kubelet \/ People
  PROVE  RunInv' /\ (UNCHANGED obj \/ RL!EditSpec)
<1> USE DEF TypeOK
<1>1. ASSUME UNCHANGED <<obj, watch, worker>>
      PROVE  RunInv'
  BY <1>1, CopyKept DEF worker, RunInv, VersionsNamed, IsUnseeded
<1>2. ASSUME NEW kind, NEW spec \in SpecType, EditSpec(kind, spec)
      PROVE  RunInv' /\ RL!EditSpec
  <2> DEFINE new == [obj EXCEPT !.spec = spec]
  <2>1. new \in NMType /\ new.status = obj.status /\ new.spec = spec /\ Write(new)
    BY <1>2 DEF StoreOK, NMType, EditSpec
  <2> HIDE DEF new
  <2>2. obj'.spec = spec /\ obj'.status = obj.status /\ spec # obj.spec
    BY <1>2, <2>1, WriteFields DEF EditSpec
  <2>3. \A c \in Controller : CopyFaithful(c)'
    BY <1>2, <2>1, CopyOutdated DEF RunInv, EditSpec, Edit, worker
  <2>4. VersionsNamed'
    BY <2>1, WriteNamesVersion DEF RunInv
  <2>5. RunInv'
    BY <2>2, <2>3, <2>4 DEF RunInv, IsUnseeded
  <2>6. RL!EditSpec
    BY <2>2 DEF RL!EditSpec, Entries, Entry
  <2>7. QED  BY <2>5, <2>6
<1>3. obj.spec \in SpecType
  BY DEF StoreOK, NMType
<1>4. CASE Kubelet
  BY <1>1, <1>4 DEF Kubelet, StartPod, FinishPod
<1>5. ASSUME NEW n \in Node, OperatorCordon(n) \/ OperatorUncordon(n) \/ DeletePod(n)
      PROVE  UNCHANGED <<obj, watch, worker>>
  BY <1>5 DEF OperatorCordon, OperatorUncordon, EditNode, DeletePod, Edit
<1>6. CASE Pause \/ Run
  <2>1. /\ [obj.spec EXCEPT !.paused = TRUE] \in SpecType
        /\ [obj.spec EXCEPT !.paused = FALSE] \in SpecType
    BY <1>3 DEF SpecType
  <2>2. QED  BY <1>2, <1>6, <2>1 DEF Pause, Run
<1>7. ASSUME NEW b \in Body, Attach(b)
      PROVE  RunInv' /\ RL!EditSpec
  <2>1. [obj.spec EXCEPT !.script = b] \in SpecType
    BY <1>3 DEF SpecType
  <2>2. QED  BY <1>2, <1>7, <2>1 DEF Attach
<1>8. ASSUME NEW s \in ApplySpecs, Apply(s)
      PROVE  RunInv' /\ RL!EditSpec
  BY <1>2, <1>8, ReconcilerAssumption DEF Apply, ReconcilerAssumption
<1>9. QED  BY <1>1, <1>4, <1>5, <1>6, <1>7, <1>8 DEF People

(* Every step keeps the invariant. *)
LEMMA RunStep ==
  ASSUME TypeOK, RunInv, [Next]_vars
  PROVE  RunInv'
<1>1. CASE UNCHANGED vars
  <2>1. UNCHANGED <<obj, watch, pc, nm, todo>>
    BY <1>1 DEF vars, worker
  <2>2. QED  BY <2>1, CopyKept DEF RunInv, VersionsNamed, IsUnseeded
<1>2. ASSUME NEW c \in Controller, Reconcile(c) \/ Deliver(c) \/ UpdateFails(c) \/ Crash(c)
      PROVE  RunInv'
  BY <1>2, PassRun, AdvanceRun DEF Reconcile
<1>3. CASE Kubelet \/ People
  BY <1>3, OutsideRun
<1>4. QED  BY <1>1, <1>2, <1>3 DEF Next, Fault

(* Every step is one of the abstract run, or none. *)
LEMMA AbstractRunStep ==
  ASSUME TypeOK, RunInv, [Next]_vars
  PROVE  [RL!Next]_(RL!vars)
<1>1. ASSUME UNCHANGED obj PROVE UNCHANGED RL!vars
  BY <1>1 DEF RL!vars, Entries, Entry
<1>2. CASE UNCHANGED vars
  BY <1>1, <1>2 DEF vars
<1>3. ASSUME NEW c \in Controller, Reconcile(c) \/ Deliver(c) \/ UpdateFails(c) \/ Crash(c)
      PROVE  UNCHANGED obj \/ RL!Resolve \/ RL!Advance
  BY <1>3, PassRun, AdvanceRun DEF Reconcile
<1>4. CASE Kubelet \/ People
  BY <1>1, <1>4, OutsideRun DEF RL!Next
<1>5. QED  BY <1>1, <1>2, <1>3, <1>4 DEF Next, Fault, RL!Next

(* The initial states are those of a run that nothing has been recorded of. *)
LEMMA InitRun == Init => RunInv /\ RL!Init
<1> SUFFICES ASSUME Init PROVE RunInv /\ RL!Init
  OBVIOUS
<1>1. obj.status = Unseeded
  <2>1. PICK s \in InitialSpecs : obj = [rv |-> 1, spec |-> s, status |-> Unseeded]
    BY DEF Init
  <2>2. QED  BY <2>1
<1>2. obj.status.phase = "" /\ obj.status.nodes = <<>>
  <2>1. Unseeded.phase = "" /\ Unseeded.nodes = <<>>
    BY DEF Unseeded
  <2>2. QED  BY <1>1, <2>1
<1>3. VersionsNamed
  <2>1. DOMAIN <<obj>> = {1} /\ <<obj>>[1] = obj
    OBVIOUS
  <2>2. \A c \in Controller : watch[c] = <<obj>>
    BY DEF Init
  <2>3. QED  BY <2>1, <2>2 DEF VersionsNamed
<1>4. \A c \in Controller : CopyFaithful(c)
  BY DEF Init, CopyFaithful
<1>5. RL!Init
  <2> DEFINE nodes == [i \in Entries |->
                         [name |-> Entry(i).name, phase |-> Entry(i).phase,
                          completed |-> Entry(i).completed]]
  <2>1. Entries = {}
    <3>1. DOMAIN <<>> = {}
      OBVIOUS
    <3>2. QED  BY <1>2, <3>1 DEF Entries
  <2>2. nodes = <<>>
    BY <2>1
  <2>3. QED  BY <1>2, <2>2 DEF RL!Init
<1>6. QED  BY <1>1, <1>3, <1>4, <1>5 DEF RunInv, IsUnseeded

(* The controller implements the abstract run.  Whatever the caches serve,   *)
(* whichever writes conflict, fail or are applied unseen, however often a    *)
(* process dies and however many there are: the stored record is resolved    *)
(* once, moves only while the stored run is unpaused and not over, one       *)
(* action of the stored plan per node and write, and not more nodes than     *)
(* the stored budget.                                                        *)
THEOREM RunImplemented == Spec => ImplementsRun
<1>1. TypeOK /\ RunInv /\ [Next]_vars => RunInv' /\ [RL!Next]_(RL!vars)
  BY RunStep, AbstractRunStep
<1>2. QED  BY <1>1, InitRun, TypeCorrect, PTL DEF Spec, ImplementsRun, RL!Spec

------------------------------------------------------------------------------
(* What an abstract step says of the entries, and the plan they follow.    *)

(* A step of the abstract run chooses fresh entries, or leaves each one or *)
(* advances it by one action of the plan.                                  *)
LEMMA AbstractStep ==
  ASSUME obj \in NMType, obj' \in NMType, [RL!Next]_(RL!vars)
  PROVE  \/ \A i \in Entries' :
              /\ obj'.status.nodes[i].phase = "Pending"
              /\ obj'.status.nodes[i].completed = <<>>
         \/ /\ Entries' = Entries
            /\ \A i \in Entries :
                 LET d == Entry(i)  e == obj'.status.nodes[i]
                 IN \/ SameRecord(d, e) /\ e.phase = d.phase
                    \/ Advanced(EffectiveActions(obj.spec), d, e)
<1> DEFINE s == obj.status.nodes
           v == obj'.status.nodes
           nodes == [i \in Entries |->
                       [name |-> Entry(i).name, phase |-> Entry(i).phase,
                        completed |-> Entry(i).completed]]
<1>1. PICK old, new : old = nodes /\ new = nodes'
  OBVIOUS
<1>2. /\ DOMAIN old = Entries /\ DOMAIN new = Entries'
      /\ \A i \in Entries : old[i] = Shown(s[i])
      /\ \A i \in Entries' : new[i] = Shown(v[i])
  BY <1>1 DEF Entries, Entry, Shown
<1>3. /\ \A i \in Entries : /\ old[i].name = s[i].name /\ old[i].phase = s[i].phase
                            /\ old[i].completed = s[i].completed
      /\ \A i \in Entries' : /\ new[i].name = v[i].name /\ new[i].phase = v[i].phase
                             /\ new[i].completed = v[i].completed
  BY <1>2, ShownFields
<1> HIDE DEF nodes
<1>4. CASE RL!Resolve
  <2>1. \A i \in DOMAIN new :
          new[i] = [name |-> new[i].name, phase |-> "Pending", completed |-> <<>>]
    BY <1>1, <1>4, Zenon DEF RL!Resolve, nodes
  <2>2. ASSUME NEW i \in Entries'
        PROVE  v[i].phase = "Pending" /\ v[i].completed = <<>>
    <3>1. new[i] = [name |-> new[i].name, phase |-> "Pending", completed |-> <<>>]
      BY <1>2, <2>1
    <3>2. new[i].phase = "Pending" /\ new[i].completed = <<>>
      BY <3>1
    <3>3. QED  BY <1>3, <3>2
  <2>3. QED  BY <2>2
<1>5. CASE RL!Advance
  <2>1. /\ DOMAIN new = DOMAIN old
        /\ \A i \in DOMAIN old : new[i] # old[i] => RL!Moves(old[i], new[i])
    BY <1>1, <1>5, Zenon DEF RL!Advance, nodes
  <2>2. Entries' = Entries
    BY <1>2, <2>1
  <2>3. RL!Plan = EffectiveActions(obj.spec)
    BY PlanAndBudget
  <2>4. ASSUME NEW i \in Entries
        PROVE  \/ SameRecord(s[i], v[i]) /\ v[i].phase = s[i].phase
               \/ Advanced(EffectiveActions(obj.spec), s[i], v[i])
    <3>1. CASE new[i] = old[i]
      BY <1>3, <2>2, <3>1 DEF SameRecord
    <3>2. CASE new[i] # old[i]
      <4>1. RL!Moves(old[i], new[i])
        BY <1>2, <2>1, <3>2
      <4>2. i \in Entries'
        BY <2>2
      <4> HIDE DEF s, v
      <4>3. QED  BY <1>3, <2>3, <4>1, <4>2 DEF RL!Moves, Advanced, SameRecord
    <3>3. QED  BY <3>1, <3>2
  <2>5. QED  BY <2>2, <2>4 DEF Entry
<1>6. CASE RL!EditSpec \/ UNCHANGED RL!vars
  <2>1. new = old
    BY <1>1, <1>6, Zenon DEF RL!EditSpec, RL!vars, nodes
  <2>2. Entries' = Entries
    BY <1>2, <2>1
  <2>3. QED  BY <1>3, <2>1, <2>2 DEF SameRecord, Entry
<1>7. QED  BY <1>4, <1>5, <1>6 DEF RL!Next

(* A record that follows the plan still does with the plan's next action. *)
Follows(done, plan) == Len(done) <= Len(plan) /\ done = SubSeq(plan, 1, Len(done))

LEMMA FollowsGrows ==
  ASSUME NEW plan \in Seq(ActionType), NEW done \in Seq(ActionType), Follows(done, plan)
  PROVE  /\ Len(done) < Len(plan) => Follows(Append(done, plan[Len(done) + 1]), plan)
         /\ Len(done) >= Len(plan) => done = plan
<1> DEFINE k == Len(done)
<1>1. k \in Nat /\ Len(plan) \in Nat /\ k <= Len(plan)
  BY LenProperties DEF Follows
<1>2. ASSUME k < Len(plan)
      PROVE  Follows(Append(done, plan[k + 1]), plan)
  <2> DEFINE a == plan[k + 1]
             t == Append(done, a)
  <2>1. k + 1 \in 1..Len(plan)
    BY <1>1, <1>2
  <2>2. a \in ActionType
    BY <2>1, ElementOfSeq
  <2>3. /\ t \in Seq(ActionType) /\ Len(t) = k + 1
        /\ \A j \in 1..k : t[j] = done[j]
        /\ t[k + 1] = a
    BY <2>2, AppendProperties
  <2>4. \A m \in 1..Len(plan) :
          /\ SubSeq(plan, 1, m) \in Seq(ActionType)
          /\ Len(SubSeq(plan, 1, m)) = m
          /\ \A j \in 1..m : SubSeq(plan, 1, m)[j] = plan[j]
    <3>1. TAKE m \in 1..Len(plan)
    <3>2. \A j \in 1..m : plan[j] \in ActionType
      <4>1. \A j \in 1..m : j \in 1..Len(plan)
        BY <1>1
      <4>2. QED  BY <4>1, ElementOfSeq
    <3>3. 1 \in Int /\ m \in Int /\ 1 <= m /\ m - 1 + 1 = m /\ \A j \in 1..m : 1 + j - 1 = j
      BY <1>1
    <3>4. QED  BY <3>2, <3>3, SubSeqProperties
  <2>5. \A j \in 1..k : done[j] = plan[j]
    <3>1. CASE k = 0
      BY <3>1
    <3>2. CASE k # 0
      <4>1. k \in 1..Len(plan)
        BY <1>1, <3>2
      <4>2. QED  BY <2>4, <4>1 DEF Follows
    <3>3. QED  BY <3>1, <3>2
  <2> HIDE DEF t, a
  <2>6. \A j \in 1..(k + 1) : t[j] = SubSeq(plan, 1, k + 1)[j]
    <3>1. TAKE j \in 1..(k + 1)
    <3>2. CASE j = k + 1
      BY <2>1, <2>3, <2>4, <3>2 DEF a
    <3>3. CASE j # k + 1
      <4>1. j \in 1..k
        BY <1>1, <3>3
      <4>2. QED  BY <2>1, <2>3, <2>4, <2>5, <4>1
    <3>4. QED  BY <3>2, <3>3
  <2>7. t = SubSeq(plan, 1, k + 1)
    BY <2>1, <2>3, <2>4, <2>6, SeqEqual
  <2>8. k + 1 <= Len(plan)
    BY <1>1, <1>2
  <2>9. QED  BY <2>3, <2>7, <2>8 DEF Follows, t, a
<1>3. ASSUME k >= Len(plan)
      PROVE  done = plan
  <2>1. k = Len(plan)
    BY <1>1, <1>3
  <2>2. QED  BY <2>1, SubSeqFull DEF Follows
<1>4. QED  BY <1>2, <1>3

LEMMA FollowsEmpty ==
  ASSUME NEW plan \in Seq(ActionType)
  PROVE  Follows(<<>>, plan)
<1>1. Len(<<>>) = 0 /\ 0 <= Len(plan)
  BY LenProperties
<1>2. SubSeq(plan, 1, 0) = <<>>
  BY SubSeqEmpty
<1>3. QED  BY <1>1, <1>2 DEF Follows

(* The plan stays what it is: an edit may pause or resume the run, attach    *)
(* another body or change the budget, but not the list of actions.           *)
PlanKept == EffectiveActions(obj'.spec) = EffectiveActions(obj.spec)

LEMMA InitFollows == Init => FollowsPlan
<1> SUFFICES ASSUME Init PROVE FollowsPlan
  OBVIOUS
<1>1. Entries = {}
  <2>1. PICK s \in InitialSpecs : obj = [rv |-> 1, spec |-> s, status |-> Unseeded]
    BY DEF Init
  <2>2. Unseeded.nodes = <<>> /\ DOMAIN <<>> = {}
    BY DEF Unseeded
  <2>3. obj.status = Unseeded
    BY <2>1
  <2>4. QED  BY <2>2, <2>3 DEF Entries
<1>2. QED  BY <1>1 DEF FollowsPlan

(* A step of the abstract run, under a plan that stays, appends the next    *)
(* action of the plan or nothing.                                           *)
LEMMA FollowsStep ==
  ASSUME TypeOK, TypeOK', FollowsPlan, [RL!Next]_(RL!vars), PlanKept
  PROVE  FollowsPlan'
<1> DEFINE plan == EffectiveActions(obj.spec)
           e(i) == obj'.status.nodes[i]
<1>1. obj \in NMType /\ obj' \in NMType
  BY DEF TypeOK, StoreOK
<1>2. plan \in Seq(ActionType) /\ EffectiveActions(obj'.spec) = plan
  BY <1>1, PlanType DEF PlanKept
<1> HIDE DEF plan
<1>3. ASSUME NEW i \in Entries'
      PROVE  /\ Follows(e(i).completed, plan)
             /\ e(i).phase = "Completed" => e(i).completed = plan
  <2>1. CASE e(i).phase = "Pending" /\ e(i).completed = <<>>
    BY <1>2, <2>1, FollowsEmpty
  <2>2. CASE /\ i \in Entries
             /\ \/ SameRecord(Entry(i), e(i)) /\ e(i).phase = Entry(i).phase
                \/ Advanced(plan, Entry(i), e(i))
    <3> DEFINE d == Entry(i)
               k == Len(d.completed)
    <3>1. Follows(d.completed, plan) /\ (d.phase = "Completed" => d.completed = plan)
      BY <2>2 DEF FollowsPlan, Follows, plan
    <3>2. d.completed \in Seq(ActionType)
      BY <1>1, <2>2, EntriesType DEF Entries, Entry, NodeStatusType
    <3>3. CASE SameRecord(d, e(i)) /\ e(i).phase = d.phase
      BY <3>1, <3>3 DEF SameRecord
    <3>4. CASE Advanced(plan, d, e(i))
      <4>1. CASE SameRecord(d, e(i)) /\ e(i).phase = "Failed"
        BY <3>1, <4>1 DEF SameRecord
      <4>2. CASE SameRecord(d, e(i)) /\ k >= Len(plan)
        BY <1>2, <3>1, <3>2, <4>2, FollowsGrows DEF SameRecord
      <4>3. CASE /\ k < Len(plan)
                 /\ e(i).completed = Append(d.completed, plan[k + 1])
                 /\ e(i).phase = IF k + 1 = Len(plan) THEN "Completed" ELSE "InProgress"
        <5> DEFINE t == Append(d.completed, plan[k + 1])
        <5>1. Follows(t, plan)
          BY <1>2, <3>1, <3>2, <4>3, FollowsGrows
        <5>2. k \in Nat /\ Len(plan) \in Nat
          BY <1>2, <3>2, LenProperties
        <5>3. k + 1 \in 1..Len(plan)
          BY <4>3, <5>2
        <5>4. plan[k + 1] \in ActionType
          BY <1>2, <5>3, ElementOfSeq
        <5>5. t \in Seq(ActionType) /\ Len(t) = k + 1
          BY <3>2, <5>4, AppendProperties
        <5> HIDE DEF t
        <5>6. k + 1 = Len(plan) => t = plan
          <6>1. k + 1 = Len(plan) => Len(t) >= Len(plan)
            BY <5>2, <5>5
          <6>2. QED  BY <1>2, <5>1, <5>5, <6>1, FollowsGrows
        <5>7. e(i).completed = t
          BY <4>3 DEF t
        <5>8. e(i).phase = "Completed" => k + 1 = Len(plan)
          BY <4>3
        <5>9. QED  BY <5>1, <5>6, <5>7, <5>8
      <4>4. QED  BY <3>4, <4>1, <4>2, <4>3 DEF Advanced
    <3>5. QED  BY <2>2, <3>3, <3>4
  <2>3. QED  BY <1>1, <2>1, <2>2, AbstractStep DEF plan
<1>4. QED  BY <1>2, <1>3 DEF FollowsPlan, Follows, Entries, Entry

(* As long as nobody changes the plan, every record is a prefix of it and a  *)
(* completed node has all of it.  It takes nothing of the controller but     *)
(* that it implements the abstract run.                                      *)
THEOREM RecordsFollowPlan == Spec /\ [][PlanKept]_vars => []FollowsPlan
<1>1. TypeOK /\ TypeOK' /\ FollowsPlan /\ [RL!Next]_(RL!vars) /\ [PlanKept]_vars
      => FollowsPlan'
  <2>1. [PlanKept]_vars => PlanKept
    BY DEF PlanKept, vars
  <2>2. QED  BY <2>1, FollowsStep
<1>2. QED
  BY <1>1, InitFollows, TypeCorrect, RunImplemented, PTL DEF Spec, ImplementsRun, RL!Spec
==============================================================================
