---------------------------- MODULE CommandsProofs ----------------------------
(***************************************************************************)
(* The commands of kubectl nm act as if each were one step, for any number *)
(* of people, bodies, reasons and commands.                                *)
(***************************************************************************)
EXTENDS Commands, TLAPS

(* A command is under way from the moment it is issued to its answer, and *)
(* remembers nothing of the object after that.                            *)
UnderWay ==
  \A p \in Person :
    IF call[p] = "none" THEN (asked[p] = Nothing \/ told[p] # "") /\ copy[p] = NoNM
    ELSE asked[p] \in CommandType /\ asked[p] # Nothing /\ told[p] = ""

(* An object that exists has a version, and the version tells what it was. *)
VersionsTell ==
  /\ obj # NoNM => obj.rv > 0
  /\ \A p \in Person :
       /\ copy[p].rv <= version
       /\ copy[p] # NoNM => copy[p].rv > 0
       /\ copy[p] # NoNM /\ copy[p].rv = obj.rv => copy[p] = obj

CommandsInv == TypeOK /\ UnderWay /\ VersionsTell /\ ReasonOnlyWhilePaused

------------------------------------------------------------------------------
(* Lemmas.                                                                 *)

LEMMA MaxCommandsType == MaxCommands \in Nat
BY CommandsAssumption

(* The version after one is new to whoever knows of no later one. *)
LEMMA NextVersion ==
  ASSUME NEW v \in Nat
  PROVE  /\ v + 1 \in Nat /\ v + 1 <= v + 1 /\ v + 1 > 0
         /\ \A w \in Nat : w <= v => w <= v + 1 /\ w # v + 1
OBVIOUS

LEMMA NoNMType == NoNM \in NMType
BY CommandsAssumption DEF NoNM, NMType

(* What each kind of command carries. *)
LEMMA CommandFields ==
  ASSUME NEW cmd \in CommandType
  PROVE  /\ cmd.kind \in {"create", "attach", "pause", "run"}
         /\ cmd.kind = "create" => cmd.paused \in BOOLEAN /\ cmd.script \in Body
         /\ cmd.kind = "attach" => cmd.script \in Body
         /\ cmd.kind = "pause" => cmd.reason \in Reason
BY DEF CommandType

LEMMA WantedReasonType ==
  ASSUME NEW p \in Person, asked[p] \in CommandType
  PROVE  WantedReason(p) \in Reason /\ WantsPaused(p) \in BOOLEAN
BY CommandFields, CommandsAssumption DEF WantedReason, WantsPaused

(* A patch keeps everything but what its command is about. *)
LEMMA PatchedFields ==
  ASSUME TypeOK, NEW p \in Person, asked[p] \in CommandType
  PROVE  /\ Patched(p) \in NMType
         /\ Patched(p).rv = obj.rv /\ Patched(p).phase = obj.phase
         /\ asked[p].kind = "attach" =>
              /\ Patched(p).script = asked[p].script
              /\ Patched(p).paused = obj.paused /\ Patched(p).reason = obj.reason
         /\ asked[p].kind # "attach" =>
              /\ Patched(p).script = obj.script
              /\ Patched(p).paused = WantsPaused(p)
              /\ Patched(p).reason = WantedReason(p)
<1>1. obj \in NMType
  BY DEF TypeOK
<1>2. QED  BY <1>1, CommandFields, WantedReasonType DEF Patched, NMType

LEMMA BuiltFields ==
  ASSUME NEW p \in Person, asked[p] \in CommandType, asked[p].kind = "create",
         NEW phase \in {"", "InProgress", "Completed", "Failed"}
  PROVE  /\ Built(p, phase) \in NMType
         /\ Built(p, phase).paused = asked[p].paused
         /\ Built(p, phase).reason = "" /\ Built(p, phase).script = asked[p].script
BY CommandFields, CommandsAssumption DEF Built, NMType

LEMMA NoNMVersion == NoNM.rv = 0 /\ NoNM.rv <= 0
BY DEF NoNM

(* A write stores what it is given under a version nobody has seen. *)
LEMMA WriteFields ==
  ASSUME TypeOK, NEW new \in NMType, Write(new)
  PROVE  /\ obj' \in NMType /\ obj' # NoNM
         /\ version' = version + 1 /\ obj'.rv = version'
         /\ obj'.paused = new.paused /\ obj'.reason = new.reason
         /\ obj'.script = new.script
<1> version \in Nat
  BY DEF TypeOK
<1>1. version + 1 \in Nat
  OBVIOUS
<1>2. obj' = [new EXCEPT !.rv = version + 1] /\ version' = version + 1
  BY DEF Write
<1>3. /\ obj' \in NMType /\ obj'.rv = version + 1
      /\ obj'.paused = new.paused /\ obj'.reason = new.reason
      /\ obj'.script = new.script
  BY <1>1, <1>2 DEF NMType
<1>4. obj' # NoNM
  BY <1>1, <1>3, NoNMVersion
<1>5. QED  BY <1>2, <1>3, <1>4

(* What is stored is known by its version when it is written anew. *)
LEMMA WriteVersions ==
  ASSUME TypeOK, VersionsTell, NEW new \in NMType, Write(new),
         NEW p \in Person, copy' = copy \/ copy' = [copy EXCEPT ![p] = NoNM]
  PROVE  VersionsTell'
<1>1. /\ version \in Nat /\ version' = version + 1 /\ obj'.rv = version + 1
      /\ copy \in [Person -> NMType]
  BY WriteFields DEF TypeOK
<1>2. ASSUME NEW q \in Person PROVE copy'[q] = copy[q] \/ copy'[q] = NoNM
  BY <1>1
<1>3. ASSUME NEW q \in Person
      PROVE  /\ copy'[q].rv <= version /\ copy'[q].rv \in Nat
             /\ copy'[q] # NoNM => copy'[q].rv > 0
  <2>1. CASE copy'[q] = copy[q]
    BY <1>1, <2>1 DEF VersionsTell, NMType
  <2>2. CASE copy'[q] = NoNM
    BY <1>1, <2>2, NoNMVersion
  <2>3. QED  BY <1>2, <2>1, <2>2
<1>4. QED  BY <1>1, <1>3 DEF VersionsTell

------------------------------------------------------------------------------
(* The invariant.                                                          *)

LEMMA AnswerKeeps ==
  ASSUME CommandsInv, NEW p \in Person, call[p] # "none",
         NEW answer \in {"done", "failed"}, Answer(p, answer)
  PROVE  /\ UnderWay' /\ copy' = [copy EXCEPT ![p] = NoNM]
         /\ asked' = asked /\ issued' = issued
         /\ copy' \in [Person -> NMType]
         /\ told' \in [Person -> {"", "done", "failed"}]
         /\ call' \in [Person -> {"none", "check", "get", "write"}]
BY NoNMType DEF CommandsInv, TypeOK, UnderWay, Answer

LEMMA InvInit == Init => CommandsInv
<1> SUFFICES ASSUME Init PROVE CommandsInv
  OBVIOUS
<1>1. /\ obj = NoNM /\ version = 0 /\ issued = 0
      /\ asked = [p \in Person |-> Nothing] /\ told = [p \in Person |-> ""]
      /\ call = [p \in Person |-> "none"] /\ copy = [p \in Person |-> NoNM]
  BY DEF Init
<1>2. TypeOK
  <2>1. 0 \in 0..MaxCommands
    BY MaxCommandsType
  <2>2. obj \in NMType /\ version \in Nat /\ obj.rv <= version
    BY <1>1, NoNMVersion, NoNMType
  <2>3. copy \in [Person -> NMType]
    BY <1>1, NoNMType
  <2>4. /\ asked \in [Person -> CommandType \cup {Nothing}]
        /\ told \in [Person -> {"", "done", "failed"}]
        /\ call \in [Person -> {"none", "check", "get", "write"}]
    BY <1>1
  <2>5. QED  BY <1>1, <2>1, <2>2, <2>3, <2>4 DEF TypeOK
<1>3. UnderWay
  BY <1>1 DEF UnderWay
<1>4. VersionsTell
  <2>1. \A p \in Person : copy[p] = NoNM
    BY <1>1
  <2>2. \A p \in Person : copy[p].rv <= version
    <3>1. ASSUME NEW p \in Person PROVE copy[p].rv <= version
      <4>1. copy[p] = NoNM /\ version = 0
        BY <1>1, <2>1
      <4>2. QED  BY <4>1, NoNMVersion
    <3>2. QED  BY <3>1
  <2>3. QED  BY <1>1, <2>1, <2>2 DEF VersionsTell
<1>5. ReasonOnlyWhilePaused
  BY <1>1 DEF ReasonOnlyWhilePaused, NoNM
<1>6. QED  BY <1>2, <1>3, <1>4, <1>5 DEF CommandsInv

(* Issuing a command, and reading for one, leaves the object alone. *)
LEMMA IssueStep ==
  ASSUME CommandsInv, NEW p \in Person, NEW cmd \in CommandType,
         Issue(p, cmd)
  PROVE  CommandsInv'
<1> USE DEF CommandsInv
<1>1. TypeOK'
  <2>1. issued' \in 0..MaxCommands
    <3>1. issued \in 0..MaxCommands /\ issued < MaxCommands /\ issued' = issued + 1
      BY DEF TypeOK, Issue
    <3>2. QED  BY <3>1, MaxCommandsType
  <2>2. /\ asked' \in [Person -> CommandType \cup {Nothing}]
        /\ told' \in [Person -> {"", "done", "failed"}]
        /\ call' \in [Person -> {"none", "check", "get", "write"}]
    BY DEF TypeOK, Issue
  <2>3. QED  BY <2>1, <2>2 DEF TypeOK, Issue
<1>2. UnderWay'
  BY NothingAssumption DEF TypeOK, UnderWay, Issue
<1>3. VersionsTell' /\ ReasonOnlyWhilePaused'
  BY DEF Issue, VersionsTell, ReasonOnlyWhilePaused
<1>4. QED  BY <1>1, <1>2, <1>3

LEMMA ReadStep ==
  ASSUME CommandsInv, NEW p \in Person, NEW next \in {"get", "write"},
         call[p] # "none", Proceed(p, next), UNCHANGED <<obj, version>>
  PROVE  CommandsInv'
<1> USE DEF CommandsInv
<1>1. TypeOK'
  BY DEF TypeOK, Proceed
<1>2. UnderWay'
  BY DEF TypeOK, UnderWay, Proceed
<1>3. VersionsTell'
  BY DEF TypeOK, VersionsTell, Proceed
<1>4. ReasonOnlyWhilePaused'
  BY DEF ReasonOnlyWhilePaused
<1>5. QED  BY <1>1, <1>2, <1>3, <1>4

(* So does an answer without a write. *)
LEMMA AnswerStep ==
  ASSUME CommandsInv, NEW p \in Person, call[p] # "none",
         NEW answer \in {"done", "failed"}, Answer(p, answer), UNCHANGED <<obj, version>>
  PROVE  CommandsInv'
<1>1. TypeOK' /\ UnderWay'
  BY AnswerKeeps DEF CommandsInv, TypeOK
<1>2. VersionsTell'
  <2>1. /\ obj' = obj /\ version' = version /\ version \in Nat
        /\ copy \in [Person -> NMType] /\ copy' = [copy EXCEPT ![p] = NoNM]
    BY AnswerKeeps DEF CommandsInv, TypeOK
  <2>2. ASSUME NEW q \in Person PROVE copy'[q] = copy[q] \/ copy'[q] = NoNM
    BY <2>1
  <2>3. ASSUME NEW q \in Person PROVE copy'[q].rv <= version
    BY <2>1, <2>2, NoNMVersion DEF CommandsInv, VersionsTell
  <2>4. QED  BY <2>1, <2>2, <2>3 DEF CommandsInv, VersionsTell
<1>3. QED  BY <1>1, <1>2 DEF CommandsInv, ReasonOnlyWhilePaused

(* A write that answers a command. *)
LEMMA WriteStep ==
  ASSUME CommandsInv, NEW p \in Person, call[p] # "none",
         NEW new \in NMType, new.reason # "" => new.paused, Write(new), AnswerWrite(p)
  PROVE  CommandsInv'
<1>1. PICK answer \in {"done", "failed"} : Answer(p, answer)
  BY DEF AnswerWrite
<1>2. TypeOK' /\ UnderWay'
  <2>1. /\ UnderWay' /\ issued' = issued
        /\ asked' = asked /\ copy' \in [Person -> NMType]
        /\ told' \in [Person -> {"", "done", "failed"}]
        /\ call' \in [Person -> {"none", "check", "get", "write"}]
    BY <1>1, AnswerKeeps
  <2>2. obj' \in NMType /\ version' \in Nat /\ obj'.rv <= version'
    <3>1. obj' \in NMType /\ version' = version + 1 /\ obj'.rv = version'
      BY WriteFields DEF CommandsInv
    <3>2. version \in Nat
      BY DEF CommandsInv, TypeOK
    <3>3. version' \in Nat /\ version' <= version'
      BY <3>1, <3>2, NextVersion
    <3>4. QED  BY <3>1, <3>3
  <2>3. QED  BY <2>1, <2>2 DEF CommandsInv, TypeOK
<1>3. VersionsTell'
  BY <1>1, AnswerKeeps, WriteVersions DEF CommandsInv
<1>4. ReasonOnlyWhilePaused'
  BY WriteFields DEF CommandsInv, ReasonOnlyWhilePaused
<1>5. QED  BY <1>2, <1>3, <1>4 DEF CommandsInv

(* Reading for a command: CheckScript and Get. *)
LEMMA Reads ==
  ASSUME CommandsInv, NEW p \in Person, CheckScript(p) \/ Get(p)
  PROVE  CommandsInv'
<1>1. CASE CheckScript(p)
  BY <1>1, ReadStep DEF CheckScript
<1>2. CASE Get(p)
  BY <1>2, ReadStep DEF Get
<1>3. QED  BY <1>1, <1>2

LEMMA Answers ==
  ASSUME CommandsInv, NEW p \in Person, AlreadyDone(p) \/ Fail(p)
  PROVE  CommandsInv'
<1>1. CASE AlreadyDone(p)
  BY <1>1, AnswerStep DEF AlreadyDone
<1>2. CASE Fail(p)
  BY <1>2, AnswerStep DEF Fail
<1>3. QED  BY <1>1, <1>2

(* Unpausing clears the reason, and a script says nothing of it. *)
LEMMA Patches ==
  ASSUME CommandsInv, NEW p \in Person, Patch(p)
  PROVE  CommandsInv'
<1>1. /\ call[p] # "none" /\ asked[p] \in CommandType
      /\ Write(Patched(p)) /\ AnswerWrite(p)
  BY DEF Patch, CommandsInv, UnderWay
<1>2. Patched(p) \in NMType
  BY <1>1, PatchedFields DEF CommandsInv
<1>3. Patched(p).reason # "" => Patched(p).paused
  BY <1>1, PatchedFields DEF CommandsInv, ReasonOnlyWhilePaused, WantedReason
<1>4. QED  BY <1>1, <1>2, <1>3, WriteStep

LEMMA Puts ==
  ASSUME CommandsInv, NEW p \in Person, Put(p)
  PROVE  CommandsInv'
<1>1. /\ call[p] # "none" /\ asked[p] \in CommandType /\ asked[p].kind = "create"
      /\ AnswerWrite(p)
  BY DEF Put, CommandsInv, UnderWay
<1>2. PICK phase \in {"", "InProgress", "Completed", "Failed"} : Write(Built(p, phase))
  BY DEF Put, CommandsInv, TypeOK, NMType
<1>3. Built(p, phase) \in NMType /\ Built(p, phase).reason = ""
  BY <1>1, BuiltFields
<1>4. QED  BY <1>1, <1>2, <1>3, WriteStep

(* The controller writes a phase, and a deleted object takes its version along. *)
LEMMA OthersStep ==
  ASSUME CommandsInv, Others
  PROVE  CommandsInv'
<1>1. /\ asked' = asked /\ told' = told /\ call' = call /\ copy' = copy
      /\ issued' = issued
  BY DEF Others, command
<1>2. UnderWay'
  BY <1>1 DEF CommandsInv, UnderWay
<1>3. ASSUME NEW phase \in {"InProgress", "Completed", "Failed"},
             Write([obj EXCEPT !.phase = phase])
      PROVE  CommandsInv'
  <2> DEFINE new == [obj EXCEPT !.phase = phase]
  <2>1. new \in NMType /\ new.reason = obj.reason /\ new.paused = obj.paused
    BY DEF CommandsInv, TypeOK, NMType
  <2>2. /\ obj' \in NMType /\ version' = version + 1 /\ obj'.rv = version'
        /\ obj'.reason = obj.reason /\ obj'.paused = obj.paused
    BY <1>3, <2>1, WriteFields DEF CommandsInv
  <2>3. version \in Nat
    BY DEF CommandsInv, TypeOK
  <2>4. version' \in Nat /\ obj'.rv <= version'
    BY <2>2, <2>3, NextVersion
  <2>5. TypeOK'
    BY <1>1, <2>2, <2>4 DEF CommandsInv, TypeOK
  <2>6. VersionsTell'
    <3>1. /\ copy \in [Person -> NMType]
          /\ \A q \in Person : copy[q].rv <= version /\ copy[q].rv \in Nat
      BY DEF CommandsInv, TypeOK, VersionsTell, NMType
    <3>2. \A q \in Person : copy[q].rv <= version + 1 /\ copy[q].rv # version + 1
      BY <2>3, <3>1, NextVersion
    <3>3. obj'.rv > 0
      BY <2>2, <2>3, NextVersion
    <3>4. QED  BY <1>1, <2>2, <3>2, <3>3 DEF CommandsInv, VersionsTell
  <2>7. ReasonOnlyWhilePaused'
    BY <2>2 DEF CommandsInv, ReasonOnlyWhilePaused
  <2>8. QED  BY <1>2, <2>5, <2>6, <2>7 DEF CommandsInv
<1>4. CASE Delete
  <2>1. obj' = NoNM /\ version' = version
    BY <1>4 DEF Delete
  <2>2. version \in Nat
    BY DEF CommandsInv, TypeOK
  <2>3. obj'.rv = 0 /\ obj'.rv <= version'
    BY <2>1, <2>2, NoNMVersion
  <2>4. TypeOK'
    BY <1>1, <2>1, <2>2, <2>3, NoNMType DEF CommandsInv, TypeOK
  <2>5. VersionsTell'
    <3>1. \A q \in Person : copy[q] # NoNM => copy[q].rv > 0
      BY DEF CommandsInv, VersionsTell
    <3>2. \A q \in Person : copy[q] # NoNM => copy[q].rv # 0
      BY <3>1
    <3>3. QED  BY <1>1, <2>1, <2>3, <3>2 DEF CommandsInv, VersionsTell
  <2>6. ReasonOnlyWhilePaused'
    BY <2>1 DEF ReasonOnlyWhilePaused, NoNM
  <2>7. QED  BY <1>2, <2>4, <2>5, <2>6 DEF CommandsInv
<1>5. CASE Seed
  BY <1>3, <1>5 DEF Seed
<1>6. CASE End
  BY <1>3, <1>6 DEF End
<1>7. QED  BY <1>4, <1>5, <1>6 DEF Others

LEMMA Issues ==
  ASSUME CommandsInv, NEW p \in Person,
         IssueCreate(p) \/ IssueAttach(p) \/ IssuePause(p) \/ IssueRun(p)
  PROVE  \E cmd \in CommandType : Issue(p, cmd)
<1>1. CASE IssueCreate(p)
  <2>1. PICK paused \in BOOLEAN, script \in Body :
          Issue(p, [kind |-> "create", paused |-> paused, script |-> script])
    BY <1>1 DEF IssueCreate
  <2>2. [kind |-> "create", paused |-> paused, script |-> script] \in CommandType
    BY DEF CommandType
  <2>3. QED  BY <2>1, <2>2
<1>2. CASE IssueAttach(p)
  BY <1>2 DEF IssueAttach, CommandType
<1>3. CASE IssuePause(p)
  BY <1>3 DEF IssuePause, CommandType
<1>4. CASE IssueRun(p)
  BY <1>4 DEF IssueRun, CommandType
<1>5. QED  BY <1>1, <1>2, <1>3, <1>4

LEMMA InvNext == CommandsInv /\ [Next]_vars => CommandsInv'
<1> SUFFICES ASSUME CommandsInv, [Next]_vars PROVE CommandsInv'
  OBVIOUS
<1>1. CASE UNCHANGED vars
  BY <1>1 DEF vars, command, CommandsInv, TypeOK, UnderWay, VersionsTell, ReasonOnlyWhilePaused
<1>2. CASE Others
  BY <1>2, OthersStep
<1>3. ASSUME NEW p \in Person, Step(p) PROVE CommandsInv'
  <2>1. CASE IssueCreate(p) \/ IssueAttach(p) \/ IssuePause(p) \/ IssueRun(p)
    BY <2>1, Issues, IssueStep
  <2>2. CASE CheckScript(p) \/ Get(p)
    BY <2>2, Reads
  <2>3. CASE AlreadyDone(p) \/ Fail(p)
    BY <2>3, Answers
  <2>4. CASE Patch(p)
    BY <2>4, Patches
  <2>5. CASE Put(p)
    BY <2>5, Puts
  <2>6. QED  BY <1>3, <2>1, <2>2, <2>3, <2>4, <2>5 DEF Step
<1>4. QED  BY <1>1, <1>2, <1>3 DEF Next

LEMMA InvHolds == Spec => []CommandsInv
<1>1. QED  BY InvInit, InvNext, PTL DEF Spec

(* The object and what every command has read of it keep to their types, and *)
(* the object's version is one that was given out.                           *)
THEOREM CommandTypes == Spec => []TypeOK
<1>1. CommandsInv => TypeOK
  BY DEF CommandsInv
<1>2. QED  BY <1>1, InvHolds, PTL

(* A run that is not paused carries no reason for being paused. *)
THEOREM ReasonWithPause == Spec => []ReasonOnlyWhilePaused
<1>1. CommandsInv => ReasonOnlyWhilePaused
  BY DEF CommandsInv
<1>2. QED  BY <1>1, InvHolds, PTL

------------------------------------------------------------------------------
(* What create replaces.                                                   *)

ReplacesWhatItRead ==
  \A p \in Person :
    copy[p] # NoNM /\ call'[p] = "none" /\ told'[p] = "done" /\ asked[p].kind = "create"
    => obj = copy[p]

(* A step of one command is not a step of another. *)
LEMMA OnlyOwn ==
  ASSUME CommandsInv, Next, NEW p \in Person, call[p] # "none", call'[p] = "none"
  PROVE  AlreadyDone(p) \/ Fail(p) \/ Patch(p) \/ Put(p)
<1>1. call \in [Person -> {"none", "check", "get", "write"}]
  BY DEF CommandsInv, TypeOK
<1>2. ~Others
  BY DEF Others, command
<1>3. PICK q \in Person : Step(q)
  BY <1>2 DEF Next
<1>4. ASSUME NEW r \in Person, NEW cmd PROVE ~Issue(r, cmd)
  BY <1>1 DEF Issue
<1>5. ~(IssueCreate(q) \/ IssueAttach(q) \/ IssuePause(q) \/ IssueRun(q))
  BY <1>4 DEF IssueCreate, IssueAttach, IssuePause, IssueRun
<1>6. ~(CheckScript(q) \/ Get(q))
  BY <1>1 DEF CheckScript, Get, Proceed
<1>7. AlreadyDone(q) \/ Fail(q) \/ Patch(q) \/ Put(q)
  BY <1>3, <1>5, <1>6 DEF Step
<1>8. \E answer : Answer(q, answer)
  BY <1>7 DEF AlreadyDone, Fail, Patch, Put, AnswerWrite
<1>9. q = p
  BY <1>1, <1>8 DEF Answer
<1>10. QED  BY <1>7, <1>9

LEMMA ReplacesStep == CommandsInv /\ [Next]_vars => [ReplacesWhatItRead]_vars
<1> SUFFICES ASSUME CommandsInv, Next, NEW p \in Person,
                    copy[p] # NoNM, call'[p] = "none", told'[p] = "done",
                    asked[p].kind = "create"
             PROVE  obj = copy[p]
  BY DEF ReplacesWhatItRead
<1>1. call[p] # "none"
  BY DEF CommandsInv, UnderWay
<1>2. AlreadyDone(p) \/ Fail(p) \/ Patch(p) \/ Put(p)
  BY <1>1, OnlyOwn
<1>3. ~Fail(p)
  BY DEF Fail, Answer, CommandsInv, TypeOK
<1>4. Put(p)
  BY <1>2, <1>3 DEF AlreadyDone, Sets, Patch
<1>5. Replaces(p)
  BY <1>4 DEF Put
<1>6. QED  BY <1>5 DEF Replaces, CommandsInv, VersionsTell

(* A create that reports success replaced the object that it had read. *)
THEOREM CreateIsSafe == Spec => CreateReplacesWhatItRead
<1>1. QED
  BY InvHolds, ReplacesStep, PTL DEF Spec, CreateReplacesWhatItRead, ReplacesWhatItRead

------------------------------------------------------------------------------
(* Each command is one step of Edits.                                      *)

(* What is on record of the run, and that it is not taken for no run. *)
Record == IF obj = NoNM THEN NoNM
          ELSE [paused |-> obj.paused, reason |-> obj.reason, script |-> obj.script]

LEMMA RecordIsSome ==
  ASSUME NEW a, NEW b, NEW c
  PROVE  [paused |-> a, reason |-> b, script |-> c] # NoNM
BY DEF NoNM

LEMMA EditsInit == Init => E!Init
BY DEF Init, E!Init

LEMMA IssueIsIssue ==
  ASSUME CommandsInv, NEW p \in Person, NEW cmd \in CommandType, Issue(p, cmd)
  PROVE  E!Issue(p)
BY DEF CommandsInv, TypeOK, UnderWay, Issue, E!Issue

LEMMA FailIsRefuse ==
  ASSUME CommandsInv, NEW p \in Person, Fail(p)
  PROVE  E!Refuse(p)
BY DEF CommandsInv, UnderWay, Fail, Answer, E!Refuse

(* A step that finds a run and leaves one, with what the command asks for. *)
LEMMA WriteIsAct ==
  ASSUME CommandsInv, NEW p \in Person, call[p] # "none", AnswerWrite(p),
         NEW new \in NMType, Write(new), Record' = E!After(asked[p]),
         obj = NoNM => asked[p].kind = "create"
  PROVE  E!Act(p)
<1>1. asked[p] # Nothing /\ told[p] = ""
  BY DEF CommandsInv, UnderWay
<1>2. Record = NoNM => asked[p].kind = "create"
  BY RecordIsSome DEF Record
<1>3. asked' = asked /\ \E answer \in {"done", "failed"} : told' = [told EXCEPT ![p] = answer]
  BY DEF AnswerWrite, Answer
<1>4. QED  BY <1>1, <1>2, <1>3 DEF E!Act, Record

LEMMA PatchIsAct ==
  ASSUME CommandsInv, NEW p \in Person, Patch(p)
  PROVE  E!Act(p)
<1>1. /\ call[p] # "none" /\ asked[p] \in CommandType /\ asked[p].kind # "create"
      /\ Write(Patched(p)) /\ AnswerWrite(p) /\ obj # NoNM
  BY DEF Patch, CommandsInv, UnderWay
<1>2. Patched(p) \in NMType
  BY <1>1, PatchedFields DEF CommandsInv
<1>3. /\ obj' # NoNM
      /\ Record' = [paused |-> Patched(p).paused, reason |-> Patched(p).reason,
                    script |-> Patched(p).script]
  BY <1>1, <1>2, WriteFields DEF CommandsInv, Record
<1>4. Record = [paused |-> obj.paused, reason |-> obj.reason, script |-> obj.script]
  BY <1>1 DEF Record
<1>5. Record' = E!After(asked[p])
  <2>1. CASE asked[p].kind = "attach"
    BY <1>1, <1>3, <1>4, <2>1, PatchedFields DEF CommandsInv, E!After, Record
  <2>2. CASE asked[p].kind = "pause"
    BY <1>1, <1>3, <1>4, <2>2, PatchedFields
    DEF CommandsInv, E!After, Record, WantsPaused, WantedReason
  <2>3. CASE asked[p].kind = "run"
    BY <1>1, <1>3, <1>4, <2>3, PatchedFields
    DEF CommandsInv, E!After, Record, WantsPaused, WantedReason
  <2>4. QED  BY <1>1, <2>1, <2>2, <2>3, CommandFields
<1>6. QED  BY <1>1, <1>2, <1>5, WriteIsAct

LEMMA PutIsAct ==
  ASSUME CommandsInv, NEW p \in Person, Put(p)
  PROVE  E!Act(p)
<1>1. /\ call[p] # "none" /\ asked[p] \in CommandType /\ asked[p].kind = "create"
      /\ AnswerWrite(p)
  BY DEF Put, CommandsInv, UnderWay
<1>2. PICK phase \in {"", "InProgress", "Completed", "Failed"} : Write(Built(p, phase))
  BY DEF Put, CommandsInv, TypeOK, NMType
<1>3. /\ Built(p, phase) \in NMType
      /\ Built(p, phase).paused = asked[p].paused
      /\ Built(p, phase).reason = "" /\ Built(p, phase).script = asked[p].script
  BY <1>1, BuiltFields
<1>4. Record' = [paused |-> asked[p].paused, reason |-> "", script |-> asked[p].script]
  BY <1>2, <1>3, WriteFields DEF CommandsInv, Record
<1>5. Record' = E!After(asked[p])
  BY <1>1, <1>4 DEF E!After
<1>6. QED  BY <1>1, <1>2, <1>3, <1>5, WriteIsAct

(* Nothing is to be done when the run is as the command wants it. *)
LEMMA AlreadyDoneIsAct ==
  ASSUME CommandsInv, NEW p \in Person, AlreadyDone(p)
  PROVE  E!Act(p)
<1>1. /\ asked[p] \in CommandType /\ asked[p] # Nothing /\ told[p] = ""
      /\ obj # NoNM /\ obj.paused = WantsPaused(p) /\ obj.reason = WantedReason(p)
      /\ asked[p].kind \in {"pause", "run"}
      /\ asked' = asked /\ told' = [told EXCEPT ![p] = "done"] /\ obj' = obj
  BY DEF AlreadyDone, Answer, Sets, AsWanted, CommandsInv, UnderWay
<1>2. Record = [paused |-> obj.paused, reason |-> obj.reason, script |-> obj.script]
  BY <1>1 DEF Record
<1>3. Record' = Record /\ Record # NoNM
  BY <1>1, <1>2, RecordIsSome DEF Record
<1>4. Record = E!After(asked[p])
  BY <1>1, <1>2 DEF E!After, Record, WantsPaused, WantedReason
<1>5. QED  BY <1>1, <1>3, <1>4 DEF E!Act, Record

(* The controller's writes leave what the commands are about. *)
LEMMA OthersDelete ==
  ASSUME CommandsInv, Others
  PROVE  E!Delete \/ UNCHANGED E!vars
<1>1. asked' = asked /\ told' = told
  BY DEF Others, command
<1>2. ASSUME NEW phase \in {"InProgress", "Completed", "Failed"}, obj # NoNM,
             Write([obj EXCEPT !.phase = phase])
      PROVE  UNCHANGED E!vars
  <2> DEFINE new == [obj EXCEPT !.phase = phase]
  <2>1. /\ new \in NMType /\ new.reason = obj.reason /\ new.paused = obj.paused
        /\ new.script = obj.script
    BY DEF CommandsInv, TypeOK, NMType
  <2>2. /\ obj' # NoNM /\ obj'.reason = obj.reason /\ obj'.paused = obj.paused
        /\ obj'.script = obj.script
    BY <1>2, <2>1, WriteFields DEF CommandsInv
  <2>3. QED  BY <1>1, <1>2, <2>2 DEF E!vars
<1>3. CASE Delete
  BY <1>1, <1>3 DEF Delete, E!Delete
<1>4. CASE Seed
  BY <1>2, <1>4 DEF Seed
<1>5. CASE End
  <2>1. obj # NoNM
    <3>1. obj.phase = "InProgress"
      BY <1>5 DEF End
    <3>2. NoNM.phase = ""
      BY DEF NoNM
    <3>3. QED  BY <3>1, <3>2
  <2>2. PICK phase \in {"Completed", "Failed"} : Write([obj EXCEPT !.phase = phase])
    BY <1>5 DEF End
  <2>3. QED  BY <1>2, <2>1, <2>2
<1>6. QED  BY <1>3, <1>4, <1>5 DEF Others

LEMMA EditsNext == CommandsInv /\ [Next]_vars => [E!Next]_E!vars
<1> SUFFICES ASSUME CommandsInv, [Next]_vars PROVE E!Next \/ UNCHANGED E!vars
  OBVIOUS
<1>1. CASE UNCHANGED vars
  BY <1>1 DEF vars, command, E!vars
<1>2. CASE Others
  BY <1>2, OthersDelete DEF E!Next
<1>3. ASSUME NEW p \in Person, Step(p) PROVE E!Next \/ UNCHANGED E!vars
  <2>1. CASE IssueCreate(p) \/ IssueAttach(p) \/ IssuePause(p) \/ IssueRun(p)
    BY <2>1, Issues, IssueIsIssue DEF E!Next
  <2>2. CASE CheckScript(p) \/ Get(p)
    BY <2>2 DEF CheckScript, Get, Proceed, E!vars
  <2>3. CASE AlreadyDone(p)
    BY <2>3, AlreadyDoneIsAct DEF E!Next
  <2>4. CASE Fail(p)
    BY <2>4, FailIsRefuse DEF E!Next
  <2>5. CASE Patch(p)
    BY <2>5, PatchIsAct DEF E!Next
  <2>6. CASE Put(p)
    BY <2>6, PutIsAct DEF E!Next
  <2>7. QED  BY <1>3, <2>1, <2>2, <2>3, <2>4, <2>5, <2>6 DEF Step
<1>4. QED  BY <1>1, <1>2, <1>3 DEF Next

(* Whatever the order of their calls, the commands act one at a time. *)
THEOREM CommandsActAtOnce == Spec => ImplementsEdits
<1>1. QED
  BY EditsInit, InvHolds, EditsNext, PTL DEF Spec, ImplementsEdits, E!Spec

=============================================================================
