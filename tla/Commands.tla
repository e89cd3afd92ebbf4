------------------------------- MODULE Commands -------------------------------
(***************************************************************************)
(* kubectl nm create, attach, run and pause, call by call: people who edit *)
(* one run at the same time, next to the controller that executes it.      *)
(* Reconciler takes each command for one step; here they are the sequences *)
(* of unrelated calls that the CLI makes.  Of the spec only what the       *)
(* commands look at is kept: paused and the script.                        *)
(***************************************************************************)
EXTENDS Naturals

CONSTANTS
  Person,
  Body,         \* the script bodies, one of them empty
  Empty,
  Reason,       \* the reasons a pause may be given, "" among them
  Nothing,      \* the person has not issued a command
  MaxCommands   \* bound: commands issued

ASSUME CommandsAssumption ==
  /\ Empty \in Body
  /\ "" \in Reason
  /\ MaxCommands \in Nat

VARIABLES
  obj,       \* the NodeMaintenance in the API server
  version,   \* the last resourceVersion it gave out
  asked,     \* per person: the command under way or issued last
  told,      \* per person: its answer, or "" while it is under way
  call,      \* per person: the call the command is about to make
  copy,      \* per person: the object as the command's last Get returned it
  issued     \* commands issued so far

command == <<asked, told, call, copy, issued>>
vars == <<obj, version, command>>

NoNM == [rv |-> 0, paused |-> FALSE, reason |-> "", script |-> Empty, phase |-> ""]
NMType ==
  [rv : Nat, paused : BOOLEAN, reason : Reason, script : Body,
   phase : {"", "InProgress", "Completed", "Failed"}]

CommandType ==
  [kind : {"create"}, paused : BOOLEAN, script : Body]
  \cup [kind : {"attach"}, script : Body]
  \cup [kind : {"pause"}, reason : Reason]
  \cup [kind : {"run"}]

(* No command is "no command". *)
ASSUME NothingAssumption == Nothing \notin CommandType

Init ==
  /\ obj = NoNM /\ version = 0
  /\ asked = [p \in Person |-> Nothing]
  /\ told = [p \in Person |-> ""]
  /\ call = [p \in Person |-> "none"]
  /\ copy = [p \in Person |-> NoNM]
  /\ issued = 0

------------------------------------------------------------------------------
(* The API server.                                                         *)

(* Mutant of Write: the version is given out twice. *)
WriteTwice(new) ==
  /\ obj' = [new EXCEPT !.rv = version + 1]
  /\ UNCHANGED version

Write(new) ==
  /\ obj' = [new EXCEPT !.rv = version + 1]
  /\ version' = version + 1

------------------------------------------------------------------------------
(* A command, from its arguments to its answer.                            *)

Issue(p, cmd) ==
  /\ issued < MaxCommands
  /\ issued' = issued + 1
  /\ call[p] = "none"
  /\ asked' = [asked EXCEPT ![p] = cmd]
  /\ told' = [told EXCEPT ![p] = ""]
  /\ call' = [call EXCEPT ![p] = IF cmd.kind = "run" THEN "check" ELSE "get"]
  /\ UNCHANGED <<obj, version, copy>>

(* RunCreate wants a script, a file or inline, unless the run is created *)
(* paused; a file may be empty.                                          *)
Accepts(given, paused, script) ==
  /\ given = "nothing" => paused /\ script = Empty
  /\ given = "inline" => script # Empty

IssueCreate(p) ==
  \E given \in {"nothing", "inline", "file"}, paused \in BOOLEAN, script \in Body :
    /\ Accepts(given, paused, script)
    /\ Issue(p, [kind |-> "create", paused |-> paused, script |-> script])

IssueAttach(p) == \E script \in Body : Issue(p, [kind |-> "attach", script |-> script])
IssuePause(p) == \E reason \in Reason : Issue(p, [kind |-> "pause", reason |-> reason])
IssueRun(p) == Issue(p, [kind |-> "run"])

Answer(p, answer) ==
  /\ told' = [told EXCEPT ![p] = answer]
  /\ call' = [call EXCEPT ![p] = "none"]
  /\ copy' = [copy EXCEPT ![p] = NoNM]
  /\ UNCHANGED <<asked, issued>>

Proceed(p, next) ==
  /\ call' = [call EXCEPT ![p] = next]
  /\ copy' = [copy EXCEPT ![p] = obj]
  /\ UNCHANGED <<asked, told, issued>>

(* No such run, an object that is there already or has changed, or a call *)
(* that the server did not answer.                                        *)
Fail(p) ==
  /\ call[p] # "none"
  /\ Answer(p, "failed")
  /\ UNCHANGED <<obj, version>>

hasScript(o) == o.script # Empty

(* RunRun looks for a script before it calls setPaused. *)
CheckScript(p) ==
  /\ call[p] = "check"
  /\ obj # NoNM /\ hasScript(obj)
  /\ Proceed(p, "get")
  /\ UNCHANGED <<obj, version>>

(* The paused flag and the reason that the command wants: unpausing clears *)
(* the reason.                                                             *)
WantsPaused(p) == asked[p].kind = "pause"
WantedReason(p) == IF WantsPaused(p) THEN asked[p].reason ELSE ""

Sets(p) == asked[p].kind \in {"pause", "run"}
AsWanted(p) == obj.paused = WantsPaused(p) /\ obj.reason = WantedReason(p)

(* setPaused prints that there is nothing to do. *)
AlreadyDone(p) ==
  /\ call[p] = "get" /\ Sets(p)
  /\ obj # NoNM /\ AsWanted(p)
  /\ Answer(p, "done")
  /\ UNCHANGED <<obj, version>>

Get(p) ==
  /\ call[p] = "get"
  /\ \/ Sets(p) /\ obj # NoNM /\ ~AsWanted(p)
     \/ asked[p].kind = "attach" /\ obj # NoNM
     \/ asked[p].kind = "create"
  /\ Proceed(p, "write")
  /\ UNCHANGED <<obj, version>>

(* The answer to a write may be lost. *)
AnswerWrite(p) == \E answer \in {"done", "failed"} : Answer(p, answer)

(* Mutants of Patched: the whole object is written back as it was read, and *)
(* the reason is left alone.                                                *)
PatchedCopy(p) ==
  IF asked[p].kind = "attach" THEN [copy[p] EXCEPT !.script = asked[p].script]
  ELSE [copy[p] EXCEPT !.paused = WantsPaused(p), !.reason = WantedReason(p)]

PatchedFlag(p) ==
  IF asked[p].kind = "attach" THEN [obj EXCEPT !.script = asked[p].script]
  ELSE [obj EXCEPT !.paused = WantsPaused(p),
                   !.reason = IF WantsPaused(p) THEN WantedReason(p) ELSE @]

(* A merge patch writes its own keys into whatever object is there. *)
Patched(p) ==
  IF asked[p].kind = "attach" THEN [obj EXCEPT !.script = asked[p].script]
  ELSE [obj EXCEPT !.paused = WantsPaused(p), !.reason = WantedReason(p)]

Patch(p) ==
  /\ call[p] = "write" /\ asked[p].kind # "create"
  /\ obj # NoNM
  /\ Write(Patched(p))
  /\ AnswerWrite(p)

(* What buildNM made of the flags: an object without annotations of its own. *)
Built(p, phase) ==
  [rv |-> 0, paused |-> asked[p].paused, reason |-> "", script |-> asked[p].script,
   phase |-> phase]

(* Mutant of Replaces: the version read is not sent along. *)
ReplacesAny(p) == copy[p] # NoNM /\ obj # NoNM

Replaces(p) == copy[p] # NoNM /\ obj.rv = copy[p].rv

(* applyNM: created if the Get found nothing, else updated in the version *)
(* that was read; the status is not touched.                              *)
Put(p) ==
  /\ call[p] = "write" /\ asked[p].kind = "create"
  /\ \/ copy[p] = NoNM /\ obj = NoNM /\ Write(Built(p, ""))
     \/ Replaces(p) /\ Write(Built(p, obj.phase))
  /\ AnswerWrite(p)

------------------------------------------------------------------------------
(* The controller's status writes, and kubectl delete.                     *)

Seed == obj # NoNM /\ obj.phase = "" /\ Write([obj EXCEPT !.phase = "InProgress"])

End ==
  /\ obj.phase = "InProgress" /\ ~obj.paused
  /\ \E phase \in {"Completed", "Failed"} : Write([obj EXCEPT !.phase = phase])

Delete == obj # NoNM /\ obj' = NoNM /\ UNCHANGED version

Others == (Seed \/ End \/ Delete) /\ UNCHANGED command

Step(p) ==
  \/ IssueCreate(p) \/ IssueAttach(p) \/ IssuePause(p) \/ IssueRun(p)
  \/ CheckScript(p) \/ AlreadyDone(p) \/ Get(p) \/ Patch(p) \/ Put(p) \/ Fail(p)

Next == Others \/ \E p \in Person : Step(p)

Spec == Init /\ [][Next]_vars

------------------------------------------------------------------------------
(* Types; versions are given out once. *)
TypeOK ==
  /\ obj \in NMType /\ version \in Nat /\ obj.rv <= version
  /\ asked \in [Person -> CommandType \cup {Nothing}]
  /\ told \in [Person -> {"", "done", "failed"}]
  /\ call \in [Person -> {"none", "check", "get", "write"}]
  /\ copy \in [Person -> NMType]
  /\ issued \in 0..MaxCommands

(* Each command, whatever the order of its calls among those of others, has *)
(* the effect of one step taken alone, and the answer is true of it: a      *)
(* merge patch never takes another command's edit back.                     *)
E == INSTANCE Edits WITH
  NoRun <- NoNM,
  run <- IF obj = NoNM THEN NoNM
         ELSE [paused |-> obj.paused, reason |-> obj.reason, script |-> obj.script]
ImplementsEdits == E!Spec

(* A run that is not paused carries no reason for being paused, whoever     *)
(* pauses, runs and creates it at the same time.                            *)
ReasonOnlyWhilePaused == obj.reason # "" => obj.paused

(* A create that reports "updated" replaced the very object that it had *)
(* read: no edit, and no progress of the run, that came after its read. *)
CreateReplacesWhatItRead ==
  [][\A p \in Person :
       copy[p] # NoNM /\ call'[p] = "none" /\ told'[p] = "done" /\ asked[p].kind = "create"
       => obj = copy[p]]_vars

------------------------------------------------------------------------------
(* What the documentation says and the code does not keep.                 *)

(* attach_run.go: run "Refuses to start an NM that has no script body      *)
(* attached".  Whoever is told that the paused run was started started one *)
(* with a script.                                                          *)
RunRefusesEmpty ==
  [][\A p \in Person :
       /\ obj.paused /\ ~obj'.paused /\ obj' # NoNM
       /\ told[p] = "" /\ told'[p] = "done" /\ asked[p].kind = "run"
       => obj.script # Empty]_vars
==============================================================================
