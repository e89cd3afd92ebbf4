--------------------------------- MODULE Edits ---------------------------------
(***************************************************************************)
(* What a person may take kubectl nm for: every command acts on the run at *)
(* one moment between its start and its answer, as if nobody else were     *)
(* there, and whoever is told that it was done can rely on that.           *)
(***************************************************************************)
CONSTANTS
  Person,
  NoRun,      \* there is no such run
  Nothing     \* the person has not issued a command

VARIABLES
  run,     \* what is on record of the run: paused, reason, script
  asked,   \* per person: the command issued last
  told     \* per person: its answer, or "" while it is under way

vars == <<run, asked, told>>

Init == run = NoRun /\ asked = [p \in Person |-> Nothing] /\ told = [p \in Person |-> ""]

(* The run, once the command has acted on it. *)
After(cmd) ==
  CASE cmd.kind = "create" -> [paused |-> cmd.paused, reason |-> "", script |-> cmd.script]
    [] cmd.kind = "attach" -> [run EXCEPT !.script = cmd.script]
    [] cmd.kind = "pause" -> [run EXCEPT !.paused = TRUE, !.reason = cmd.reason]
    [] cmd.kind = "run" -> [run EXCEPT !.paused = FALSE, !.reason = ""]

Issue(p) ==
  /\ asked[p] = Nothing \/ told[p] # ""
  /\ told' = [told EXCEPT ![p] = ""]
  /\ \A q \in Person \ {p} : asked'[q] = asked[q]
  /\ UNCHANGED run

Act(p) ==
  /\ asked[p] # Nothing /\ told[p] = ""
  /\ run = NoRun => asked[p].kind = "create"
  /\ run' = After(asked[p])
  /\ \E answer \in {"done", "failed"} : told' = [told EXCEPT ![p] = answer]
  /\ UNCHANGED asked

Refuse(p) ==
  /\ asked[p] # Nothing /\ told[p] = ""
  /\ told' = [told EXCEPT ![p] = "failed"]
  /\ UNCHANGED <<run, asked>>

Delete == run' = NoRun /\ UNCHANGED <<asked, told>>

Next == Delete \/ \E p \in Person : Issue(p) \/ Act(p) \/ Refuse(p)

Spec == Init /\ [][Next]_vars
==============================================================================
