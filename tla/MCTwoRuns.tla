------------------------------ MODULE MCTwoRuns ------------------------------
(***************************************************************************)
(* Two runs of one node: a script between Cordon and Uncordon, and a drain *)
(* between them.                                                           *)
(***************************************************************************)
EXTENDS TwoRuns, MCReconciler

DrainRun ==
  {[Plain EXCEPT !.nodeNames = <<1>>, !.script = NoScript,
                 !.actions = <<"Cordon", "Drain", "Uncordon">>]}
==============================================================================
