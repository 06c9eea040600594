----------------------------- MODULE MCDemoRun ------------------------------
(***************************************************************************)
(* The runs and the chains are interchangeable: every action and property  *)
(* treats them alike.                                                      *)
(***************************************************************************)
EXTENDS DemoRun, TLC

Symmetry == Permutations(Run) \cup Permutations(Chain)

=============================================================================
