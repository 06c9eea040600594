--------------------------- MODULE MCControlPlane ----------------------------
(***************************************************************************)
(* Invocations for one window, one Worker whose output names no run and    *)
(* one whose output does.                                                  *)
(***************************************************************************)
EXTENDS ControlPlane, TLC

CONSTANTS r1, architect, coach

MCWindowOf == [p \in Provisioner |-> r1]

MCOrder == <<architect, coach>>

Symmetry == Permutations(Provisioner)

=============================================================================
