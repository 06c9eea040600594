--------------------------- MODULE MCModelBudget ---------------------------
(***************************************************************************)
(* Two snapshots compete for the caps of one Program.  s1 may make two     *)
(* calls and s2 one; c3 asks for more than s1 has left once c1 or c2 is    *)
(* reserved, and fits again after either is settled below its maxima.      *)
(***************************************************************************)
EXTENDS ModelBudget, TLC

CONSTANTS c1, c2, c3, c4, c5, s1, s2

Tokens(input, output) ==
  [d \in Dim |-> CASE d = "input" -> input [] d = "output" -> output
                   [] OTHER -> input + 4 * output]

MCSnapshotOf ==
  c1 :> s1 @@ c2 :> s1 @@ c3 :> s1 @@ c4 :> s2 @@ c5 :> s2

MCMaxOf ==
  c1 :> Tokens(2, 1) @@ c2 :> Tokens(2, 1) @@ c3 :> Tokens(3, 1)
    @@ c4 :> Tokens(2, 2) @@ c5 :> Tokens(4, 2)

MCCapsOf ==
  s1 :> [calls |-> 2, perCall |-> Tokens(3, 1), total |-> Tokens(4, 2)]
    @@ s2 :> [calls |-> 2, perCall |-> Tokens(3, 2), total |-> Tokens(4, 3)]

MCReportable == {Tokens(0, 0), Tokens(1, 1), Tokens(2, 1), Tokens(3, 2)}

\* Reached by slots, by input, by output and by the price alike.
MCProgramCaps ==
  [slots |-> 4, input |-> 6, output |-> 4, rmb |-> 20, inputPrice |-> 1, outputPrice |-> 4]

=============================================================================
