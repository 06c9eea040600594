--------------------------- MODULE MCModelGateway ---------------------------
(***************************************************************************)
(* One run of two planned calls: the caller of c1 sends its request twice, *)
(* the caller of c2 once, and a second process may be started.             *)
(***************************************************************************)
EXTENDS ModelGateway, TLC

CONSTANTS c1, c2, s1, retry1, retry2, other, g1, g2

Tokens(input, output) ==
  [d \in Dim |-> CASE d = "input" -> input [] d = "output" -> output
                   [] OTHER -> input + 4 * output]

MCSnapshotOf == c1 :> s1 @@ c2 :> s1
MCMaxOf == c1 :> Tokens(1, 1) @@ c2 :> Tokens(1, 1)
MCCapsOf == s1 :> [calls |-> 2, perCall |-> Tokens(1, 1), total |-> Tokens(2, 2)]
MCProgramCaps ==
  [slots |-> 2, input |-> 2, output |-> 2, rmb |-> 10, inputPrice |-> 1, outputPrice |-> 4]

MCRequestCall == retry1 :> c1 @@ retry2 :> c1 @@ other :> c2

MCTwoPorts == g1 :> 18190 @@ g2 :> 18191
MCOnePort == g1 :> 18190 @@ g2 :> 18190

\* Within the maxima, and one report above them.
MCUsage == {Tokens(1, 1), Tokens(0, 0), Tokens(2, 1)}
MCReportable == MCUsage

=============================================================================
