----------------------- MODULE MCCommandTransactions ------------------------
(***************************************************************************)
(* Two calls of one m2 request (a retry), an m2 request racing them at the *)
(* same version, an m3 request that reuses the key of the first, and a     *)
(* caller from outside the Program.                                        *)
(***************************************************************************)
EXTENDS CommandTransactions

CONSTANTS retry1, retry2, rival, ingest, outsider, k1, k2

MCKeyOf ==
  [r \in Request |-> CASE r \in {retry1, retry2, ingest} -> k1
                       [] OTHER -> k2]

MCPrintOf ==
  [r \in Request |-> CASE r \in {retry1, retry2} -> "propose"
                       [] r = rival -> "apply"
                       [] r = ingest -> "claim"
                       [] OTHER -> "forged"]

MCFamilyOf ==
  [r \in Request |-> IF r = ingest THEN "m3" ELSE "m2"]

MCExpected == [r \in Request |-> 0]

=============================================================================
