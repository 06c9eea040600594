--------------------------- MODULE MCStateService ---------------------------
(* A small Program for TLC: an owner, a second user, an agent and a service. *)
EXTENDS StateService, TLC

CONSTANTS u1, u2, a1, s1

MCTypeOf == u1 :> "user" @@ u2 :> "user" @@ a1 :> "agent" @@ s1 :> "service"

MCBootstrapRole ==
  u1 :> Nil @@ u2 :> "collaborator" @@ a1 :> "collaborator" @@ s1 :> "service"

=============================================================================
