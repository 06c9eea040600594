------------------------------ MODULE RealChain ------------------------------
(***************************************************************************)
(* The two programs that ask the Workers for a bundle of ProviderState.    *)
(*                                                                         *)
(* The real chain (src/scripts/m4/run-real-chain.py) loads the bundle,     *)
(* compares the version of the Program, asks the Workers one after the     *)
(* other, each only when the one before has answered, reads the version    *)
(* again and creates its result at a fixed path.                           *)
(*                                                                         *)
(* The route of the Manager (orchestration/m4/manager_route.py) reads the  *)
(* Program once and dispatches to its targets in order, without waiting    *)
(* for an answer.                                                          *)
(***************************************************************************)
EXTENDS ProviderState

CONSTANT
  RouteLength  \* the Workers a route has, the first ones of Order

ASSUME RouteAssumption == RouteLength \in 1 .. Last

VARIABLES
  pc,       \* chain -> the step it has reached
  seen,     \* chain -> the configuration it has loaded; Nil for a route
  turn,     \* chain -> the place in Order it has come to
  asked,    \* route -> the version its request names; Nil for a chain
  outcome,  \* route -> what it reports
  result    \* the chain whose result is at the fixed path, or Nil

chains == <<pc, seen, turn, asked, outcome, result>>

\* An invocation is a real chain or a route, as its first step decides.
Real == {c \in Chain : seen[c] # Nil}
Route == {c \in Chain : asked[c] # Nil}

Target(c) == Order[turn[c]]

Reaches(c, to) == pc' = [pc EXCEPT ![c] = to]

----------------------------------------------------------------------------
(* run-real-chain *)

ReadConfig(c) ==
  /\ pc[c] = "new"
  /\ config # Nil
  /\ seen' = [seen EXCEPT ![c] = config]
  /\ Reaches(c, "loading")
  /\ UNCHANGED <<delegation, provider, turn, asked, outcome, result>>

\* The package has the bindings and the hash the configuration names: it is of
\* the same bundle.  A package that was taken away or replaced ends the chain.
LoadPackage(c) ==
  /\ pc[c] = "loading"
  /\ IF file[Target(c)] = seen[c]
     THEN /\ turn' = [turn EXCEPT ![c] = IF @ = Last THEN 1 ELSE @ + 1]
          /\ Reaches(c, IF turn[c] = Last THEN "loaded" ELSE "loading")
     ELSE Reaches(c, "done") /\ UNCHANGED turn
  /\ UNCHANGED <<delegation, provider, seen, asked, outcome, result>>

\* The Manager reads the Program; at another version the chain stops here.
ReadBefore(c) ==
  /\ pc[c] = "loaded"
  /\ IF version = seen[c].version
     THEN port' = [port EXCEPT ![c] = seen[c]] /\ Reaches(c, "running")
     ELSE Reaches(c, "done") /\ UNCHANGED port
  /\ UNCHANGED <<version, room, helper, sent, cursor, call, answer, work, called,
                 provider, seen, turn, asked, outcome, result>>

AskNext(c) ==
  /\ pc[c] = "running"
  /\ Dispatch(c, Target(c))
  /\ UNCHANGED <<provider, chains>>

\* Mutant: the chain goes on when a call has failed.
ProceedAnyway(c) ==
  /\ pc[c] = "running"
  /\ call[c][Target(c)] \in Ended
  /\ Reaches(c, IF turn[c] = Last THEN "answered" ELSE "running")
  /\ turn' = [turn EXCEPT ![c] = IF @ = Last THEN @ ELSE @ + 1]
  /\ UNCHANGED <<delegation, provider, seen, asked, outcome, result>>

\* The answer is taken and the next Worker is due; a failure ends the chain.
Proceed(c) ==
  /\ pc[c] = "running"
  /\ call[c][Target(c)] \in Ended
  /\ IF call[c][Target(c)] = "failed"
     THEN Reaches(c, "done") /\ UNCHANGED turn
     ELSE /\ Reaches(c, IF turn[c] = Last THEN "answered" ELSE "running")
          /\ turn' = [turn EXCEPT ![c] = IF @ = Last THEN @ ELSE @ + 1]
  /\ UNCHANGED <<delegation, provider, seen, asked, outcome, result>>

\* Mutant: the Program is not read again.
CompareNothing(c) ==
  /\ pc[c] = "answered"
  /\ Reaches(c, "compared")
  /\ UNCHANGED <<delegation, provider, seen, turn, asked, outcome, result>>

\* The Manager reads the Program again.
Compare(c) ==
  /\ pc[c] = "answered"
  /\ Reaches(c, IF version = seen[c].version THEN "compared" ELSE "done")
  /\ UNCHANGED <<delegation, provider, seen, turn, asked, outcome, result>>

\* The path is fixed and never overwritten: a chain that finds a result there
\* fails, after its calls were made.
CreateResult(c) ==
  /\ pc[c] = "compared"
  /\ Reaches(c, "done")
  /\ result' = IF result = Nil THEN c ELSE result
  /\ UNCHANGED <<delegation, provider, seen, turn, asked, outcome>>

\* The process of a chain or of a route dies; its helper, in a container, does not.
Crash(c) ==
  /\ pc[c] \notin {"new", "done"}
  /\ Reaches(c, "done")
  /\ call' = [call EXCEPT ![c] =
       [w \in Worker |-> IF @[w] \in Ended \cup {"idle"} THEN @[w] ELSE "failed"]]
  /\ UNCHANGED <<version, port, room, helper, sent, cursor, answer, work, called,
                 provider, seen, turn, asked, outcome, result>>

----------------------------------------------------------------------------
(* manager_route *)

Reports(c, what) ==
  /\ Reaches(c, "done")
  /\ outcome' = [outcome EXCEPT ![c] = what]

\* One snapshot.  A request for another version, and a snapshot that cannot be
\* read, are refused.  The port holds the packages of a published bundle.
ReadSnapshot(c, v) ==
  /\ pc[c] = "new"
  /\ config # Nil
  /\ port' = [port EXCEPT ![c] = config]
  /\ asked' = [asked EXCEPT ![c] = v]
  /\ \/ v = version /\ Reaches(c, "routing") /\ UNCHANGED outcome
     \/ Reports(c, "refused")
  /\ UNCHANGED <<version, room, helper, sent, cursor, call, answer, work, called,
                 provider, seen, turn, result>>

\* Mutant: the port does not compare the version with that of its packages.
RouteAnyVersion(c) ==
  /\ pc[c] = "routing"
  /\ Dispatch(c, Target(c))
  /\ UNCHANGED <<provider, chains>>

\* The port refuses a payload that is not at the version of its packages.
RouteNext(c) ==
  /\ pc[c] = "routing"
  /\ asked[c] = port[c].version
  /\ Dispatch(c, Target(c))
  /\ UNCHANGED <<provider, chains>>

\* The delivery id of the helper is recorded.
RouteDelivered(c) ==
  /\ pc[c] = "routing"
  /\ call[c][Target(c)] = "awaiting"
  /\ turn' = [turn EXCEPT ![c] = @ + 1]
  /\ IF turn[c] = RouteLength
     THEN Reports(c, "routed")
     ELSE UNCHANGED <<pc, outcome>>
  /\ UNCHANGED <<delegation, provider, seen, asked, result>>

\* Mutant: a failed dispatch is skipped.
RouteSkips(c) ==
  /\ pc[c] = "routing"
  /\ call[c][Target(c)] = "failed" \/ asked[c] # port[c].version
  /\ IF turn[c] = RouteLength
     THEN Reports(c, "failed") /\ UNCHANGED turn
     ELSE turn' = [turn EXCEPT ![c] = @ + 1] /\ UNCHANGED <<pc, outcome>>
  /\ UNCHANGED <<delegation, provider, seen, asked, result>>

\* The first dispatch that fails ends the route; what was delivered stays so
\* and is reported.
RouteFails(c) ==
  /\ pc[c] = "routing"
  /\ call[c][Target(c)] = "failed" \/ asked[c] # port[c].version
  /\ Reports(c, "failed")
  /\ UNCHANGED <<delegation, provider, seen, turn, asked, result>>

----------------------------------------------------------------------------

ChainInit ==
  /\ pc = [c \in Chain |-> "new"]
  /\ seen = [c \in Chain |-> Nil]
  /\ turn = [c \in Chain |-> 1]
  /\ asked = [c \in Chain |-> Nil]
  /\ outcome = [c \in Chain |-> "none"]
  /\ result = Nil

RealStep(c) ==
  \/ ReadConfig(c)
  \/ LoadPackage(c)
  \/ ReadBefore(c)
  \/ AskNext(c)
  \/ Proceed(c)
  \/ Compare(c)
  \/ CreateResult(c)

RouteStep(c) ==
  \/ \E v \in Version : ReadSnapshot(c, v)
  \/ RouteNext(c)
  \/ RouteDelivered(c)
  \/ RouteFails(c)

ChainTypeOK ==
  /\ pc \in [Chain -> {"new", "loading", "loaded", "running", "answered", "compared",
                       "routing", "done"}]
  /\ seen \in [Chain -> Bundle \cup {Nil}]
  /\ turn \in [Chain -> 1 .. Last + 1]
  /\ asked \in [Chain -> Version \cup {Nil}]
  /\ outcome \in [Chain -> {"none", "refused", "failed", "routed"}]
  /\ result \in Chain \cup {Nil}

=============================================================================
