---------------------------- MODULE ControlPlane -----------------------------
(***************************************************************************)
(* The control plane around one place of publication: invocations that     *)
(* provision it, real chains and routes that use what is published, the    *)
(* gateway process of the published window, and the operator who takes a   *)
(* bundle away to make room for another one.                               *)
(***************************************************************************)
EXTENDS RealChain

VARIABLE gateway  \* the run the live gateway serves, or Nil

vars == <<delegation, provider, chains, gateway>>

----------------------------------------------------------------------------
(* The live gateway, of which ModelGateway has the details, and the operator *)

Rows(b) == {<<b.run, w>> : w \in Worker}

\* The process finds the reservations of the published configuration unspent.
StartGateway ==
  /\ gateway = Nil
  /\ config # Nil
  /\ Rows(config) \subseteq reserved \ settled
  /\ gateway' = config.run
  /\ UNCHANGED <<delegation, provider, chains>>

StopGateway ==
  /\ gateway # Nil
  /\ gateway' = Nil
  /\ UNCHANGED <<delegation, provider, chains>>

\* A call that was made is settled by the process that made it.
SettleRow(w) ==
  /\ gateway # Nil
  /\ <<gateway, w>> \in called
  /\ <<gateway, w>> \in reserved \ settled
  /\ settled' = settled \cup {<<gateway, w>>}
  /\ UNCHANGED <<delegation, progress, snapshots, reserved, files, chains, gateway>>

\* "LIVE_ARTIFACT_ALREADY_EXISTS": the operator moves the files away, when no
\* invocation is at work on them and the gateway is down.  Chains may be.
TakeAway ==
  /\ Quiet
  /\ gateway = Nil
  /\ ~AllAbsent
  /\ file' = [w \in Worker |-> Nil]
  /\ config' = Nil
  /\ UNCHANGED <<delegation, progress, ledger, chains, gateway>>

\* A command of another client changes the Program.
BusinessCommand ==
  /\ version < MaxVersion
  /\ version' = version + 1
  /\ UNCHANGED <<port, room, helper, sent, cursor, call, answer, work, called,
                 provider, chains, gateway>>

----------------------------------------------------------------------------

\* A route does not wait for answers: only its dispatch can fail.  A Worker
\* has the provider called only through the gateway of its run.
CallStep(c, w) ==
  \/ Send(c, w)
  \/ CallFails(c, w) /\ (c \in Route => call[c][w] = "dispatching")
  \/ AwaitResponse(c, w) /\ c \in Real
  \/ Work(c, w) /\ (called' # called => gateway = port[c].run)
  \/ Reply(c, w)

Init == DelegationInit /\ ProviderInit /\ ChainInit /\ gateway = Nil

ProvisionNext == \E p \in Provisioner : Provision(p) /\ UNCHANGED <<chains, gateway>>

ChainNext ==
  \E c \in Chain : (RealStep(c) \/ RouteStep(c) \/ Crash(c)) /\ UNCHANGED gateway

CallNext ==
  \E c \in Chain, w \in Worker : CallStep(c, w) /\ UNCHANGED <<provider, chains, gateway>>

GatewayNext == StartGateway \/ StopGateway \/ \E w \in Worker : SettleRow(w)

Next == ProvisionNext \/ ChainNext \/ CallNext \/ GatewayNext \/ TakeAway \/ BusinessCommand

Spec == Init /\ [][Next]_vars

----------------------------------------------------------------------------
(* Properties *)

ControlTypeOK ==
  /\ DelegationTypeOK
  /\ ProviderTypeOK
  /\ ChainTypeOK
  /\ gateway \in Run \cup {Nil}

\* Whoever finds the configuration finds the packages of the same bundle: of
\* two invocations that found the place empty one publishes, and the cleaning
\* of the other never removes what it did not create (_publish_live_artifacts).
BundleIsOne == config # Nil => \A w \in Worker : file[w] = config

\* No bundle is published for a reservation that was spent, although reserving
\* again answers "reserved" for it and the rows are read some steps before
\* (_assert_current_reservations).
NoSpentBundle ==
  [][(config = Nil /\ config' # Nil) => Rows(config') \subseteq reserved \ settled]_vars

\* A real chain has a request in the room of a Worker only if every Worker
\* before it has answered, helpers that outlive their call included.
AskedInOrder ==
  \A c \in Real : \A i, j \in 1 .. Last :
    (i < j /\ sent[c][Order[j]] # 0) => call[c][Order[i]] = "answered"

Answer(c, w) == room[w][answer[c][w]]

\* The result rests on one bundle and one version of the Program: each answer
\* was posted at the version of the bundle, although nothing locks the Program
\* and the bundle may be taken away meanwhile; an answer whose output names
\* the run was paid with the reservation of the bundle (_load_packages, the two
\* readings of main).
ResultIsCurrent ==
  result # Nil =>
    \A w \in Worker :
      /\ Answer(result, w).at = seen[result].version
      /\ w \in RunBound => <<seen[result].run, w>> \in called

\* The Workers a route reports deliveries for.
Reported(c) == {Order[i] : i \in 1 .. turn[c] - 1}

\* A route reports every delivery it knows of, and beyond them at most the
\* request whose dispatch failed can be in a room, now or later; a refused
\* route leaves nothing (ManagerRouteResult.deliveries).
RouteReportsDeliveries ==
  \A c \in Route :
    /\ \A w \in Reported(c) : sent[c][w] # 0
    /\ outcome[c] = "refused" => \A w \in Worker : sent[c][w] = 0
    /\ outcome[c] = "failed" =>
         \A w \in Worker : sent[c][w] # 0 => w \in Reported(c) \cup {Target(c)}
    /\ outcome[c] = "routed" => Reported(c) = {Order[i] : i \in 1 .. RouteLength}

\* Every request of a route names the version of the packages it was bound to,
\* one that the Program had reached when the request was posted, although the
\* Manager reads the Program once and the packages may be of another version
\* (ManagerRouteOperation.execute, MatrixDelegationPort.dispatch).
RequestsNameTheirBundle ==
  \A c \in Route, w \in Worker : sent[c][w] # 0 =>
    /\ asked[c] = port[c].version
    /\ asked[c] <= room[w][sent[c][w]].at

=============================================================================
