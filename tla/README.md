# Verification of the Awakening AgentTeams reference implementation

TLA+ models, TLC runs and TLAPS proofs for the Python programs under `src/`:
the State Services that own a Program (its plan, its evidence and its model
budget), the Model Gateway, the one component that may call a model provider, the
programs that provision a run and ask three Workers over Matrix - the demo run, the
real chain and the route of the Manager -, and the seal of the released package.
Paths below are relative to `src/src/awakening/` unless they start with `src/`.

## 1. Inventory of the system

A *Program* is a row in PostgreSQL with a `state_version`. Users, agents and
services act on it through *commands*; each command is one `dispatch` of a
State Service facade and one PostgreSQL transaction. Before a demo run a
snapshot of the runtime configuration and three budget reservations are
committed; then a gateway process serves the three Workers, who are woken by
Matrix messages of the Manager.

| Component | State it keeps | Operations | Talks to |
|---|---|---|---|
| M2 State Service (`state/service.py`, `state/database.py`) | Program row, plan versions, proposals, approval requests, human decisions, receipts, domain events, outbox | create, submit, decide, apply, expire; queries | PostgreSQL |
| Command transactions (the three `_run_*_program_command`) | command receipts, row locks | authorise, reserve key, lock Program, operate, commit, roll back | all three facades |
| M3 evidence ingest (`state/m3`) | ingest jobs, receipts, evidence items | create, claim, finalize, reject | outbox relay, ingestion services |
| M4 model budget (`state/m4`) | runtime config snapshots, reservations, usage ledger | create snapshot, reserve, settle; apply is always rejected | gateway, demo |
| Model Gateway (`model_gateway/m4`, `adapters/m4/gateway_state.py`) | single-use claims, *in memory*; threads | claim plan, read, manifest, call, settle, receipt | State Service, provider, observability tables |
| Manifests and receipts (`context_manifest/m4`) | `context_manifests`, `skill_invocation_receipts` | idempotent append | gateway |
| Authorization, registry (`orchestration/m4`) | none (static bindings) | pure checks | gateway, adapters |
| Matrix delegation (`orchestration/m4/matrix_delegation.py`, `src/infra/agentteams/m4/runtime/m4-matrix-dispatch.sh`) | the Workers' rooms; delivery records in the container | dispatch, await response, each under a time limit | Workers, Matrix |
| Manager route (`orchestration/m4/manager_route.py`) | none | read snapshot once, dispatch to two Workers in order | State Service, Matrix delegation |
| Provisioning (`src/scripts/m4/provision-provider-state.py`) | three packages and the configuration, at fixed paths | commit snapshot, reserve, confirm, read version, publish, clean up | State Service, file system |
| Real chain (`src/scripts/m4/run-real-chain.py`) | one result at a fixed path | load bundle, ask the Workers in turn, read the Program before and after | Matrix delegation, State Service |
| Demo orchestrator (`src/scripts/demo/agentteams_in_place_demo.py`) | run directory: packages, config, ready file, result | prepare, serve gateway, run chain | all of the above |
| State MCP and HTTP adapters (`adapters/m4`) | none | translate requests | facades |
| Package seal and verifier (`src/scripts/package`) | three generated documents in the package tree, temporary files | scan, build, stage, replace, confirm; verify | file system |

What is hard here, and what would make each component correct:

- **Plans.** Proposals compete for one base plan; approvals expire while they
  are decided or applied; `restore_plan` brings old content back (an ABA hazard
  for content hashes). Correct means: one linear history, nothing changes
  without the owner's unexpired decision on exactly that change, an approval is
  spent once, and a stale proposal is dead for good.
- **Commands.** Retries under one idempotency key overlap; the reply or the
  acknowledgement of COMMIT is lost; two families take two locks in opposite
  orders. Correct means: a command is one atomic step, its effect happens once,
  all callers learn the same outcome, deadlocks end.
- **Ingest.** Services are told of a job repeatedly and late, race each other,
  and a finalization writes evidence before its last check. Correct means:
  evidence exists exactly for finalized jobs, and the outbox tells the truth.
- **Budget.** Totals are sums over reservations that settle while others are
  made; usage may be unknown, below or above the maxima. Correct means: caps
  hold, and ledger and reservations agree.
- **Gateway.** A crash anywhere between reading a reservation and settling it;
  two processes; retried requests; failed settlements and appends. Correct
  means: one call per reservation, made only with snapshot, reservation and
  manifest committed; what was consumed stays charged or held; an answer is
  given only when it is accounted for.

- **Matrix delegation and demo run.** Nothing locks the Program during a run;
  the Workers' rooms are shared by all runs; a timed-out helper still sends; a
  Worker answers late, without naming the request, or never; `prepare` and `run-chain` die anywhere and
  are started again. Correct means: an answer belongs to the run that takes it,
  no valid reply is passed over or picked among several, a completed run is about
  one version of the Program, its result is written once, and the chain ends.

- **Provisioning, real chain, route.** All invocations publish to the same fixed
  paths, without a lock; reserving again answers with history; an operator takes
  bundles away while chains use them; a chain waits for each Worker before the
  next one, a route for none. Correct means: whoever finds the configuration finds
  its packages, nothing spent is published, Workers are asked in their turn, a
  result rests on one bundle and one version, and a route asks for the version of its
  packages and reports what it did.
- **Package seal.** The tree is edited, its documents included, and sealed by others,
  while a sealer reads it file by file; sealer and verifier are two programs with
  rules of their own. Correct means: from what a sealer says of a package nobody
  touched since, one can tell what the verifier will say.

`PROJECT.json` lists every hazard at its line with the properties that cover it.

## 2. Modules

| Module | Models | Composes / implements |
|---|---|---|
| `MandatedPlan` | abstract: what the owner of a Program is promised about its plan | |
| `StateService` | the five M2 commands, each one step, with all tables and the clock | implements `MandatedPlan` (`PlanIsMandated`) |
| `IdempotentCommands` | abstract: what the services promise of a command | |
| `CommandTransactions` | the same at the level of PostgreSQL locks | implements `IdempotentCommands` (`CommandsAreAtomic`) |
| `EvidenceIngest` | the four M3 job commands | |
| `ModelBudget` | snapshot, reservation, settlement | |
| `SingleUseCalls` | abstract: the life of a model call, whoever carries it | |
| `ModelGateway` | gateway processes and threads | extends and drives `ModelBudget`; implements `SingleUseCalls` (`CallsAreSingleUse`) |
| `MatrixDelegation` | calls of the delegation port, helper, rooms; Workers as environment | |
| `DemoRun` | `prepare` and `run-chain` over the run directory | extends and drives `MatrixDelegation` |
| `ProviderState` | invocations of the provisioning script, reservations, published files | extends `MatrixDelegation` |
| `RealChain` | the real chain and the route of the Manager | extends `ProviderState`, drives `MatrixDelegation` |
| `ControlPlane` | both with the live gateway, the operator and other clients | composes `RealChain` and `ProviderState` |
| `ReleaseSeal` | sealers of a package tree, against the checks of the verifier | |
| `MC*` | constants of the TLC runs | |
| `*Proofs` | the theorems, one module per component | `ModelGatewayProofs` extends `ModelBudgetProofs` |

`CommandTransactions` is what justifies modelling a command as one step in the
other modules: the row lock of the Program is held from the first read to
COMMIT.

How state and actions correspond to the code:

- *`StateService`.* One variable per table; a row is a record, or `Absent`.
  `SubmitProposal`, `RecordHumanDecision`, `ApplyProposal`, `ExpireApproval`
  each pick a command receipt, a version and a payload. `...Allowed` is the
  conjunction of the checks of the handler, the operator without suffix its
  writes; a command that fails a check ends in `Reject`, which writes the
  rejected receipt. Reason codes, and with them the order of checks, are left
  out. A plan's content is an ordering of tasks and a body; a content hash is
  the content; a diff is its base and the two contents. The clock is `Tick`.
- *`MandatedPlan`* knows no command, version, receipt, proposal status or plan id: a
  line of contents, what the owner has mandated, whether tasks may be reordered, and
  the time. In `StateService`, `PlanAt` puts the plan versions in a line by
  their number, and `MandateOf` reads an approval as an open mandate once it is approved
  and as a spent one once it is consumed.
- *`CommandTransactions`.* `pc` of a request walks through the two locks in
  the order of its family (`FirstLock`), the operation and COMMIT. The
  operation succeeds or breaks a rule. `RollBack` is any exception or broken
  connection. `Reply` loses or distorts what the caller learns.
- *`EvidenceIngest`.* Ids that the code hashes from their inputs are those
  inputs. The events are kept in commit order. A command carries any event, version and
  claim that ever existed, which covers redelivery, delay and competing
  services; its arguments are not tied to a caller.
- *`ModelBudget`.* A call is its model_call_id with its fixed maxima and
  snapshot. `Held` is the CASE of `get_budget_totals`, `FitsSnapshot` and
  `FitsProgram` are the two lists of violations, prices per token.
- *`ModelGateway`.* A thread is one HTTP request that passed parsing and
  authentication; its steps are the transactions of `M4ModelGateway.invoke`,
  each of which commits by itself. Between them anything may happen, a crash
  included. Any append or settlement may fail before or after its commit.
  `UseMarker` selects the gateway of the demo, whose ready file
  (`_atomic_create` in `_serve_gateway`) keeps a second process of a run from
  serving; without it the module is `live_runtime`.
- *`MatrixDelegation`.* One variable entry per call, that is per chain and
  Worker. `helper` is the script in the container, `call` the subprocess that
  waits for it: `CallFails` (an error, or the limit of `subprocess.run`) ends
  the second and not the first. A room is its sequence of events, kept for ever.
  The sync token is read before the request is sent, but only events newer than
  the request count, so `cursor` starts at the request. `AwaitResponse` is one
  poll followed, for a single valid reply, by the comparison of the output with
  the package (`SameBinding`). `at` is the version at which an event was posted;
  no action reads it. Workers and gateway are the environment: a Worker gets a
  good output only by the one provider call of its reservation, which is what
  `ModelGateway` proves of the demo's gateway.
- *`DemoRun`.* `StartPrepare` is the new directory together with the first
  reading of the Program, which nobody can see apart; `CheckUnchanged` is the second
  reading. `Collect` comes after the executor has joined its threads and includes
  the second reading of `_run_chain`. `CreateResult` is `os.link`. A process may
  stop for ever at any step; `Crash` matters for a chain because its calls end with it.

- *`SingleUseCalls`* knows no process, thread or request: a call is idle, refused,
  open, spent, charged (or presumed: charged its maxima) or closed. `PhaseOf` in
  `ModelGateway` reads the phase off the reservation, the number of requests the
  provider has had and the receipts.
- *`ProviderState`.* `step` and `place` of an invocation follow `main` and its loops
  over `WORKERS`. Reservations are pairs of a run and a Worker; the keys of the code
  name the window, so a second invocation of a window finds the rows of the first.
  `PublishPackage` is the `os.link` of `_atomic_create`, which never overwrites; the
  private temporary file before it is left out. `PublishFails` and `CleanNext` are
  the `except` branch, one `unlink` at a time, each of which may fail. `Stops` ends an
  invocation anywhere. A package has the content of the bundle it was built from.
- *`RealChain`.* One set of programs, `Chain`; each becomes a real chain or a route by
  its first step. `LoadPackage` compares by content, which is what the bindings
  and the digest in the configuration amount to. `Proceed` takes the answer and moves
  on, a failed call ends the chain. A route is composed with the delegation port only
  in the repository's unit tests; its port is built from a published bundle, and
  `RouteFails` is a failed dispatch or the port's refusal of a version that is not
  that of its packages. `Crash` ends the calls of a program and not its helpers.
- *`ControlPlane`.* `gateway` is the run the live gateway serves; it starts when the
  reservations of the published configuration are unspent, and settles calls that
  were made. The operator takes a bundle away only when no invocation is at work and
  the gateway is down, as one does who answers "LIVE_ARTIFACT_ALREADY_EXISTS" with
  a new window; chains may be running. That a restarted live gateway may
  call the provider twice is the subject of `gateway_restart` and not repeated here.
- *`ReleaseSeal`.* A digest is its content. A document has entries, a function from
  paths to contents, and a form, the bytes in which they are written: the verifier
  parses it and sees the entries, the sealer compares bytes and sees both.
  `Documents` is `_build_documents`; `Verifies` is the three document checks of
  `verify_package.py`, written from that file, with the verifier's own choice of the
  files each document must name (`Expected`): from the sums it leaves out every file
  called `SHA256SUMS.txt`, in any directory (`Namesakes`), where the sealer leaves out
  the root one. It reads the sums with `splitlines`, the sealer joins them with line
  feeds, so that a path with another character at which `splitlines` cuts, as U+2028,
  makes an invalid line (`Splitting`). A scan lists one directory at a
  time and reads one file at a time, the names of a directory in their order (`Rank`);
  `todo` holds those still to be read and `stale` the documents still to be written; a
  file read while it changes is `ScanFails`. A
  temporary file is residue to the sealer and a payload file to the verifier.
  `Edit` changes, adds or removes any file; a document may be reformatted, or
  written by hand with the entries the verifier expects (`Rewritings`).
  `touched` records whether anybody else changed the tree since the last scan of a
  sealer began: what it reports can be right only if nobody did.

## 3. TLC runs

| Run | Question | Distinct states |
|---|---|---|
| `approval_flow` | competition for plans, decisions, expiry, rejected and replayed receipts | 268,891 |
| `restored_plans` | restores and old content; the plans as the owner mandated them (`MandatedPlan`) | 19,385 |
| `command_races` | atomicity, idempotency, authorisation, deadlocks between families; every transaction ends | 47,210 |
| `model_budget` | caps under reservation and settlement | 3,306 |
| `model_gateway` | the demo's gateway, two ports, crashes: each call lives the life of `SingleUseCalls` | 30,882 |
| `gateway_restart` | the live runtime restarted: expected violation | |
| `evidence_ingest` | jobs, evidence, outbox | 68,482 |
| `demo_race` | chains of one run or two in one room: whose answer is taken, and is it the only valid one | 1,403,106 |
| `demo_run` | one run with two Workers while the Program changes; the chain ends | 79,984 |
| `late_answer` | a Worker whose output names no run: expected violation | |
| `control_plane` | two invocations, a chain or a route, the gateway, the operator, a changing Program | 462,966 |
| `release_seal` | two sealers in a tree that is edited under them: what their answers mean to the verifier | 1,295,038 |

Bounds, and why they are enough:

- `approval_flow`: two proposals compete for one base, the smallest case in
  which one goes stale; two decisions, three plans, six commands; a lifetime of one
  tick and a clock that reaches two, so that every comparison with `expires_at`
  is met before, at and after it; one rejected receipt.
- `restored_plans`: three proposals and four plans, the shortest history
  in which a plan is left, restored and the old proposal tried again; the clock
  stands still and nothing is rejected, which the other run has. `PlanIsMandated`
  is checked here, where stale mandates meet restored contents. Its deadlines need the
  clock: it holds on the instance of `approval_flow` and with `MaxTime = 1` here too
  (177,354 states), too slow for a routine run, and the proof covers every bound.
- `command_races`: a request, its retry, a rival at the same version, an m3
  command that reuses the key and an outsider: each role of the properties once.
  The m2 and the m3 command on one key meet in both lock orders. Deadlocks on more
  than two requests need no more: two locks and one Program give cycles of two.
- `model_budget`: five calls in two snapshots whose caps bind by slots, input,
  output and price, with calls that fit only after another settled low.
- `model_gateway`: a call asked for twice and another one; two processes, each
  started once; usage of nothing, the maximum, and above it.
- `evidence_ingest`: three jobs, so that an event, a claim and a verdict can
  each belong to another one.

- `demo_race`: two chains and two runs, so that a reply may come from the other
  chain of the same run or from another run, at the same version or at another one;
  the chains and the runs are symmetric (no liveness is checked there).
- `demo_run`: two versions more than the first, so that the Program changes before
  and after the answers; two Workers, one of each kind, so that one may fail
  or lag while the other answers. `late_answer` needs one Worker and two runs.

- `control_plane`: two invocations of one window, so that they meet at every step of
  publishing and cleaning and the second one finds spent rows; one chain, which is
  a real chain or a route; two Workers, one whose output names the run; one change of
  the Program. A second chain (6.9 million states, too many for a routine run) adds
  rivals for the rooms and the result path, which `demo_race` has and the proofs
  cover for any number.
- `release_seal`: two sealers and one edit. Four files that are present or not, with
  two contents each: two in the scope of the pins, of which a package has one, the
  second with a path that does not fit a line of the sums; one the verifier requires; one
  called `SHA256SUMS.txt`. One edit is enough to change a file between two reads or two
  scans, or to write a document by hand, as in a package that is called "stale" and
  verifies; and the second sealer changes the tree as often as it writes.

`MaxVersion` bounds the commands of other clients. `MaxTime` and `MaxRejected` bound the clock and the rejected receipts inside the
guards, `MaxEdits` the edits of the package tree; everything else is bounded by the finite sets of ids. Where a run says
`CHECK_DEADLOCK FALSE` the system does come to rest: all requests answered, all
jobs closed, all processes dead.

**Fairness** is assumed in two modules. In `CommandTransactions`: weak fairness of
`Advance` (a transaction that began is driven by its handler thread and by the
database) and of `BreakDeadlock` (PostgreSQL's `deadlock_timeout`).
Nothing forces a caller to call. `EveryRequestEnds` is checked under it. In `DemoRun`: weak fairness of a chain's
own sequential steps, of `Dispatch` (the executor has a thread for each call) and of
`CallFails` (the time limits of `subprocess.run`). Neither the delivery of a request
nor a Worker, a gateway or `prepare` is fair; `ChainsEnd` is checked under it. `ControlPlane` and `ReleaseSeal`
assume none: nobody is bound to provision, to run a chain or to seal.

**Findings.** `gateway_restart` violates `OneCallPerReservation`.
`model_gateway/m4/http_adapter.py:191` promises to "claim a pre-reserved call
once", but claims live in one process, and a process of `live_runtime` checks
only that reservations are still reserved. One process dies between
`provider.invoke` and the settlement, and the next one, which checked its
preconditions before that, calls the provider again. The demo's gateway is not
affected: the ready file stops the second process.

`late_answer` violates `EveryAnswerIsCorrelated`. `src/docs/JUDGE_GUIDE.en.md:66`
says that inputs and outputs are correlated "by role, run ID, event ID, and hash".
The helper takes a message that names no request for the reply it waits for
(`m4-matrix-dispatch.sh:809`), and the Architect's output is compared only with
the Program and its version. Two runs at one version, the first of which gave up:
its late reply becomes the second run's answer. `AnswersBelongToTheirRun` is what
does hold: a reply that names its request, or a Worker whose output names the run.

One more disagreement is part of a property that holds. `verify_package.py:610` takes
every file whose base name is `SHA256SUMS.txt` out of the set the sums must have,
`seal_package.py:459-463` only the root one; `src/config/README.md:55` says that the
root file "binds every unpacked file except itself". A package with a second file of
that name is sealed, called "current", and refused with
`SHA256SUMS_FILE_SET_MISMATCH`; one with a path that `splitlines` cuts is refused too. That is
why `SealMeansVerified` does not say that a sealed package verifies: it says that it does
exactly if it has the required files and no file of these two kinds. Conversely a
package may be "stale" to the sealer and pass the verification, if its documents say the
right thing in another form; for a package whose sums nobody edited this is excluded.

## 4. Proofs

All theorems hold for every value of the constants that meets the named
assumptions of the modules (finite or well-typed sets of ids, maps between
them, NULL being no id).

- **`StateServiceProofs`.** The inductive invariant `IInv` adds to the type
  invariant and to `LinearHistory` that statuses of proposal and approval agree
  (`StatusesAgree`), and that each proposal, decision and plan row is sound by
  itself: what it refers to exists and was copied from it. `OwnerControlsPlan`
  is not inductive alone, since it speaks of a decision that was checked one or
  two commands earlier; the soundness of the rows carries that knowledge.
  Theorems: type, linear history, owner's control, approvals spent once,
  checks imply the compare-and-set, one command per version, and the action
  properties on stale proposals, restores and kept history.
  `PlanAlwaysMandated` is the refinement of `MandatedPlan`. Its invariant `MInv` adds to
  `IInv` that every place of the line is taken (`NoGap`), so that the line is a sequence
  with the active plan last, and that an approval names a plan that exists, ends
  within the lifetime from now, and passes its deadline on to its decision (`Timely`).
  A creation founds the line, a decision to approve gives a mandate, a high-risk application
  spends one, a low-risk one reorders; everything else is invisible.
- **`CommandTransactionsProofs`.** `TxInv` says which locks a
  request holds at which step, that what it read has not changed, and that a
  request about to commit still may. From it follow
  `VersionHeld`, `KeyNotOccupied`, `DeadlockNeedsMixedOrder` and the refinement:
  each step of the transactions is a step of `IdempotentCommands` or a stutter.
  `AnswersAgree`, `EffectOnce` and `CommittedAtExpected` are proved for the
  abstract specification and obtained through the refinement.
- **`ModelBudgetProofs`.** Type, balanced ledger, finality of reservations, and the caps.
  `CapsHold` compares sums over sets of rows with constants. The lemmas about such
  sums (what one changed row does to a sum, that a sum is monotonic) rest on
  what `SumFunctionOnSet` computes for a set with one element more, which is obtained
  from the well-foundedness of the proper-subset relation on finite sets. On top of
  them: a step moves at most one call (`OneCallMoves`); a grant fits beside all that is
  held (`GrantFits`); a settlement adds no more than it flags (`FlaggedMovesKeepCaps`).
  `CapsHoldWithinMaxima` says the same with no allowance, every call counted
  up to the maxima it reserved: only a call above its own maxima can break a cap.
- **`ModelGatewayProofs`.** `GInv` adds that at most one process ever serves,
  that a thread past its claim is the only one for its call, and what holds at
  each step of a thread. The four safety theorems and the refinement assume
  `UseMarker`, which the finding shows to be needed; the type theorem does not.
  `GatewayImplementsSingleUse` maps every step of the gateway to a step of
  `SingleUseCalls` or to a stutter: under `GInv` the one thread that is past its claim
  is the only one that can move its call on, so that retries, second processes and
  crashes leave no trace in the abstract state.
  The budget's invariant holds under the gateway's steps as well
  (`BudgetInvUnderGateway`), so `GatewayKeepsCaps` needs no ready file. With it,
  `SpendAlwaysFitsCaps` goes from the books to the provider: what it has consumed for
  all calls, each up to its maxima, fits every cap at every moment, also after a crash
  before the settlement, since what is consumed is still held.
- **`EvidenceIngestProofs`.** `JInv` adds the version that goes with each
  status, which is why the check and the update of a finalization cannot disagree.
- **`DemoRunProofs`.** The invariant adds to the types what a chain's port was built
  from (`PortInv`), that rooms only grow and each event is older than its readers
  (`RoomInv`), what is known of an accepted reply (`AnswerInv`) and of a
  draft (`DraftInv`). `CompletedRunIsCurrent` follows because the version never
  falls: an accepted reply is newer than its request, which is newer than the
  first reading, and the second reading finds the same version.
  `DemoNoReplyPassedOver` needs that what a helper has read, the room from its request up
  to its cursor, holds no valid reply while it waits and exactly the taken one afterwards
  (`ReadInv`); rooms only grow, so what arrives later lies beyond the cursor.

- **`ControlPlaneProofs`.** For any number of windows, invocations, Workers, chains and
  routes. The first package is a lock: at most one invocation is past it (`PlaceInv`:
  what each invocation holds, and that what is published is owned by one of them or
  complete), which makes `BundleIsOne` inductive although nobody locks anything. Rows
  stay fresh while no configuration is there (`FreshInv`): only the gateway settles
  rows, it serves what is published, and the operator takes away only what it no longer
  serves; so a confirmation stays true until the configuration is created. `OrderInv` and
  `RouteInv` say that no helper runs beyond the Worker whose turn it is, and `RequestInv`
  ties what a helper has sent, or is about to, to the packages of its chain, however long
  it outlives the call.
  `ResultIsCurrent` needs `AnswerInv` (an accepted answer is newer than its request),
  `RoomInv`, and that the two readings found the same version, which never falls; what a
  chain relies on in rooms and calls never changes later (`StepKeeps`).

- **`ReleaseSealProofs`.** For any directories, any order of names, any files of either
  kind the two programs treat differently, and any number of sealers, edits and crashes.
  `SealInv` says what the scan of a sealer holds while nobody else
  touches the tree (`ScansSound`): exactly the files of the directories visited, less
  those still to be read, each with the content it has in the tree. At the end of
  an untouched scan that is the payload the verifier reads (`BuiltOfTree`). The entries
  the sealer builds are those the verifier expects exactly if no file of the two kinds is
  present (`FreshIsVerified`). Conversely, sums in the sealer's form were built by a
  sealer and bind, through the bytes of the other two documents, a whole seal
  (`WellBuilt`): if they verify, all three documents are those the sealer would build
  (`VerifiedIsFresh`), and it does not call them stale.

Some theorems state properties that no passing run lists, since they are simpler than
those it does list: `HistoryIsKept`, `CommittedAtItsVersion`,
`BudgetTypeCorrect`, `BudgetStaysFinal`, `CapsHoldWithinMaxima`, `SpendAlwaysFitsCaps`,
`ReservationsAreCalledOnce`, `AnswersAreAlwaysAccounted`, `VerdictsStayFinal`,
`DemoTypeCorrect`, `DemoResultFinal`. TLC agrees with `CapsHoldWithinMaxima` and `SpendAlwaysFitsCaps` on the
instances of `model_budget` and `model_gateway`.

Only model-checked: `EveryRequestEnds` and `ChainsEnd`, liveness under fairness.

## 5. Not modelled

- Validation, serialisation, hashing and reason codes, except where a guard or
  a property depends on them. Arithmetic is unbounded: the totals fit `bigint`.
- In the Matrix helper: delivery records, the retries of a failed poll, and the
  limit of 20 events per poll, beyond which Matrix drops older events of a room.
  In the demo: the provider wrapper that counts calls in the gateway process (the
  reservations bound them anyway) and the DNS override.
- The migrations are not in the repository; tables are modelled from their use.
- Queries, the MCP and HTTP adapters and the fail-closed gateway change no
  state. Registry and authorization are pure checks over static bindings.
- The result of the real chain records the digest of a first reading of the
  configuration and uses the plans of a second one (`run-real-chain.py:355`); the model
  reads it once. The Reviewer's own dispatch operation differs from that of the
  other Workers only in its payload, and is modelled with theirs.
- `Verifies` is the verifier's answer on a package that passes its other checks. A document
  that no longer parses, or has a wrong digest, is modelled by its absence: it fails the
  verifier and is stale to the sealer all the same.
- Of the package: the text boundary, the authorities of version and test count, the
  evidence runs, the entry points, and file names and types. They are checks of single
  files and can only end a sealer or a verification. A rename of directories during a
  walk and a clock too coarse to see a file change are left out.
- Scripts that provision databases or launch; agents, skills and schemas.
- A second settlement of one call by another process is rejected in the model.
  The code replays it if the usage receipt is identical byte for byte, which
  needs the provider to repeat its request id and its answer.
- No command releases a reservation or a claim, and no scheduler expires
  approvals: there is no liveness to state for them.

## 6. Plan

Done, in order of importance: plans, command transactions, budget, gateway, ingest,
delegation and demo run; then the gateway's abstract specification and its refinement,
provisioning, the real chain and the route of the Manager with their proofs, and the
package seal; then the owner's view of the plan (`MandatedPlan`) with its refinement, and the
proofs of the caps, of the spending under the gateway and of the seal. Next:

1. `DemoRun` and `ControlPlane` over `ModelGateway` itself, in place of their one-call
   environment, with the observed provider of `serve-gateway`: a completed result means
   three accounted calls.
2. The delivery records of the Matrix helper and its retried polls.
3. Proofs of these.
