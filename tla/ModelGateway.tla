---------------------------- MODULE ModelGateway ----------------------------
(***************************************************************************)
(* The Model Gateway (src/src/awakening/model_gateway/m4): the one         *)
(* component that may call a model provider.  A gateway process checks     *)
(* that every planned call is reserved, listens, and serves HTTP requests  *)
(* in threads; a thread claims the single-use plan of its caller, appends  *)
(* a context manifest, calls the provider, settles the budget and appends  *)
(* a skill invocation receipt.                                             *)
(*                                                                         *)
(* The claims live in the memory of the process; reservations, manifests   *)
(* and receipts live in PostgreSQL and survive it.  A crash ends the       *)
(* threads of a process wherever they are, and another process may then    *)
(* be started for the same plans.  The gateway of the in-place demo        *)
(* publishes a ready file that a second one refuses to overwrite           *)
(* (UseMarker); live_runtime has no such file.                             *)
(***************************************************************************)
EXTENDS ModelBudget

CONSTANTS
  Process,      \* gateway processes, each started at most once
  PortOf,       \* process -> the port it is told to listen on
  Thread,       \* HTTP requests, each served by a thread of its own
  Planned,      \* the calls that have a single-use plan
  RequestCall,  \* thread -> the call planned for the caller of the request
  Usage,        \* amounts the provider may consume for a call
  UseMarker     \* the gateway is the demo's

ASSUME GatewayAssumption ==
  /\ Planned \subseteq Call
  /\ RequestCall \in [Thread -> Planned]
  /\ Usage \subseteq Amount
  /\ UseMarker \in BOOLEAN

VARIABLES
  up,         \* process -> "down", "checked", "serving" or "dead"
  claimed,    \* process -> the calls whose plan is claimed
  marker,     \* the ready file exists
  pc,         \* thread -> the step it has reached
  serves,     \* process -> the threads it has served
  usage,      \* thread -> what the provider consumed for it
  manifests,  \* calls with a committed context manifest
  receipts,   \* calls with a committed skill invocation receipt
  calls,      \* call -> requests the provider has received
  used        \* call -> what the provider has consumed in total

gateway == <<up, claimed, marker, pc, serves, usage, manifests, receipts, calls, used>>
vars == <<budget, gateway>>

Outcome == {"answered", "refused", "lost"}
Step == {"new", "claimed", "read", "recorded", "called", "settled"} \cup Outcome

Serving(h) == \E g \in Process : up[g] = "serving" /\ h \in serves[g]
Add(a, b) == [d \in Dim |-> a[d] + b[d]]

\* Thread h, whose process is still there, moves from one step to another.
Goes(h, from, to) ==
  /\ pc[h] = from
  /\ Serving(h)
  /\ pc' = [pc EXCEPT ![h] = to]

----------------------------------------------------------------------------
(* Processes *)

\* _assert_committed_preconditions: every planned call is reserved, or the
\* process exits.
CheckPreconditions(g) ==
  /\ up[g] = "down"
  /\ up' = [up EXCEPT ![g] =
       IF \A c \in Planned : SnapshotOf[c] \in snapshots /\ Status(c) = "reserved"
       THEN "checked" ELSE "dead"]
  /\ UNCHANGED <<budget, claimed, marker, pc, serves, usage, manifests, receipts,
                 calls, used>>

\* A port takes one listener, and the demo's ready file is created once.
Serve(g) ==
  LET free == /\ \A other \in Process : PortOf[other] = PortOf[g] => up[other] # "serving"
              /\ UseMarker => ~marker
  IN /\ up[g] = "checked"
     /\ up' = [up EXCEPT ![g] = IF free THEN "serving" ELSE "dead"]
     /\ marker' = (marker \/ (UseMarker /\ free))
     /\ UNCHANGED <<budget, claimed, pc, serves, usage, manifests, receipts, calls, used>>

\* A crash takes the threads and the claims of the process with it.
Crash(g) ==
  /\ up[g] \in {"checked", "serving"}
  /\ up' = [up EXCEPT ![g] = "dead"]
  /\ pc' = [h \in Thread |->
       IF h \in serves[g] /\ pc[h] \notin Outcome THEN "lost" ELSE pc[h]]
  /\ claimed' = [claimed EXCEPT ![g] = {}]
  /\ UNCHANGED <<budget, marker, serves, usage, manifests, receipts, calls, used>>

----------------------------------------------------------------------------
(* Requests *)

\* A request reaches a listening process; under the lock of the plan registry
\* the first one of a caller gets the plan and any other is refused.
Claim(h, g) ==
  /\ pc[h] = "new" /\ up[g] = "serving"
  /\ pc' = [pc EXCEPT ![h] = IF RequestCall[h] \in claimed[g] THEN "refused" ELSE "claimed"]
  /\ claimed' = [claimed EXCEPT ![g] = @ \cup {RequestCall[h]}]
  /\ serves' = [serves EXCEPT ![g] = @ \cup {h}]
  /\ UNCHANGED <<budget, up, marker, usage, manifests, receipts, calls, used>>

\* The snapshot and the reservation are read, each in a transaction of its own.
Read(h) ==
  /\ Goes(h, "claimed",
          IF SnapshotOf[RequestCall[h]] \in snapshots /\ Status(RequestCall[h]) = "reserved"
          THEN "read" ELSE "refused")
  /\ UNCHANGED <<budget, up, claimed, marker, serves, usage, manifests, receipts,
                 calls, used>>

\* Mutant: a manifest that was not committed does not stop the call.
AppendManifestLoosely(h) ==
  /\ Goes(h, "read", "recorded")
  /\ manifests' \in {manifests, manifests \cup {RequestCall[h]}}
  /\ UNCHANGED <<budget, up, claimed, marker, serves, usage, receipts, calls, used>>

\* A failed append may have been committed all the same.
AppendManifest(h) ==
  /\ \/ Goes(h, "read", "recorded") /\ manifests' = manifests \cup {RequestCall[h]}
     \/ Goes(h, "read", "refused") /\ manifests' \in {manifests, manifests \cup {RequestCall[h]}}
  /\ UNCHANGED <<budget, up, claimed, marker, serves, usage, receipts, calls, used>>

\* The provider receives the request and consumes u, whatever it answers.
CallProvider(h, u) ==
  /\ Goes(h, "recorded", "called")
  /\ calls' = [calls EXCEPT ![RequestCall[h]] = @ + 1]
  /\ used' = [used EXCEPT ![RequestCall[h]] = Add(@, u)]
  /\ usage' = [usage EXCEPT ![h] = u]
  /\ UNCHANGED <<budget, up, claimed, marker, serves, manifests, receipts>>

\* The provider reported its usage; the answer of a committed settlement may
\* still be lost.
SettleReported(h) ==
  /\ Goes(h, "called", "settled") \/ Goes(h, "called", "refused")
  /\ Settle(RequestCall[h], Reported(usage[h]))
  /\ UNCHANGED <<up, claimed, marker, serves, usage, manifests, receipts, calls, used>>

\* The provider failed, timed out or answered out of form: its usage is unknown.
SettleUnknown(h) ==
  /\ Goes(h, "called", "refused")
  /\ Settle(RequestCall[h], Unknown)
  /\ UNCHANGED <<up, claimed, marker, serves, usage, manifests, receipts, calls, used>>

\* The settlement is rejected or never arrives; the provider is not called again.
SettlementFails(h) ==
  /\ Goes(h, "called", "refused")
  /\ UNCHANGED <<budget, up, claimed, marker, serves, usage, manifests, receipts,
                 calls, used>>

\* The caller gets the answer of the provider once its receipt is committed.
AppendReceipt(h) ==
  /\ \/ Goes(h, "settled", "answered") /\ receipts' = receipts \cup {RequestCall[h]}
     \/ Goes(h, "settled", "refused") /\ receipts' \in {receipts, receipts \cup {RequestCall[h]}}
  /\ UNCHANGED <<budget, up, claimed, marker, serves, usage, manifests, calls, used>>

----------------------------------------------------------------------------

Init ==
  /\ BudgetInit
  /\ up = [g \in Process |-> "down"]
  /\ claimed = [g \in Process |-> {}]
  /\ marker = FALSE
  /\ pc = [h \in Thread |-> "new"]
  /\ serves = [g \in Process |-> {}]
  /\ usage = [h \in Thread |-> Zero]
  /\ manifests = {} /\ receipts = {}
  /\ calls = [c \in Call |-> 0]
  /\ used = [c \in Call |-> Zero]

\* The State Service goes on serving the other commands of the Program.
Prepare ==
  /\ \/ \E s \in Snapshot : CreateSnapshot(s)
     \/ \E c \in Call : Reserve(c)
  /\ UNCHANGED gateway

ProcessNext(g) == CheckPreconditions(g) \/ Serve(g) \/ Crash(g)

ThreadNext(h) ==
  \/ \E g \in Process : Claim(h, g)
  \/ Read(h)
  \/ AppendManifest(h)
  \/ \E u \in Usage : CallProvider(h, u)
  \/ SettleReported(h)
  \/ SettleUnknown(h)
  \/ SettlementFails(h)
  \/ AppendReceipt(h)

Next ==
  \/ Prepare
  \/ \E g \in Process : ProcessNext(g)
  \/ \E h \in Thread : ThreadNext(h)

Spec == Init /\ [][Next]_vars

----------------------------------------------------------------------------
(* Properties *)

GatewayTypeOK ==
  /\ BudgetTypeOK
  /\ up \in [Process -> {"down", "checked", "serving", "dead"}]
  /\ claimed \in [Process -> SUBSET Planned]
  /\ marker \in BOOLEAN
  /\ pc \in [Thread -> Step]
  /\ serves \in [Process -> SUBSET Thread]
  /\ usage \in [Thread -> Amount]
  /\ manifests \subseteq Planned /\ receipts \subseteq Planned
  /\ calls \in [Call -> Nat]
  /\ used \in [Call -> Amount]

\* The provider receives at most one request for a reservation, through
\* repeated requests of a caller, failures and crashes (the single-use plan
\* of RuntimeInvocationPlan).
OneCallPerReservation == \A c \in Call : calls[c] <= 1

\* When the provider is called, the reservation read earlier is still the
\* open one, its snapshot and the manifest of the call are committed, and the
\* process that checked them is still serving (the order of M4ModelGateway.invoke).
CallsAreGated ==
  [][\A c \in Call : calls'[c] # calls[c] =>
       /\ Status(c) = "reserved"
       /\ SnapshotOf[c] \in snapshots
       /\ c \in manifests
       /\ \E g \in Process : up[g] = "serving" /\ c \in claimed[g]]_vars

\* What the provider consumes within the maxima of a reservation is held
\* against the caps from before the call on, even if the thread dies before
\* it settles or the provider never reports (the pre-call gate and the
\* conservative settlement).
SpendIsHeld ==
  \A c \in Call, d \in Dim : used[c][d] <= Held(c)[d] \/ used[c][d] > MaxOf[c][d]

\* A caller has an answer only for a call that is charged exactly what the
\* provider consumed and has its receipt, and no receipt exists for a call of
\* unknown usage or outcome (the order settle, receipt, answer).
AnswersAreAccounted ==
  /\ \A h \in Thread : pc[h] = "answered" => RequestCall[h] \in receipts
  /\ \A c \in receipts : Status(c) = "settled" /\ reservations[c].charged = used[c]

----------------------------------------------------------------------------
(* Refinement *)

\* How far a call has come, read off the reservation, the provider and the
\* receipts.
PhaseOf(c) ==
  CASE Status(c) = "absent" -> "idle"
    [] Status(c) = "refused" -> "refused"
    [] Status(c) = "reserved" -> IF calls[c] = 0 THEN "open" ELSE "spent"
    [] Status(c) = "settled" -> IF c \in receipts THEN "closed" ELSE "charged"
    [] Status(c) = "conservative_settled" -> "presumed"

SingleUse == INSTANCE SingleUseCalls WITH
  phase <- [c \in Call |-> PhaseOf(c)],
  requests <- calls,
  consumed <- used,
  charged <- [c \in Call |-> reservations[c].charged],
  delivered <- {RequestCall[h] : h \in {i \in Thread : pc[i] = "answered"}}

\* Requests, retries, threads, processes and crashes are all stutters of the
\* life of a call, or the one step that moves it on: nobody who sees only
\* reservations, provider and receipts can tell that there were several.
CallsAreSingleUse == SingleUse!Spec

=============================================================================
