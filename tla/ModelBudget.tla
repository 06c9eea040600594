---------------------------- MODULE ModelBudget ----------------------------
(***************************************************************************)
(* The model budget that the State Service keeps for one Program           *)
(* (src/src/awakening/state/m4/service.py over state/m4/database.py).      *)
(*                                                                         *)
(* A reservation holds its maxima until the call is settled; a settlement  *)
(* with reported usage charges what was reported, one without charges the  *)
(* maxima.  Each command is one step under the row lock of the Program     *)
(* (CommandTransactions).  A command that breaks a rule leaves only its    *)
(* rejected receipt, which is not modelled here; neither are the receipts  *)
(* of successful ones, since a second reserve of a call and a second       *)
(* settle of a reservation are refused by the rows themselves.             *)
(***************************************************************************)
EXTENDS Naturals, FiniteSets, Functions

CONSTANTS
  Call,         \* model calls; a reservation is known by its call
  Snapshot,     \* runtime config snapshots
  SnapshotOf,   \* call -> the snapshot its request names
  MaxOf,        \* call -> the maxima its request asks for
  CapsOf,       \* snapshot -> its caps
  Reportable,   \* amounts a usage receipt may report
  ProgramCaps   \* the constants of DEC-M4-006

Dim == {"input", "output", "cost"}
Amount == [Dim -> Nat]
Zero == [d \in Dim |-> 0]

Caps == [calls : Nat, perCall : Amount, total : Amount]

\* Prices are per token; rmb bounds input * inputPrice + output * outputPrice.
ProgramCapsType ==
  [slots : Nat, input : Nat, output : Nat, rmb : Nat, inputPrice : Nat, outputPrice : Nat]

ASSUME BudgetAssumption ==
  /\ IsFiniteSet(Call)
  /\ SnapshotOf \in [Call -> Snapshot]
  /\ MaxOf \in [Call -> Amount]
  /\ CapsOf \in [Snapshot -> Caps]
  /\ Reportable \subseteq Amount
  /\ ProgramCaps \in ProgramCapsType

VARIABLES
  snapshots,     \* committed runtime_config_snapshots
  reservations,  \* model_budget_reservations, by call
  ledger         \* model_usage_ledger

budget == <<snapshots, reservations, ledger>>

Reservation ==
  [status : {"absent", "reserved", "refused", "settled", "conservative_settled"},
   charged : Amount]

LedgerRow == [call : Call, charged : Amount, overBudget : BOOLEAN]

Status(c) == reservations[c].status
Terminal == {"settled", "conservative_settled"}

----------------------------------------------------------------------------
(* What is held *)

\* Mutant: a reservation holds nothing until it is settled.
HeldOnceSettled(c) == IF Status(c) \in Terminal THEN reservations[c].charged ELSE Zero

\* get_budget_totals: a reserved call holds its maxima, a settled one what it
\* was charged, a refused one nothing.
Held(c) ==
  CASE Status(c) = "reserved" -> MaxOf[c]
    [] Status(c) \in Terminal -> reservations[c].charged
    [] OTHER -> Zero

HeldBy(calls, d) == SumFunctionOnSet([c \in Call |-> Held(c)[d]], calls)
Slots(calls) == Cardinality({c \in calls : Status(c) \notin {"absent", "refused"}})

InSnapshot(s) == {c \in Call : SnapshotOf[c] = s}

Rmb(input, output) == input * ProgramCaps.inputPrice + output * ProgramCaps.outputPrice

\* The caps of the snapshot: per call, and in total for its calls.
FitsSnapshot(c) ==
  LET s == SnapshotOf[c] caps == CapsOf[s]
  IN /\ Slots(InSnapshot(s)) + 1 <= caps.calls
     /\ \A d \in Dim : /\ MaxOf[c][d] <= caps.perCall[d]
                       /\ HeldBy(InSnapshot(s), d) + MaxOf[c][d] <= caps.total[d]

\* _program_provider_policy_violations: across all snapshots of the Program.
FitsProgram(c) ==
  LET input == HeldBy(Call, "input") + MaxOf[c]["input"]
      output == HeldBy(Call, "output") + MaxOf[c]["output"]
  IN /\ Slots(Call) + 1 <= ProgramCaps.slots
     /\ input <= ProgramCaps.input
     /\ output <= ProgramCaps.output
     /\ Rmb(input, output) <= ProgramCaps.rmb

----------------------------------------------------------------------------
(* Commands *)

CreateSnapshot(s) ==
  /\ s \notin snapshots
  /\ snapshots' = snapshots \cup {s}
  /\ UNCHANGED <<reservations, ledger>>

\* A refusal is a committed result: the call id is spent either way.
Reserve(c) ==
  /\ SnapshotOf[c] \in snapshots
  /\ Status(c) = "absent"
  /\ reservations' = [reservations EXCEPT ![c].status =
       IF FitsSnapshot(c) /\ FitsProgram(c) THEN "reserved" ELSE "refused"]
  /\ UNCHANGED <<snapshots, ledger>>

\* A usage receipt reports an amount, or nothing is known.
Unknown == [status |-> "unknown"]
Reported(u) == [status |-> "reported", amount |-> u]

\* Mutant: a call of unknown usage is charged nothing.
ChargedNothing(c, usage) == IF usage = Unknown THEN Zero ELSE usage.amount

\* Mutant: what was not used is charged.
ChargedUnused(c, usage) ==
  IF usage = Unknown THEN MaxOf[c] ELSE [d \in Dim |-> MaxOf[c][d] - usage.amount[d]]

Charged(c, usage) == IF usage = Unknown THEN MaxOf[c] ELSE usage.amount

\* Mutant: the ledger row is inserted before the status is checked.
SettleUnchecked(c, usage) ==
  /\ Status(c) \in Terminal \cup {"reserved"}
  /\ reservations' = [reservations EXCEPT ![c] =
       [status |-> IF usage = Unknown THEN "conservative_settled" ELSE "settled",
        charged |-> Charged(c, usage)]]
  /\ ledger' = ledger \cup
       {[call |-> c, charged |-> Charged(c, usage),
         overBudget |-> \E d \in Dim : Charged(c, usage)[d] > MaxOf[c][d]]}
  /\ UNCHANGED snapshots

\* Only a reservation that is still "reserved" is settled, once, together with
\* its ledger row; usage above the maxima is charged in full and flagged.
Settle(c, usage) ==
  /\ Status(c) = "reserved"
  /\ reservations' = [reservations EXCEPT ![c] =
       [status |-> IF usage = Unknown THEN "conservative_settled" ELSE "settled",
        charged |-> Charged(c, usage)]]
  /\ ledger' = ledger \cup
       {[call |-> c, charged |-> Charged(c, usage),
         overBudget |-> \E d \in Dim : Charged(c, usage)[d] > MaxOf[c][d]]}
  /\ UNCHANGED snapshots

BudgetInit ==
  /\ snapshots = {}
  /\ reservations = [c \in Call |-> [status |-> "absent", charged |-> Zero]]
  /\ ledger = {}

BudgetNext ==
  \/ \E s \in Snapshot : CreateSnapshot(s)
  \/ \E c \in Call : Reserve(c)
  \/ \E c \in Call, usage \in {Unknown} \cup {Reported(u) : u \in Reportable} :
       Settle(c, usage)

BudgetSpec == BudgetInit /\ [][BudgetNext]_budget

----------------------------------------------------------------------------
(* Properties *)

BudgetTypeOK ==
  /\ snapshots \subseteq Snapshot
  /\ reservations \in [Call -> Reservation]
  /\ ledger \subseteq LedgerRow

\* By how much the calls flagged over_budget exceeded their maxima.
Excess(row, d) == IF row.charged[d] > MaxOf[row.call][d]
                  THEN row.charged[d] - MaxOf[row.call][d] ELSE 0
Flagged(calls) == {row \in ledger : row.call \in calls /\ row.overBudget}
Overrun(calls, d) ==
  SumFunctionOnSet([row \in ledger |-> Excess(row, d)], Flagged(calls))

\* What is held never exceeds a cap of the Program or of a snapshot by more
\* than the flagged overruns, in whatever order calls are reserved, settled
\* below their maxima and replaced by others; the slots never do (the gate of
\* _reserve_model_budget).
CapsHold ==
  /\ Slots(Call) <= ProgramCaps.slots
  /\ HeldBy(Call, "input") <= ProgramCaps.input + Overrun(Call, "input")
  /\ HeldBy(Call, "output") <= ProgramCaps.output + Overrun(Call, "output")
  /\ Rmb(HeldBy(Call, "input"), HeldBy(Call, "output"))
       <= ProgramCaps.rmb + Rmb(Overrun(Call, "input"), Overrun(Call, "output"))
  /\ \A s \in Snapshot :
       /\ Slots(InSnapshot(s)) <= CapsOf[s].calls
       /\ \A d \in Dim : HeldBy(InSnapshot(s), d)
                           <= CapsOf[s].total[d] + Overrun(InSnapshot(s), d)

\* The ledger and the settled reservations say the same: one row per settled
\* call, with the charged amount, and none for any other (the two writes of
\* _settle_model_budget).
LedgerBalances ==
  /\ \A row \in ledger : /\ Status(row.call) \in Terminal
                         /\ row.charged = reservations[row.call].charged
                         /\ \A other \in ledger : other.call = row.call => other = row
  /\ \A c \in Call : Status(c) \in Terminal => \E row \in ledger : row.call = c

\* A step never takes back a decision: a refused or settled call stays as it
\* is, rows stay in the ledger, and only a new reservation or an overrun
\* raises what the Program holds.
BudgetIsFinal ==
  [][/\ \A c \in Call : Status(c) \in Terminal \cup {"refused"}
          => reservations'[c] = reservations[c]
     /\ ledger \subseteq ledger'
     /\ \A c \in Call, d \in Dim :
          Status(c) = "reserved" /\ Held(c)'[d] > Held(c)[d]
            => \E row \in ledger' : row.call = c /\ row.overBudget]_budget

=============================================================================
