---------------------------- MODULE ProviderState ----------------------------
(***************************************************************************)
(* The provisioning of a window of the real chain                          *)
(* (src/scripts/m4/provision-provider-state.py).  An invocation commits a  *)
(* snapshot and one reservation per Worker, makes sure that each of them   *)
(* is still unspent, reads the Program and publishes one package per       *)
(* Worker and then the configuration, whose presence is the commit marker  *)
(* of the bundle.  The paths are fixed: all invocations publish to the     *)
(* same place.  Nothing but the file system keeps two of them apart, and   *)
(* an invocation may stop at any step.                                     *)
(***************************************************************************)
EXTENDS MatrixDelegation

CONSTANTS
  Provisioner,  \* invocations of the script
  WindowOf,     \* invocation -> the run its configuration file names
  Order         \* the Workers in the order of WORKERS

Last == Len(Order)

ASSUME ProviderAssumption ==
  /\ WindowOf \in [Provisioner -> Run]
  /\ Order \in Seq(Worker)
  /\ Last > 0
  /\ \A w \in Worker : \E i \in 1 .. Last : Order[i] = w
  /\ \A i, j \in 1 .. Last : Order[i] = Order[j] => i = j

VARIABLES
  step,       \* invocation -> what it does next
  place,      \* invocation -> the place in Order it has come to
  read,       \* invocation -> the version of the Program it has read
  snapshots,  \* the runs whose runtime configuration is committed
  reserved,   \* the reservations made, run and Worker
  settled,    \* those that are no longer in the status "reserved"
  file,       \* Worker -> the bundle its package belongs to, or Nil
  config      \* the bundle of the published configuration, or Nil

progress == <<step, place, read>>
ledger == <<snapshots, reserved, settled>>
files == <<file, config>>
provider == <<progress, ledger, files>>

Row(p) == <<WindowOf[p], Order[place[p]]>>

\* What the packages and the configuration of an invocation are built from.
BundleOf(p) == [run |-> WindowOf[p], version |-> read[p]]

ProvisionerSteps ==
  {"new", "loaded", "clear", "reserving", "confirming", "confirmed", "publishing",
   "cleaning", "done"}

Quiet == \A p \in Provisioner : step[p] \in {"new", "done"}

Goes(p, to) == step' = [step EXCEPT ![p] = to]

\* The invocation ends, and what it knew with it.
Ends(p) ==
  /\ Goes(p, "done")
  /\ place' = [place EXCEPT ![p] = 1]
  /\ read' = [read EXCEPT ![p] = 0]

\* The next Worker of a loop over WORKERS, or what comes after the last one.
Advances(p, next) ==
  IF place[p] < Last
  THEN place' = [place EXCEPT ![p] = @ + 1] /\ UNCHANGED step
  ELSE place' = [place EXCEPT ![p] = 1] /\ Goes(p, next)

----------------------------------------------------------------------------

\* The fixture and the authorised configuration are valid and name the window.
LoadConfig(p) ==
  /\ step[p] = "new"
  /\ Goes(p, "loaded")
  /\ UNCHANGED <<delegation, place, read, ledger, files>>

AllAbsent == config = Nil /\ \A w \in Worker : file[w] = Nil

\* None of the paths exists.  They are looked at one after the other; nothing
\* rests on this being one step.
AssertAbsent(p) ==
  /\ step[p] = "loaded"
  /\ IF AllAbsent THEN Goes(p, "clear") /\ UNCHANGED <<place, read>> ELSE Ends(p)
  /\ UNCHANGED <<delegation, ledger, files>>

\* The snapshot of the window, or the answer of an earlier invocation.
CommitSnapshot(p) ==
  /\ step[p] = "clear"
  /\ Goes(p, "reserving")
  /\ snapshots' = snapshots \cup {WindowOf[p]}
  /\ UNCHANGED <<delegation, place, read, reserved, settled, files>>

\* The idempotency key names the window: a row that was reserved before is
\* answered with its first result, "reserved", even if it is settled by now.
ReserveNext(p) ==
  /\ step[p] = "reserving"
  /\ WindowOf[p] \in snapshots
  /\ reserved' = reserved \cup {Row(p)}
  /\ Advances(p, "confirming")
  /\ UNCHANGED <<delegation, read, snapshots, settled, files>>

\* Mutant: the answer to the reservation is taken for the state of the row.
ConfirmNothing(p) ==
  /\ step[p] = "confirming"
  /\ Advances(p, "confirmed")
  /\ UNCHANGED <<delegation, read, ledger, files>>

\* The current row is read; one that is not fresh any more ends the invocation.
ConfirmNext(p) ==
  /\ step[p] = "confirming"
  /\ IF Row(p) \in reserved \ settled
     THEN Advances(p, "confirmed") /\ UNCHANGED read
     ELSE Ends(p)
  /\ UNCHANGED <<delegation, ledger, files>>

ReadVersion(p) ==
  /\ step[p] = "confirmed"
  /\ read' = [read EXCEPT ![p] = version]
  /\ Goes(p, "publishing")
  /\ UNCHANGED <<delegation, place, ledger, files>>

\* A link never overwrites: the package is created where there is none.
PublishPackage(p) ==
  /\ step[p] = "publishing"
  /\ place[p] \in 1 .. Last
  /\ file[Order[place[p]]] = Nil
  /\ file' = [file EXCEPT ![Order[place[p]]] = BundleOf(p)]
  /\ place' = [place EXCEPT ![p] = @ + 1]
  /\ UNCHANGED <<delegation, step, read, ledger, config>>

\* "Publish the config last; its presence is the bundle commit marker."
PublishConfig(p) ==
  /\ step[p] = "publishing"
  /\ place[p] = Last + 1
  /\ config = Nil
  /\ config' = BundleOf(p)
  /\ Ends(p)
  /\ UNCHANGED <<delegation, ledger, file>>

\* The file before the one at the current place, the last one created, is next.
GoesBack(p) ==
  IF place[p] = 1
  THEN Ends(p)
  ELSE /\ Goes(p, "cleaning")
       /\ place' = [place EXCEPT ![p] = @ - 1]
       /\ UNCHANGED read

\* Mutant: a file counts as created before it is.
PublishFailsCleaningIt(p) ==
  /\ step[p] = "publishing"
  /\ Goes(p, "cleaning")
  /\ UNCHANGED <<delegation, place, read, ledger, files>>

\* Mutant: all paths are cleaned, created or not.
PublishFailsCleaningAll(p) ==
  /\ step[p] = "publishing"
  /\ Goes(p, "cleaning")
  /\ place' = [place EXCEPT ![p] = Last]
  /\ UNCHANGED <<delegation, read, ledger, files>>

\* The path exists or the write fails: what was created is taken back.
PublishFails(p) ==
  /\ step[p] = "publishing"
  /\ GoesBack(p)
  /\ UNCHANGED <<delegation, ledger, files>>

\* Backwards, one file at a time; one that cannot be removed is left.
CleanNext(p) ==
  /\ step[p] = "cleaning"
  /\ file' \in {file, [file EXCEPT ![Order[place[p]]] = Nil]}
  /\ GoesBack(p)
  /\ UNCHANGED <<delegation, ledger, config>>

\* An invalid document, a rejected or unanswered command, the end of the process.
Stops(p) ==
  /\ step[p] # "done"
  /\ Ends(p)
  /\ UNCHANGED <<delegation, ledger, files>>

----------------------------------------------------------------------------

ProviderInit ==
  /\ step = [p \in Provisioner |-> "new"]
  /\ place = [p \in Provisioner |-> 1]
  /\ read = [p \in Provisioner |-> 0]
  /\ snapshots = {}
  /\ reserved = {}
  /\ settled = {}
  /\ file = [w \in Worker |-> Nil]
  /\ config = Nil

Provision(p) ==
  \/ LoadConfig(p)
  \/ AssertAbsent(p)
  \/ CommitSnapshot(p)
  \/ ReserveNext(p)
  \/ ConfirmNext(p)
  \/ ReadVersion(p)
  \/ PublishPackage(p)
  \/ PublishConfig(p)
  \/ PublishFails(p)
  \/ CleanNext(p)
  \/ Stops(p)

ProviderTypeOK ==
  /\ step \in [Provisioner -> ProvisionerSteps]
  /\ place \in [Provisioner -> 1 .. Last + 1]
  /\ \A p \in Provisioner : place[p] = Last + 1 => step[p] = "publishing"
  /\ read \in [Provisioner -> Version]
  /\ snapshots \subseteq Run
  /\ reserved \subseteq Run \X Worker
  /\ settled \subseteq reserved
  /\ file \in [Worker -> Bundle \cup {Nil}]
  /\ config \in Bundle \cup {Nil}

=============================================================================
