------------------------ MODULE CommandTransactions -------------------------
(***************************************************************************)
(* How the State Services execute commands on one Program concurrently:    *)
(* each dispatch is a PostgreSQL transaction (READ COMMITTED) that holds   *)
(* two locks to its end, the row lock of the Program (lock_program) and    *)
(* the unique index entry of its idempotency key (the INSERT of            *)
(* reserve_command_receipt).  An m2 command takes the key first, an m3 or  *)
(* m4 command the Program first.  The business operation itself is         *)
(* abstract: it succeeds or breaks a business rule (StateService has it).  *)
(***************************************************************************)
EXTENDS IdempotentCommands

CONSTANT Authorised  \* requests inside their scope, membership and role

ASSUME AuthorisedAssumption == Authorised \subseteq Request

VARIABLES
  pc,           \* where each request is in its transaction
  programLock,  \* the request that holds the Program row, or Nil
  keyLock,      \* per key, the request with the uncommitted receipt, or Nil
  seen,         \* the state version a request read under the Program lock
  outcome       \* how the operation of a request ended

locals == <<pc, programLock, keyLock, seen, outcome>>
allVars == <<vars, locals>>

\* Mutant: a retry that finds its key in use locks the Program meanwhile.
FirstLockByUse(r) ==
  IF FamilyOf[r] = "m2" /\ keyLock[KeyOf[r]] = Nil THEN "key" ELSE "program"

\* Which of its two locks a command takes first.
FirstLock(r) == IF FamilyOf[r] = "m2" THEN "key" ELSE "program"

InTransaction == {"reserve", "lock", "operate", "commit"}

----------------------------------------------------------------------------
\* Mutant: the transaction ends and its uncommitted receipt stays.
ReleaseKeepingKey(r) ==
  /\ pc' = [pc EXCEPT ![r] = "done"]
  /\ programLock' = IF programLock = r THEN Nil ELSE programLock
  /\ UNCHANGED <<keyLock, seen, outcome>>

\* Rollback, or commit of a transaction that wrote nothing: the locks go.
Release(r) ==
  /\ pc' = [pc EXCEPT ![r] = "done"]
  /\ programLock' = IF programLock = r THEN Nil ELSE programLock
  /\ keyLock' = [k \in Key |-> IF keyLock[k] = r THEN Nil ELSE keyLock[k]]
  /\ UNCHANGED <<seen, outcome>>

\* Mutant: the receipt is reserved before the authorization.
BeginUnchecked(r) ==
  /\ pc[r] = "idle"
  /\ pc' = [pc EXCEPT ![r] = IF FirstLock(r) = "key" THEN "reserve" ELSE "lock"]
  /\ UNCHANGED <<vars, programLock, keyLock, seen, outcome>>

\* _assert_program_scope, _require_member and the role check come before
\* either lock, so that nobody outside the Program can occupy a key.
Begin(r) ==
  /\ pc[r] = "idle"
  /\ IF r \in Authorised
     THEN /\ pc' = [pc EXCEPT ![r] = IF FirstLock(r) = "key" THEN "reserve" ELSE "lock"]
          /\ UNCHANGED <<answers, programLock, keyLock, seen, outcome>>
     ELSE /\ answers' = [answers EXCEPT ![r] = "denied"]
          /\ Release(r)
  /\ UNCHANGED <<receipts, version, effects>>

\* Mutant: a SELECT for the receipt, then an INSERT without a unique index.
ReserveReceiptRacing(r) ==
  /\ pc[r] = "reserve"
  /\ receipts[KeyOf[r]] = Nil
  /\ keyLock' = [keyLock EXCEPT ![KeyOf[r]] = r]
  /\ pc' = [pc EXCEPT ![r] = IF FirstLock(r) = "key" THEN "lock" ELSE "operate"]
  /\ UNCHANGED <<vars, programLock, seen, outcome>>

\* INSERT ... ON CONFLICT DO NOTHING waits for an uncommitted receipt with the
\* same key; a committed one is read back and ends the transaction.
ReserveReceipt(r) ==
  /\ pc[r] = "reserve"
  /\ keyLock[KeyOf[r]] = Nil
  /\ IF receipts[KeyOf[r]] = Nil
     THEN /\ keyLock' = [keyLock EXCEPT ![KeyOf[r]] = r]
          /\ pc' = [pc EXCEPT ![r] = IF FirstLock(r) = "key" THEN "lock" ELSE "operate"]
          /\ UNCHANGED <<answers, programLock, seen, outcome>>
     ELSE /\ Reply(r, IF receipts[KeyOf[r]].print = PrintOf[r]
                      THEN receipts[KeyOf[r]].outcome ELSE "reused")
          /\ Release(r)
  /\ UNCHANGED <<receipts, version, effects>>

\* SELECT ... FOR UPDATE.  Only an m2 command compares the version; a conflict
\* is kept in its receipt.
VersionAccepted(r) == FamilyOf[r] = "m2" => Expected[r] = version

\* Mutant: a SELECT without FOR UPDATE.
ReadProgram(r) ==
  /\ pc[r] = "lock"
  /\ programLock' = r
  /\ seen' = [seen EXCEPT ![r] = version]
  /\ pc' = [pc EXCEPT ![r] = IF FirstLock(r) = "key" THEN "operate" ELSE "reserve"]
  /\ UNCHANGED <<vars, keyLock, outcome>>

LockProgram(r) ==
  /\ pc[r] = "lock"
  /\ programLock = Nil
  /\ programLock' = r
  /\ seen' = [seen EXCEPT ![r] = version]
  /\ \/ /\ VersionAccepted(r)
        /\ pc' = [pc EXCEPT ![r] = IF FirstLock(r) = "key" THEN "operate" ELSE "reserve"]
        /\ outcome' = outcome
     \/ /\ ~VersionAccepted(r)
        /\ pc' = [pc EXCEPT ![r] = "commit"]
        /\ outcome' = [outcome EXCEPT ![r] = "rejected"]
  /\ UNCHANGED <<vars, keyLock>>

\* Mutant: the operation can end without finalizing the receipt.
OperateUnfinalized(r) ==
  /\ pc[r] = "operate"
  /\ pc' = [pc EXCEPT ![r] = "commit"]
  /\ UNCHANGED <<vars, programLock, keyLock, seen, outcome>>

\* The business operation, up to the last statement before COMMIT.
Operate(r) ==
  /\ pc[r] = "operate"
  /\ \E o \in {"committed", "rejected"} : outcome' = [outcome EXCEPT ![r] = o]
  /\ pc' = [pc EXCEPT ![r] = "commit"]
  /\ UNCHANGED <<vars, programLock, keyLock, seen>>

\* Mutant: a rejected command is rolled back and keeps no receipt.
CommitDroppingRejections(r) ==
  /\ pc[r] = "commit"
  /\ IF outcome[r] = "committed"
     THEN /\ receipts' = [receipts EXCEPT ![KeyOf[r]] =
                            [print |-> PrintOf[r], outcome |-> outcome[r],
                             version |-> VersionAfter(r, outcome[r])]]
          /\ version' = VersionAfter(r, outcome[r])
          /\ effects' = Append(effects, KeyOf[r])
     ELSE UNCHANGED <<receipts, version, effects>>
  /\ Reply(r, outcome[r])
  /\ Release(r)

\* Mutant: a rejection moves the version too.
CommitMovingVersion(r) ==
  /\ pc[r] = "commit"
  /\ receipts' = [receipts EXCEPT ![KeyOf[r]] =
                    [print |-> PrintOf[r], outcome |-> outcome[r], version |-> seen[r] + 1]]
  /\ version' = seen[r] + 1
  /\ effects' = IF outcome[r] = "committed" THEN Append(effects, KeyOf[r]) ELSE effects
  /\ Reply(r, outcome[r])
  /\ Release(r)

\* COMMIT makes the receipt, the version, the events and the business rows
\* visible at once.  The version written is the one seen plus one.
CommitTransaction(r) ==
  /\ pc[r] = "commit"
  /\ LET after == IF outcome[r] = "committed" /\ FamilyOf[r] # "m4"
                  THEN seen[r] + 1 ELSE seen[r]
     IN /\ receipts' = [receipts EXCEPT ![KeyOf[r]] =
                          [print |-> PrintOf[r], outcome |-> outcome[r], version |-> after]]
        /\ version' = IF outcome[r] = "committed" THEN after ELSE version
  /\ effects' = IF outcome[r] = "committed" THEN Append(effects, KeyOf[r]) ELSE effects
  /\ Reply(r, outcome[r])
  /\ Release(r)

\* A lost connection, a constraint violation, an exception: all is undone.
RollBack(r) ==
  /\ pc[r] \in InTransaction
  /\ answers' = [answers EXCEPT ![r] = "failed"]
  /\ Release(r)
  /\ UNCHANGED <<receipts, version, effects>>

----------------------------------------------------------------------------
WaitsForKey(r, s) ==
  pc[r] = "reserve" /\ keyLock[KeyOf[r]] = s /\ s # r

WaitsForProgram(r, s) ==
  pc[r] = "lock" /\ programLock = s /\ s # r

\* Two locks and one Program: a cycle of waits has two members.
Deadlocked(r, s) ==
  /\ WaitsForKey(r, s) \/ WaitsForProgram(r, s)
  /\ WaitsForKey(s, r) \/ WaitsForProgram(s, r)

\* PostgreSQL aborts a member of a wait cycle (deadlock_timeout).
BreakDeadlock(r) ==
  /\ \E s \in Request : Deadlocked(r, s)
  /\ RollBack(r)

TxInit ==
  /\ Init
  /\ pc = [r \in Request |-> "idle"]
  /\ programLock = Nil
  /\ keyLock = [k \in Key |-> Nil]
  /\ seen = [r \in Request |-> 0]
  /\ outcome = [r \in Request |-> "none"]

Advance(r) == \/ ReserveReceipt(r)
              \/ LockProgram(r)
              \/ Operate(r)
              \/ CommitTransaction(r)

TxNext == \E r \in Request : Begin(r) \/ Advance(r) \/ RollBack(r)

\* A transaction that has begun is driven by its handler; nobody has to call.
Fairness == \A r \in Request : WF_allVars(Advance(r)) /\ WF_allVars(BreakDeadlock(r))

TxSpec == TxInit /\ [][TxNext]_allVars /\ Fairness

----------------------------------------------------------------------------
(* Properties *)

TxTypeOK ==
  /\ TypeOK
  /\ pc \in [Request -> InTransaction \cup {"idle", "done"}]
  /\ programLock \in Request \cup {Nil}
  /\ keyLock \in [Key -> Request \cup {Nil}]
  /\ seen \in [Request -> Nat]
  /\ outcome \in [Request -> {"none", "committed", "rejected"}]

\* Between reading the version and writing it no other command writes it: the
\* StateVersionConflictError of commit_state_change and the "changed while
\* lock was held" of commit_auxiliary_change are unreachable.
VersionHeld ==
  \A r \in Request :
    pc[r] \in {"operate", "commit"} => programLock = r /\ seen[r] = version

\* "Authorization must precede receipt reservation.  Otherwise an unauthorized
\* caller can occupy a legitimate idempotency key."
KeyNotOccupied ==
  \A k \in Key :
    /\ keyLock[k] # Nil => keyLock[k] \in Authorised
    /\ receipts[k] # Nil =>
         \E r \in Authorised : KeyOf[r] = k /\ PrintOf[r] = receipts[k].print

\* Commands only ever deadlock if an m2 command and an m3 or m4 command
\* arrive under one key: never within a family, nor across distinct keys.
DeadlockNeedsMixedOrder ==
  \A r, s \in Request : Deadlocked(r, s) =>
    KeyOf[r] = KeyOf[s] /\ (FamilyOf[r] = "m2") # (FamilyOf[s] = "m2")

\* Every transaction that began ends, and its locks with it.
EveryRequestEnds ==
  \A r \in Request : pc[r] \in InTransaction ~> pc[r] = "done"

\* Seen from outside, a command is one atomic step.
CommandsAreAtomic == Spec

=============================================================================
