--------------------- MODULE CommandTransactionsProofs ----------------------
(***************************************************************************)
(* Proofs about the concurrent execution of commands, for any number of    *)
(* requests and keys: the locks are what the program counters say, nobody  *)
(* else moves the version under a held lock, the safety properties of      *)
(* CommandTransactions follow, and CommandTransactions implements          *)
(* IdempotentCommands.                                                     *)
(***************************************************************************)
EXTENDS CommandTransactions, TLAPS

----------------------------------------------------------------------------
(* The promise of IdempotentCommands, for any set of requests and keys:    *)
(* what is proved of it here holds of every implementation of it, and is   *)
(* carried over to CommandTransactions at the end.                         *)

\* The receipt of a committed m2 command bears the version its request expects.
StampedAtExpected ==
  \A r \in Request :
    /\ FamilyOf[r] = "m2"
    /\ receipts[KeyOf[r]] # Nil
    /\ receipts[KeyOf[r]].print = PrintOf[r]
    /\ receipts[KeyOf[r]].outcome = "committed"
    => receipts[KeyOf[r]].version = Expected[r] + 1

\* The inductive invariant.
Promise == TypeOK /\ AnswersAgree /\ EffectOnce /\ StampedAtExpected

\* The promise holds before any request is answered.
LEMMA PromiseInit == Init => Promise
  BY RequestAssumption
     DEF Init, Promise, TypeOK, Answers, AnswersAgree, EffectOnce, StampedAtExpected

\* A reply tells a caller the outcome it is given, or nothing of it.
LEMMA ReplyTells ==
  ASSUME NEW r \in Request, TypeOK, NEW a \in {"committed", "rejected", "reused"},
         Reply(r, a)
  PROVE  /\ answers' \in [Request -> Answers]
         /\ answers'[r] \in {a, "lost", "failed"}
         /\ \A s \in Request : s # r => answers'[s] = answers[s]
  BY DEF Reply, TypeOK, Answers

\* Deciding a request keeps the promise.
LEMMA DecideKeeps ==
  ASSUME Promise, NEW r \in Request, NEW o \in {"committed", "rejected"}, Decide(r, o)
  PROVE  Promise'
<1> USE RequestAssumption
<1> DEFINE row == [print |-> PrintOf[r], outcome |-> o, version |-> VersionAfter(r, o)]
<1>0. TypeOK
  BY DEF Promise
<1>1. /\ answers[r] = "none" /\ receipts[KeyOf[r]] = Nil /\ Possible(r, o)
      /\ receipts' = [receipts EXCEPT ![KeyOf[r]] = row]
      /\ version' = VersionAfter(r, o)
      /\ effects' = IF o = "committed" THEN Append(effects, KeyOf[r]) ELSE effects
      /\ Reply(r, o)
  BY DEF Decide
<1>2. VersionAfter(r, o) \in Nat
  BY <1>0 DEF VersionAfter, TypeOK
<1>3. row \in Receipt /\ row # Nil
  BY <1>2, NilAssumption DEF Receipt
<1>4. /\ answers' \in [Request -> Answers]
      /\ answers'[r] \in {o, "lost", "failed"}
      /\ \A s \in Request : s # r => answers'[s] = answers[s]
  BY <1>0, <1>1, ReplyTells
<1>5. /\ receipts'[KeyOf[r]] = row
      /\ \A k \in Key : k # KeyOf[r] => receipts'[k] = receipts[k]
  BY <1>0, <1>1 DEF TypeOK
<1> HIDE DEF row
<1>6. TypeOK'
  <2>1. receipts' \in [Key -> Receipt \cup {Nil}]
    BY <1>0, <1>1, <1>3 DEF TypeOK
  <2>2. effects' \in Seq(Key)
    BY <1>0, <1>1 DEF TypeOK
  <2> QED BY <1>1, <1>2, <1>4, <2>1, <2>2 DEF TypeOK
<1>7. AnswersAgree'
  <2> SUFFICES ASSUME NEW s \in Request, answers'[s] \in {"committed", "rejected"}
               PROVE  /\ receipts'[KeyOf[s]] # Nil
                      /\ receipts'[KeyOf[s]].print = PrintOf[s]
                      /\ receipts'[KeyOf[s]].outcome = answers'[s]
    BY DEF AnswersAgree
  <2>1. CASE s = r
    BY <2>1, <1>3, <1>4, <1>5 DEF row
  <2>2. CASE s # r
    <3>1. KeyOf[s] # KeyOf[r]
      BY <2>2, <1>1, <1>4 DEF Promise, AnswersAgree
    <3> QED BY <2>2, <3>1, <1>4, <1>5 DEF Promise, AnswersAgree
  <2> QED BY <2>1, <2>2
<1>8. EffectOnce'
  <2>1. CASE o = "committed"
    <3>1. /\ Len(effects') = Len(effects) + 1
          /\ effects'[Len(effects) + 1] = KeyOf[r]
          /\ \A i \in 1..Len(effects) : effects'[i] = effects[i]
      BY <1>0, <1>1, <2>1 DEF TypeOK
    <3>2. Len(effects) \in Nat
      BY <1>0 DEF TypeOK
    <3>3. \A i \in 1..Len(effects) : effects[i] # KeyOf[r]
      BY <1>1 DEF Promise, EffectOnce
    <3>4. \A i, j \in 1..Len(effects') : effects'[i] = effects'[j] => i = j
      BY <3>1, <3>2, <3>3 DEF Promise, EffectOnce
    <3>5. ASSUME NEW k \in Key
          PROVE  (\E i \in 1..Len(effects') : effects'[i] = k)
                   <=> (receipts'[k] # Nil /\ receipts'[k].outcome = "committed")
      <4>1. CASE k = KeyOf[r]
        <5>1. Len(effects) + 1 \in 1..Len(effects')
          BY <3>1, <3>2
        <5> QED BY <4>1, <5>1, <3>1, <1>3, <1>5, <2>1 DEF row
      <4>2. CASE k # KeyOf[r]
        <5>1. (\E i \in 1..Len(effects') : effects'[i] = k)
                <=> (\E i \in 1..Len(effects) : effects[i] = k)
          BY <4>2, <3>1, <3>2
        <5> QED BY <4>2, <5>1, <1>5 DEF Promise, EffectOnce
      <4> QED BY <4>1, <4>2
    <3> QED BY <3>4, <3>5 DEF EffectOnce
  <2>2. CASE o = "rejected"
    <3>1. effects' = effects /\ row.outcome = "rejected"
      BY <1>1, <2>2 DEF row
    <3>2. ASSUME NEW k \in Key
          PROVE  (receipts'[k] # Nil /\ receipts'[k].outcome = "committed")
                   <=> (receipts[k] # Nil /\ receipts[k].outcome = "committed")
      BY <3>1, <1>1, <1>5
    <3> QED BY <3>1, <3>2 DEF Promise, EffectOnce
  <2> QED BY <2>1, <2>2
<1>9. StampedAtExpected'
  <2> SUFFICES ASSUME NEW s \in Request, FamilyOf[s] = "m2",
                      receipts'[KeyOf[s]] # Nil,
                      receipts'[KeyOf[s]].print = PrintOf[s],
                      receipts'[KeyOf[s]].outcome = "committed"
               PROVE  receipts'[KeyOf[s]].version = Expected[s] + 1
    BY DEF StampedAtExpected
  <2>1. CASE KeyOf[s] = KeyOf[r]
    <3>1. PrintOf[s] = PrintOf[r] /\ o = "committed"
      BY <2>1, <1>5 DEF row
    <3>2. FamilyOf[r] = "m2" /\ Expected[r] = Expected[s]
      BY <3>1, PrintAssumption
    <3>3. VersionAfter(r, o) = Expected[s] + 1
      BY <3>1, <3>2, <1>1 DEF VersionAfter, Possible
    <3> QED BY <2>1, <3>3, <1>5 DEF row
  <2>2. CASE KeyOf[s] # KeyOf[r]
    BY <2>2, <1>5 DEF Promise, StampedAtExpected
  <2> QED BY <2>1, <2>2
<1> QED BY <1>6, <1>7, <1>8, <1>9 DEF Promise

\* Replaying an answer keeps the promise.
LEMMA ReplayKeeps ==
  ASSUME Promise, NEW r \in Request, Replay(r)
  PROVE  Promise'
<1> USE RequestAssumption
<1> DEFINE a == IF receipts[KeyOf[r]].print = PrintOf[r]
                THEN receipts[KeyOf[r]].outcome ELSE "reused"
<1>0. TypeOK
  BY DEF Promise
<1>1. /\ receipts[KeyOf[r]] # Nil /\ Reply(r, a)
      /\ UNCHANGED <<receipts, version, effects>>
  BY DEF Replay
<1>2. a \in {"committed", "rejected", "reused"}
  BY <1>0, <1>1 DEF TypeOK, Receipt
<1>3. /\ answers' \in [Request -> Answers]
      /\ answers'[r] \in {a, "lost", "failed"}
      /\ \A s \in Request : s # r => answers'[s] = answers[s]
  BY <1>0, <1>1, <1>2, ReplyTells
<1>4. TypeOK'
  BY <1>0, <1>1, <1>3 DEF TypeOK
<1>5. AnswersAgree'
  <2> SUFFICES ASSUME NEW s \in Request, answers'[s] \in {"committed", "rejected"}
               PROVE  /\ receipts'[KeyOf[s]] # Nil
                      /\ receipts'[KeyOf[s]].print = PrintOf[s]
                      /\ receipts'[KeyOf[s]].outcome = answers'[s]
    BY DEF AnswersAgree
  <2>1. CASE s = r
    BY <2>1, <1>1, <1>3
  <2>2. CASE s # r
    BY <2>2, <1>1, <1>3 DEF Promise, AnswersAgree
  <2> QED BY <2>1, <2>2
<1>6. EffectOnce' /\ StampedAtExpected'
  BY <1>1 DEF Promise, EffectOnce, StampedAtExpected
<1> QED BY <1>4, <1>5, <1>6 DEF Promise

\* A failed request keeps the promise.
LEMMA FailKeeps ==
  ASSUME Promise, NEW r \in Request, Fail(r)
  PROVE  Promise'
  BY RequestAssumption
     DEF Fail, Promise, TypeOK, Answers, AnswersAgree, EffectOnce, StampedAtExpected

\* Every step keeps the promise.
LEMMA PromiseNext == Promise /\ [Next]_vars => Promise'
<1> SUFFICES ASSUME Promise, [Next]_vars PROVE Promise'
  OBVIOUS
<1>1. CASE UNCHANGED vars
  BY <1>1 DEF vars, Promise, TypeOK, AnswersAgree, EffectOnce, StampedAtExpected
<1>2. CASE Next
  BY <1>2, DecideKeeps, ReplayKeeps, FailKeeps DEF Next
<1> QED BY <1>1, <1>2

\* The promise always holds.
LEMMA PromiseIsKept == Spec => []Promise
  BY PromiseInit, PromiseNext, PTL DEF Spec

\* An m2 command whose caller learned that it committed did so exactly at the
\* version the caller had read.
LEMMA CommittedAtExpectedFollows == Promise => CommittedAtExpected
  BY RequestAssumption DEF Promise, AnswersAgree, StampedAtExpected, CommittedAtExpected

----------------------------------------------------------------------------
(* Type correctness *)

\* The initial state is well typed.
LEMMA TypeInit == TxInit => TxTypeOK
  BY RequestAssumption DEF TxInit, Init, TxTypeOK, TypeOK, Answers, InTransaction

\* What every use of Reply gives for the types.
LEMMA ReplyType ==
  ASSUME NEW r \in Request, TxTypeOK,
         NEW a \in {"committed", "rejected", "reused"}, Reply(r, a)
  PROVE  answers' \in [Request -> Answers]
  BY DEF TxTypeOK, TypeOK, Answers, Reply

\* Giving up the locks keeps the types.
LEMMA ReleaseType ==
  ASSUME NEW r \in Request, TxTypeOK, Release(r)
  PROVE  /\ pc' \in [Request -> InTransaction \cup {"idle", "done"}]
         /\ programLock' \in Request \cup {Nil}
         /\ keyLock' \in [Key -> Request \cup {Nil}]
         /\ seen' \in [Request -> Nat]
         /\ outcome' \in [Request -> {"none", "committed", "rejected"}]
  BY DEF TxTypeOK, TypeOK, Answers, Release

\* What a request that commits has decided.
CommitReady == \A r \in Request : pc[r] = "commit" => outcome[r] \in {"committed", "rejected"}

\* No request is about to commit initially.
LEMMA CommitReadyInit == TxInit => CommitReady
  BY DEF TxInit, CommitReady

\* Every step keeps the types, and a request about to commit has an outcome.
LEMMA TypeNext ==
  TxTypeOK /\ CommitReady /\ [TxNext]_allVars => TxTypeOK' /\ CommitReady'
<1> SUFFICES ASSUME TxTypeOK, CommitReady, [TxNext]_allVars
             PROVE  TxTypeOK' /\ CommitReady'
  OBVIOUS
<1> USE RequestAssumption
<1>1. CASE UNCHANGED allVars
  BY <1>1 DEF allVars, vars, locals, TxTypeOK, TypeOK, Answers, CommitReady
<1>2. ASSUME NEW r \in Request, Begin(r) PROVE TxTypeOK' /\ CommitReady'
  <2>1. CASE r \in Authorised
    BY <1>2, <2>1 DEF Begin, TxTypeOK, TypeOK, Answers, CommitReady, InTransaction
  <2>2. CASE r \notin Authorised
    <3>1. TxTypeOK'
      BY <1>2, <2>2, ReleaseType DEF Begin, TxTypeOK, TypeOK, Answers
    <3>2. CommitReady'
      BY <1>2, <2>2 DEF Begin, Release, CommitReady, TxTypeOK, TypeOK, Answers
    <3> QED BY <3>1, <3>2
  <2> QED BY <2>1, <2>2
<1>3. ASSUME NEW r \in Request, ReserveReceipt(r) PROVE TxTypeOK' /\ CommitReady'
  <2>1. CASE receipts[KeyOf[r]] = Nil
    BY <1>3, <2>1 DEF ReserveReceipt, TxTypeOK, TypeOK, Answers, CommitReady, InTransaction
  <2>2. CASE receipts[KeyOf[r]] # Nil
    <3>1. receipts[KeyOf[r]].outcome \in {"committed", "rejected"}
      BY <2>2 DEF TxTypeOK, TypeOK, Answers, Receipt
    <3>2. answers' \in [Request -> Answers]
      BY <1>3, <2>2, <3>1, ReplyType DEF ReserveReceipt
    <3>3. TxTypeOK'
      BY <1>3, <2>2, <3>2, ReleaseType DEF ReserveReceipt, TxTypeOK, TypeOK, Answers
    <3>4. CommitReady'
      BY <1>3, <2>2 DEF ReserveReceipt, Release, CommitReady, TxTypeOK, TypeOK, Answers
    <3> QED BY <3>3, <3>4
  <2> QED BY <2>1, <2>2
<1>4. ASSUME NEW r \in Request, LockProgram(r) PROVE TxTypeOK' /\ CommitReady'
  BY <1>4 DEF LockProgram, vars, TxTypeOK, TypeOK, Answers, CommitReady, InTransaction
<1>5. ASSUME NEW r \in Request, Operate(r) PROVE TxTypeOK' /\ CommitReady'
  BY <1>5 DEF Operate, vars, TxTypeOK, TypeOK, Answers, CommitReady, InTransaction
<1>6. ASSUME NEW r \in Request, CommitTransaction(r) PROVE TxTypeOK' /\ CommitReady'
  <2>1. outcome[r] \in {"committed", "rejected"}
    BY <1>6 DEF CommitTransaction, CommitReady
  <2>2. answers' \in [Request -> Answers]
    BY <1>6, <2>1, ReplyType DEF CommitTransaction
  <2>3. version' \in Nat /\ receipts' \in [Key -> Receipt \cup {Nil}]
    BY <1>6, <2>1 DEF CommitTransaction, TxTypeOK, TypeOK, Answers, Receipt
  <2>4. effects' \in Seq(Key)
    BY <1>6 DEF CommitTransaction, TxTypeOK, TypeOK, Answers
  <2>5. TxTypeOK'
    BY <1>6, <2>2, <2>3, <2>4, ReleaseType DEF CommitTransaction, TxTypeOK, TypeOK, Answers
  <2>6. CommitReady'
    BY <1>6 DEF CommitTransaction, Release, CommitReady, TxTypeOK, TypeOK, Answers
  <2> QED BY <2>5, <2>6
<1>7. ASSUME NEW r \in Request, RollBack(r) PROVE TxTypeOK' /\ CommitReady'
  <2>1. TxTypeOK'
    BY <1>7, ReleaseType DEF RollBack, TxTypeOK, TypeOK, Answers
  <2>2. CommitReady'
    BY <1>7 DEF RollBack, Release, CommitReady, TxTypeOK, TypeOK, Answers
  <2> QED BY <2>1, <2>2
<1> QED
  BY <1>1, <1>2, <1>3, <1>4, <1>5, <1>6, <1>7 DEF TxNext, Advance

\* The types of the transactions' state, for any set of requests and keys.
THEOREM TxTypeCorrect == TxSpec => []TxTypeOK
<1>1. TxSpec => [](TxTypeOK /\ CommitReady)
  BY TypeInit, CommitReadyInit, TypeNext, PTL DEF TxSpec
<1> QED BY <1>1, PTL

----------------------------------------------------------------------------
(* The locks *)

HoldsProgram(r) == \/ pc[r] \in {"operate", "commit"}
                   \/ pc[r] = "reserve" /\ FirstLock(r) = "program"

HoldsKey(r) == \/ pc[r] \in {"operate", "commit"}
               \/ pc[r] = "lock" /\ FirstLock(r) = "key"

\* A request holds a lock exactly where its program counter says so: the two
\* locks of the database are what the code believes them to be.
LocksFollowCode ==
  /\ \A r \in Request : (programLock = r) <=> HoldsProgram(r)
  /\ \A r \in Request, k \in Key : (keyLock[k] = r) <=> (KeyOf[r] = k /\ HoldsKey(r))

\* Initially nobody holds a lock, as nobody is in a transaction.
LEMMA LocksInit == TxInit => LocksFollowCode
  BY RequestAssumption DEF TxInit, LocksFollowCode, HoldsProgram, HoldsKey

\* Ending a transaction frees its locks and leaves those of the others.
LEMMA ReleaseLocks ==
  ASSUME NEW r \in Request, TxTypeOK, LocksFollowCode, Release(r)
  PROVE  LocksFollowCode'
<1> USE RequestAssumption DEF Release, LocksFollowCode, HoldsProgram, HoldsKey, FirstLock, TxTypeOK, TypeOK, Answers
<1>1. ASSUME NEW s \in Request PROVE ((programLock = s) <=> HoldsProgram(s))'
  OBVIOUS
<1>2. ASSUME NEW s \in Request, NEW k \in Key
      PROVE  ((keyLock[k] = s) <=> (KeyOf[s] = k /\ HoldsKey(s)))'
  OBVIOUS
<1> QED BY <1>1, <1>2

\* Every step keeps locks and steps of the code in agreement.
LEMMA LocksNext ==
  TxTypeOK /\ LocksFollowCode /\ [TxNext]_allVars => LocksFollowCode'
<1> SUFFICES ASSUME TxTypeOK, LocksFollowCode, [TxNext]_allVars
             PROVE  LocksFollowCode'
  OBVIOUS
<1> USE RequestAssumption
<1>1. CASE UNCHANGED allVars
  BY <1>1 DEF allVars, locals, LocksFollowCode, HoldsProgram, HoldsKey
<1>2. ASSUME NEW r \in Request, Begin(r) PROVE LocksFollowCode'
  <2>1. CASE r \in Authorised
    <3>1. /\ pc[r] = "idle"
          /\ pc' = [pc EXCEPT ![r] = IF FirstLock(r) = "key" THEN "reserve" ELSE "lock"]
          /\ programLock' = programLock /\ keyLock' = keyLock
      BY <1>2, <2>1 DEF Begin
    <3> USE DEF LocksFollowCode, HoldsProgram, HoldsKey, FirstLock, TxTypeOK, TypeOK, Answers
    <3>2. ASSUME NEW s \in Request PROVE ((programLock = s) <=> HoldsProgram(s))'
      BY <3>1
    <3>3. ASSUME NEW s \in Request, NEW k \in Key
          PROVE  ((keyLock[k] = s) <=> (KeyOf[s] = k /\ HoldsKey(s)))'
      BY <3>1
    <3> QED BY <3>2, <3>3
  <2>2. CASE r \notin Authorised
    BY <1>2, <2>2, ReleaseLocks DEF Begin
  <2> QED BY <2>1, <2>2
<1>3. ASSUME NEW r \in Request, ReserveReceipt(r) PROVE LocksFollowCode'
  <2>1. CASE receipts[KeyOf[r]] = Nil
    <3>1. /\ pc[r] = "reserve" /\ keyLock[KeyOf[r]] = Nil
          /\ keyLock' = [keyLock EXCEPT ![KeyOf[r]] = r]
          /\ pc' = [pc EXCEPT ![r] = IF FirstLock(r) = "key" THEN "lock" ELSE "operate"]
          /\ programLock' = programLock
      BY <1>3, <2>1 DEF ReserveReceipt
    <3> USE DEF LocksFollowCode, HoldsProgram, HoldsKey, FirstLock, TxTypeOK, TypeOK, Answers
    <3>2. ASSUME NEW s \in Request PROVE ((programLock = s) <=> HoldsProgram(s))'
      <4>1. CASE s = r
        BY <3>1, <4>1
      <4>2. CASE s # r
        BY <3>1, <4>2
      <4> QED BY <4>1, <4>2
    <3>3. ASSUME NEW s \in Request, NEW k \in Key
          PROVE  ((keyLock[k] = s) <=> (KeyOf[s] = k /\ HoldsKey(s)))'
      <4>1. CASE s = r
        BY <3>1, <4>1
      <4>2. CASE s # r
        BY <3>1, <4>2
      <4> QED BY <4>1, <4>2
    <3> QED BY <3>2, <3>3
  <2>2. CASE receipts[KeyOf[r]] # Nil
    BY <1>3, <2>2, ReleaseLocks DEF ReserveReceipt
  <2> QED BY <2>1, <2>2
<1>4. ASSUME NEW r \in Request, LockProgram(r) PROVE LocksFollowCode'
  <2> USE <1>4 DEF LockProgram, LocksFollowCode, HoldsProgram, HoldsKey, FirstLock,
                   TxTypeOK, TypeOK, Answers, VersionAccepted
  <2>1. ASSUME NEW s \in Request PROVE ((programLock = s) <=> HoldsProgram(s))'
    OBVIOUS
  <2>2. ASSUME NEW s \in Request, NEW k \in Key
        PROVE  ((keyLock[k] = s) <=> (KeyOf[s] = k /\ HoldsKey(s)))'
    OBVIOUS
  <2> QED BY <2>1, <2>2
<1>5. ASSUME NEW r \in Request, Operate(r) PROVE LocksFollowCode'
  BY <1>5 DEF Operate, LocksFollowCode, HoldsProgram, HoldsKey, FirstLock, TxTypeOK, TypeOK, Answers
<1>6. ASSUME NEW r \in Request, CommitTransaction(r) PROVE LocksFollowCode'
  BY <1>6, ReleaseLocks DEF CommitTransaction
<1>7. ASSUME NEW r \in Request, RollBack(r) PROVE LocksFollowCode'
  BY <1>7, ReleaseLocks DEF RollBack
<1> QED
  BY <1>1, <1>2, <1>3, <1>4, <1>5, <1>6, <1>7 DEF TxNext, Advance

----------------------------------------------------------------------------
(* What a transaction knows while it holds its locks *)

\* While a request holds the Program, the version it read is the version.
VersionFresh == \A r \in Request : programLock = r => seen[r] = version

\* While a request holds its key, the key is unbound.
KeyUnbound == \A r \in Request : HoldsKey(r) => receipts[KeyOf[r]] = Nil

\* An m2 request that may still commit read the version it expects.
ExpectationMet ==
  \A r \in Request :
    /\ FamilyOf[r] = "m2"
    /\ pc[r] = "operate" \/ (pc[r] = "commit" /\ outcome[r] = "committed")
    => Expected[r] = seen[r]

\* Nobody is answered before the end, or let in without authorization.
AnsweredAtEnd ==
  \A r \in Request : /\ pc[r] # "done" => answers[r] = "none"
                     /\ pc[r] \in InTransaction => r \in Authorised

Undisturbed == VersionFresh /\ KeyUnbound /\ ExpectationMet /\ AnsweredAtEnd

\* The inductive invariant.
TxInv == TxTypeOK /\ CommitReady /\ LocksFollowCode /\ Undisturbed

\* No request has read anything yet.
LEMMA UndisturbedInit == TxInit => Undisturbed
  BY DEF TxInit, Init, Undisturbed, VersionFresh, KeyUnbound, ExpectationMet,
         AnsweredAtEnd, HoldsKey, InTransaction

\* Ending a transaction that wrote nothing disturbs no other.
LEMMA ReleaseUndisturbed ==
  ASSUME TxInv, NEW r \in Request, Release(r), UNCHANGED <<receipts, version>>,
         \A s \in Request : s # r => answers'[s] = answers[s]
  PROVE  Undisturbed'
<1> USE RequestAssumption DEF TxInv, Undisturbed
<1>1. /\ \A s \in Request : s # r => pc'[s] = pc[s]
      /\ pc'[r] = "done"
      /\ \A s \in Request : programLock' = s => programLock = s
      /\ seen' = seen /\ outcome' = outcome
  BY DEF Release, TxTypeOK
<1>2. VersionFresh'
  BY <1>1 DEF VersionFresh
<1>3. KeyUnbound'
  BY <1>1 DEF KeyUnbound, HoldsKey
<1>4. ExpectationMet'
  BY <1>1 DEF ExpectationMet
<1>5. AnsweredAtEnd'
  BY <1>1 DEF AnsweredAtEnd, InTransaction
<1> QED BY <1>2, <1>3, <1>4, <1>5

\* A commit disturbs no other transaction: none of them holds the same locks.
LEMMA CommitUndisturbed ==
  ASSUME TxInv, NEW r \in Request, CommitTransaction(r)
  PROVE  Undisturbed'
<1> USE RequestAssumption DEF TxInv, Undisturbed
<1>1. /\ \A s \in Request : s # r => pc'[s] = pc[s] /\ answers'[s] = answers[s]
      /\ pc[r] = "commit" /\ pc'[r] = "done"
      /\ seen' = seen /\ outcome' = outcome
      /\ \A k \in Key : k # KeyOf[r] => receipts'[k] = receipts[k]
  BY DEF CommitTransaction, Release, Reply, TxTypeOK, TypeOK
<1>2. programLock = r /\ keyLock[KeyOf[r]] = r
  BY <1>1 DEF LocksFollowCode, HoldsProgram, HoldsKey
<1>3. programLock' = Nil
  BY <1>2 DEF CommitTransaction, Release
<1>4. VersionFresh'
  BY <1>3 DEF VersionFresh
<1>5. KeyUnbound'
  <2> SUFFICES ASSUME NEW s \in Request, HoldsKey(s)' PROVE receipts'[KeyOf[s]] = Nil
    BY DEF KeyUnbound
  <2>1. s # r /\ HoldsKey(s)
    BY <1>1 DEF HoldsKey
  <2>2. KeyOf[s] # KeyOf[r]
    BY <1>2, <2>1 DEF LocksFollowCode
  <2> QED BY <1>1, <2>1, <2>2 DEF KeyUnbound
<1>6. ExpectationMet'
  BY <1>1 DEF ExpectationMet
<1>7. AnsweredAtEnd'
  BY <1>1 DEF AnsweredAtEnd, InTransaction
<1> QED BY <1>4, <1>5, <1>6, <1>7

\* No step changes what a transaction has read under its locks.
LEMMA UndisturbedNext == TxInv /\ [TxNext]_allVars => Undisturbed'
<1> SUFFICES ASSUME TxInv, [TxNext]_allVars PROVE Undisturbed'
  OBVIOUS
<1> USE RequestAssumption DEF TxInv
<1>1. CASE UNCHANGED allVars
  BY <1>1 DEF allVars, vars, locals, Undisturbed, VersionFresh, KeyUnbound,
              ExpectationMet, AnsweredAtEnd, HoldsKey
<1>2. ASSUME NEW r \in Request, Begin(r) PROVE Undisturbed'
  <2>1. CASE r \in Authorised
    BY <1>2, <2>1 DEF Begin, FirstLock, Undisturbed, VersionFresh, KeyUnbound,
                      ExpectationMet, AnsweredAtEnd, HoldsKey, InTransaction, TxTypeOK
  <2>2. CASE r \notin Authorised
    BY <1>2, <2>2, ReleaseUndisturbed DEF Begin, TxTypeOK, TypeOK
  <2> QED BY <2>1, <2>2
<1>3. ASSUME NEW r \in Request, ReserveReceipt(r) PROVE Undisturbed'
  <2>1. CASE receipts[KeyOf[r]] = Nil
    BY <1>3, <2>1
       DEF ReserveReceipt, FirstLock, Undisturbed, VersionFresh, KeyUnbound,
           ExpectationMet, AnsweredAtEnd, HoldsKey, InTransaction, TxTypeOK
  <2>2. CASE receipts[KeyOf[r]] # Nil
    BY <1>3, <2>2, ReleaseUndisturbed DEF ReserveReceipt, Reply, TxTypeOK, TypeOK
  <2> QED BY <2>1, <2>2
<1>4. ASSUME NEW r \in Request, LockProgram(r) PROVE Undisturbed'
  BY <1>4 DEF LockProgram, VersionAccepted, FirstLock, vars, Undisturbed, VersionFresh,
              KeyUnbound, ExpectationMet, AnsweredAtEnd, HoldsKey, InTransaction, TxTypeOK
<1>5. ASSUME NEW r \in Request, Operate(r) PROVE Undisturbed'
  BY <1>5 DEF Operate, vars, Undisturbed, VersionFresh, KeyUnbound,
              ExpectationMet, AnsweredAtEnd, HoldsKey, InTransaction, TxTypeOK
<1>6. ASSUME NEW r \in Request, CommitTransaction(r) PROVE Undisturbed'
  BY <1>6, CommitUndisturbed
<1>7. ASSUME NEW r \in Request, RollBack(r) PROVE Undisturbed'
  BY <1>7, ReleaseUndisturbed DEF RollBack, TxTypeOK, TypeOK
<1> QED
  BY <1>1, <1>2, <1>3, <1>4, <1>5, <1>6, <1>7 DEF TxNext, Advance

\* The invariant of the transactions always holds.
LEMMA TxInvariant == TxSpec => []TxInv
<1>1. TxInit => TxInv
  BY TypeInit, CommitReadyInit, LocksInit, UndisturbedInit DEF TxInv
<1>2. TxInv /\ [TxNext]_allVars => TxInv'
  BY TypeNext, LocksNext, UndisturbedNext DEF TxInv
<1> QED BY <1>1, <1>2, PTL DEF TxSpec

\* Between reading the version and writing it no other command writes it, so
\* the conflict checks of commit_state_change and commit_auxiliary_change never
\* fire.
THEOREM VersionIsHeld == TxSpec => []VersionHeld
<1>1. TxInv => VersionHeld
  BY DEF TxInv, LocksFollowCode, HoldsProgram, Undisturbed, VersionFresh, VersionHeld
<1> QED BY <1>1, TxInvariant, PTL

\* Only an m2 command and an m3 or m4 command under one key can deadlock.
THEOREM OnlyMixedOrderDeadlocks == TxSpec => []DeadlockNeedsMixedOrder
<1>1. TxInv => DeadlockNeedsMixedOrder
  <2> SUFFICES ASSUME TxInv, NEW r \in Request, NEW s \in Request, Deadlocked(r, s)
               PROVE  KeyOf[r] = KeyOf[s] /\ (FamilyOf[r] = "m2") # (FamilyOf[s] = "m2")
    BY DEF DeadlockNeedsMixedOrder
  <2> USE RequestAssumption
      DEF TxInv, LocksFollowCode, HoldsProgram, HoldsKey, FirstLock, WaitsForKey, WaitsForProgram
  <2>1. ~(WaitsForKey(r, s) /\ WaitsForKey(s, r))
    OBVIOUS
  <2>2. ~(WaitsForProgram(r, s) /\ WaitsForProgram(s, r))
    OBVIOUS
  <2>3. CASE WaitsForKey(r, s) /\ WaitsForProgram(s, r)
    BY <2>3
  <2>4. CASE WaitsForProgram(r, s) /\ WaitsForKey(s, r)
    BY <2>4
  <2> QED BY <2>1, <2>2, <2>3, <2>4 DEF Deadlocked
<1> QED BY <1>1, TxInvariant, PTL

\* The second half of KeyNotOccupied, which is inductive beside TxInv.
ReceiptsAuthorised ==
  \A k \in Key : receipts[k] # Nil =>
    \E r \in Authorised : KeyOf[r] = k /\ PrintOf[r] = receipts[k].print

\* Every receipt written belongs to an authorised request.
LEMMA ReceiptsAuthorisedNext ==
  TxInv /\ ReceiptsAuthorised /\ [TxNext]_allVars => ReceiptsAuthorised'
<1> SUFFICES ASSUME TxInv, ReceiptsAuthorised, [TxNext]_allVars
             PROVE  ReceiptsAuthorised'
  OBVIOUS
<1>1. CASE UNCHANGED receipts
  BY <1>1 DEF ReceiptsAuthorised
<1>2. ASSUME NEW r \in Request, CommitTransaction(r) PROVE ReceiptsAuthorised'
  <2>1. r \in Authorised
    BY <1>2 DEF CommitTransaction, TxInv, Undisturbed, AnsweredAtEnd, InTransaction
  <2>2. /\ receipts'[KeyOf[r]].print = PrintOf[r]
        /\ \A k \in Key : k # KeyOf[r] => receipts'[k] = receipts[k]
    BY <1>2, RequestAssumption DEF CommitTransaction, TxInv, TxTypeOK, TypeOK
  <2> QED BY <2>1, <2>2 DEF ReceiptsAuthorised
<1>3. ASSUME NEW r \in Request,
             Begin(r) \/ ReserveReceipt(r) \/ LockProgram(r) \/ Operate(r) \/ RollBack(r)
      PROVE  UNCHANGED receipts
  BY <1>3 DEF Begin, ReserveReceipt, LockProgram, Operate, RollBack, vars
<1> QED
  BY <1>1, <1>2, <1>3 DEF TxNext, Advance, allVars, vars

\* Nobody without authorization ever holds or binds an idempotency key.
THEOREM KeysStayFree == TxSpec => []KeyNotOccupied
<1>1. TxInit => ReceiptsAuthorised
  BY DEF TxInit, Init, ReceiptsAuthorised
<1>2. TxInv /\ ReceiptsAuthorised => KeyNotOccupied
  <2> SUFFICES ASSUME TxInv, ReceiptsAuthorised, NEW k \in Key, keyLock[k] # Nil
               PROVE  keyLock[k] \in Authorised
    BY DEF KeyNotOccupied, ReceiptsAuthorised
  <2>1. PICK r \in Request : keyLock[k] = r
    BY DEF TxInv, TxTypeOK
  <2>2. HoldsKey(r)
    BY <2>1 DEF TxInv, LocksFollowCode
  <2> QED
    BY <2>1, <2>2 DEF HoldsKey, TxInv, Undisturbed, AnsweredAtEnd, InTransaction
<1> QED
  BY <1>1, <1>2, ReceiptsAuthorisedNext, TxInvariant, PTL DEF TxSpec

----------------------------------------------------------------------------
(* Refinement *)

\* A COMMIT is the decision of the abstract specification.
LEMMA CommitIsDecide ==
  ASSUME TxInv, NEW r \in Request, CommitTransaction(r)
  PROVE  \E o \in {"committed", "rejected"} : Decide(r, o)
<1> USE RequestAssumption
<1>1. pc[r] = "commit" /\ outcome[r] \in {"committed", "rejected"}
  BY DEF CommitTransaction, TxInv, CommitReady
<1>2. answers[r] = "none"
  BY <1>1 DEF TxInv, Undisturbed, AnsweredAtEnd
<1>3. receipts[KeyOf[r]] = Nil
  BY <1>1 DEF TxInv, Undisturbed, KeyUnbound, HoldsKey
<1>4. seen[r] = version
  BY <1>1 DEF TxInv, LocksFollowCode, HoldsProgram, Undisturbed, VersionFresh
<1>5. Possible(r, outcome[r])
  BY <1>1, <1>4 DEF TxInv, Undisturbed, ExpectationMet, Possible
<1>6. Decide(r, outcome[r])
  BY <1>2, <1>3, <1>4, <1>5 DEF CommitTransaction, Decide, VersionAfter
<1> QED BY <1>1, <1>6

\* Every step of a transaction is an abstract step or a stutter.
LEMMA StepSimulates == TxInv /\ [TxNext]_allVars => [Next]_vars
<1> SUFFICES ASSUME TxInv, [TxNext]_allVars PROVE [Next]_vars
  OBVIOUS
<1>1. CASE UNCHANGED allVars
  BY <1>1 DEF allVars, vars
<1>2. ASSUME NEW r \in Request, Begin(r) PROVE [Next]_vars
  <2>1. answers[r] = "none"
    BY <1>2 DEF Begin, TxInv, Undisturbed, AnsweredAtEnd
  <2> QED BY <1>2, <2>1 DEF Begin, Fail, Next, vars
<1>3. ASSUME NEW r \in Request, ReserveReceipt(r) PROVE [Next]_vars
  <2>1. answers[r] = "none"
    BY <1>3 DEF ReserveReceipt, TxInv, Undisturbed, AnsweredAtEnd
  <2> QED BY <1>3, <2>1 DEF ReserveReceipt, Replay, Next, vars
<1>4. ASSUME NEW r \in Request, LockProgram(r) \/ Operate(r) PROVE [Next]_vars
  BY <1>4 DEF LockProgram, Operate
<1>5. ASSUME NEW r \in Request, CommitTransaction(r) PROVE [Next]_vars
  BY <1>5, CommitIsDecide DEF Next
<1>6. ASSUME NEW r \in Request, RollBack(r) PROVE [Next]_vars
  <2>1. answers[r] = "none"
    BY <1>6 DEF RollBack, TxInv, Undisturbed, AnsweredAtEnd, InTransaction
  <2> QED BY <1>6, <2>1 DEF RollBack, Fail, Next, vars
<1> QED
  BY <1>1, <1>2, <1>3, <1>4, <1>5, <1>6 DEF TxNext, Advance

\* Seen from outside a command is one atomic step, however its transaction
\* interleaves with the others, deadlocks or is rolled back.
THEOREM Atomicity == TxSpec => CommandsAreAtomic
<1>1. TxInit => Init
  BY DEF TxInit
<1> QED
  BY <1>1, TxInvariant, StepSimulates, PTL DEF TxSpec, Spec, CommandsAreAtomic

\* Callers of one request agree on its outcome, through every retry.
THEOREM AnswersAlwaysAgree == TxSpec => []AnswersAgree
<1>1. Promise => AnswersAgree
  BY DEF Promise
<1> QED BY <1>1, PromiseIsKept, Atomicity, PTL DEF CommandsAreAtomic

\* No key ever has a second business effect.
THEOREM EffectAtMostOnce == TxSpec => []EffectOnce
<1>1. Promise => EffectOnce
  BY DEF Promise
<1> QED BY <1>1, PromiseIsKept, Atomicity, PTL DEF CommandsAreAtomic

\* A success reported to the caller of an m2 command happened at its version.
THEOREM CommittedAtItsVersion == TxSpec => []CommittedAtExpected
  BY CommittedAtExpectedFollows, PromiseIsKept, Atomicity, PTL DEF CommandsAreAtomic

=============================================================================
