------------------------- MODULE IdempotentCommands -------------------------
(***************************************************************************)
(* What the State Service promises of the commands of one Program: each    *)
(* idempotency key is decided at most once, in one step, against the       *)
(* version of that moment, and every later request with that key gets the  *)
(* stored result or a refusal.  The abstract side of CommandTransactions.  *)
(***************************************************************************)
EXTENDS Naturals, Sequences

CONSTANTS
  Request,   \* calls of dispatch
  Key,       \* idempotency keys
  KeyOf,     \* request -> key
  PrintOf,   \* request -> what reserve_command_receipt compares: command
             \* type, request hash, principal and channel
  FamilyOf,  \* request -> "m2" | "m3" | "m4": the service that executes it
  Expected,  \* request -> expected_state_version of an m2 envelope
  Nil

ASSUME RequestAssumption ==
  /\ KeyOf \in [Request -> Key]
  /\ FamilyOf \in [Request -> {"m2", "m3", "m4"}]
  /\ Expected \in [Request -> Nat]
  /\ Nil \notin Request

\* The request hash covers the command type and the expected version.
ASSUME PrintAssumption ==
  \A r, s \in Request : PrintOf[r] = PrintOf[s] =>
    FamilyOf[r] = FamilyOf[s] /\ Expected[r] = Expected[s]

VARIABLES
  receipts,  \* committed command_receipts, by key
  version,   \* programs.state_version
  effects,   \* committed business effects, in commit order
  answers    \* what the caller of each request learned, "none" so far

vars == <<receipts, version, effects, answers>>

Receipt == [print : {PrintOf[r] : r \in Request},
            outcome : {"committed", "rejected"}, version : Nat]

ASSUME NilAssumption == Nil \notin Receipt

\* m2 and m3 commands move the version; an m4 command is auxiliary.
VersionAfter(r, outcome) ==
  IF outcome = "committed" /\ FamilyOf[r] # "m4" THEN version + 1 ELSE version

\* An m2 command can only succeed at the version it expects.
Possible(r, outcome) ==
  outcome = "committed" /\ FamilyOf[r] = "m2" => Expected[r] = version

\* The reply may be lost on its way to the caller, and a connection that
\* breaks during COMMIT is reported as DATABASE_UNAVAILABLE ("failed") though
\* the transaction may have committed.
Reply(r, a) ==
  \E told \in {a, "lost", "failed"} : answers' = [answers EXCEPT ![r] = told]

Decide(r, outcome) ==
  /\ answers[r] = "none"
  /\ receipts[KeyOf[r]] = Nil
  /\ Possible(r, outcome)
  /\ LET row == [print |-> PrintOf[r], outcome |-> outcome,
                 version |-> VersionAfter(r, outcome)]
     IN receipts' = [receipts EXCEPT ![KeyOf[r]] = row]
  /\ version' = VersionAfter(r, outcome)
  /\ effects' = IF outcome = "committed" THEN Append(effects, KeyOf[r]) ELSE effects
  /\ Reply(r, outcome)

Replay(r) ==
  /\ answers[r] = "none"
  /\ receipts[KeyOf[r]] # Nil
  /\ Reply(r, IF receipts[KeyOf[r]].print = PrintOf[r]
              THEN receipts[KeyOf[r]].outcome ELSE "reused")
  /\ UNCHANGED <<receipts, version, effects>>

\* Refused before any transaction, or rolled back.
Fail(r) ==
  /\ answers[r] = "none"
  /\ \E told \in {"denied", "failed"} : answers' = [answers EXCEPT ![r] = told]
  /\ UNCHANGED <<receipts, version, effects>>

Init ==
  /\ receipts = [k \in Key |-> Nil]
  /\ version = 0
  /\ effects = <<>>
  /\ answers = [r \in Request |-> "none"]

Next == \E r \in Request :
          \/ \E outcome \in {"committed", "rejected"} : Decide(r, outcome)
          \/ Replay(r)
          \/ Fail(r)

Spec == Init /\ [][Next]_vars

----------------------------------------------------------------------------
(* Properties *)

Answers == {"none", "committed", "rejected", "reused", "denied", "failed", "lost"}

TypeOK ==
  /\ receipts \in [Key -> Receipt \cup {Nil}]
  /\ version \in Nat
  /\ effects \in Seq(Key)
  /\ answers \in [Request -> Answers]

\* Two callers that send the same request under the same key never learn
\* different outcomes, however the calls overlap, fail and repeat, and what
\* they learn stays in the receipt.
AnswersAgree ==
  \A r \in Request : answers[r] \in {"committed", "rejected"} =>
    /\ receipts[KeyOf[r]] # Nil
    /\ receipts[KeyOf[r]].print = PrintOf[r]
    /\ receipts[KeyOf[r]].outcome = answers[r]

\* A key has at most one business effect, and exactly when its receipt says
\* "committed".
EffectOnce ==
  /\ \A i, j \in 1..Len(effects) : effects[i] = effects[j] => i = j
  /\ \A k \in Key :
       (\E i \in 1..Len(effects) : effects[i] = k)
         <=> (receipts[k] # Nil /\ receipts[k].outcome = "committed")

\* An m2 command that committed did so at the version its caller had read.
CommittedAtExpected ==
  \A r \in Request :
    FamilyOf[r] = "m2" /\ answers[r] = "committed"
      => receipts[KeyOf[r]].version = Expected[r] + 1

=============================================================================
