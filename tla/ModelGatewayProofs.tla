------------------------- MODULE ModelGatewayProofs -------------------------
(***************************************************************************)
(* What the gateway of the demo guarantees for any number of calls,        *)
(* requests and processes.  The argument: the ready file lets one process  *)
(* serve in all (OneServer); its registry keeps the threads of a call      *)
(* apart (ClaimsKept); so what a thread read stays true until it acts on   *)
(* it (StepsSound), and the accounts of a call are those of its one        *)
(* request (AccountsSound).                                                *)
(***************************************************************************)
EXTENDS ModelGateway, ModelBudgetProofs

Active == {"claimed", "read", "recorded", "called", "settled"}
Started(g) == up[g] = "serving" \/ serves[g] # {}

OneServer ==
  /\ \A g, other \in Process : Started(g) /\ Started(other) => g = other
  /\ \A g \in Process : Started(g) => marker

ClaimsKept ==
  /\ \A h \in Thread : pc[h] \in Active =>
       \E g \in Process : /\ up[g] = "serving" /\ h \in serves[g]
                          /\ RequestCall[h] \in claimed[g]
  /\ \A h, i \in Thread :
       pc[h] \in Active /\ pc[i] \in Active /\ RequestCall[h] = RequestCall[i] => h = i
  /\ \A c \in Call : calls[c] # 0 =>
       marker /\ \A g \in Process : up[g] = "serving" => c \in claimed[g]

StepSound(h, c) ==
  /\ pc[h] \in {"claimed", "read", "recorded"} => calls[c] = 0
  /\ pc[h] \in {"read", "recorded"} => Status(c) = "reserved" /\ SnapshotOf[c] \in snapshots
  /\ pc[h] = "recorded" => c \in manifests
  /\ pc[h] = "called" => calls[c] = 1 /\ used[c] = usage[h]
  /\ pc[h] = "settled" => Status(c) = "settled" /\ c \notin receipts
  /\ pc[h] = "answered" => c \in receipts

StepsSound == \A h \in Thread : StepSound(h, RequestCall[h])

AccountSound(c) ==
  /\ calls[c] \in {0, 1}
  /\ calls[c] = 0 => used[c] = Zero /\ Status(c) \notin Terminal
  /\ calls[c] = 1 => Status(c) \in Terminal \cup {"reserved"}
  /\ Status(c) = "settled" => reservations[c].charged = used[c]
  /\ Status(c) = "conservative_settled" => reservations[c].charged = MaxOf[c]
  /\ c \in receipts => Status(c) = "settled"

AccountsSound == \A c \in Call : AccountSound(c)

GInv == GatewayTypeOK /\ OneServer /\ ClaimsKept /\ StepsSound /\ AccountsSound

----------------------------------------------------------------------------
(* What every step of a thread has in common *)

\* Every request is for a planned call.
LEMMA RequestsArePlanned ==
  ASSUME NEW h \in Thread
  PROVE  RequestCall[h] \in Planned /\ RequestCall[h] \in Call
BY GatewayAssumption

\* Adding to nothing gives the same amount.
LEMMA AddZero ==
  ASSUME NEW u \in Amount
  PROVE  Add(Zero, u) = u
BY DEF Add, Zero, Amount

\* Amounts add to amounts.
LEMMA AddIsAmount ==
  ASSUME NEW u \in Amount, NEW v \in Amount
  PROVE  Add(u, v) \in Amount
BY DEF Add, Amount

\* A thread that moves between steps of its own leaves the processes and the
\* registry alone, and calls the provider only for its own call.
Moves(h, from, to) ==
  /\ Goes(h, from, to)
  /\ UNCHANGED <<up, claimed, marker, serves>>
  /\ \A c \in Call \ {RequestCall[h]} : calls'[c] = calls[c]

\* A thread that moves on keeps the one server and the claims.
LEMMA MoveKeepsClaims ==
  ASSUME GInv, NEW h \in Thread, NEW from \in Active, NEW to \in Step \ {"new"},
         Moves(h, from, to)
  PROVE  OneServer' /\ ClaimsKept'
<1>1. /\ pc[h] = from /\ pc' = [pc EXCEPT ![h] = to]
      /\ up' = up /\ claimed' = claimed /\ marker' = marker /\ serves' = serves
  BY DEF Moves, Goes
<1>2. pc \in [Thread -> Step]
  BY DEF GInv, GatewayTypeOK
<1>3. \A i \in Thread : pc'[i] \in Active => pc[i] \in Active
  BY <1>1, <1>2
<1>4. OneServer'
  BY <1>1 DEF GInv, OneServer, Started
<1>5. ASSUME NEW c \in Call, calls'[c] # 0
      PROVE  marker' /\ \A g \in Process : up'[g] = "serving" => c \in claimed'[g]
  <2>1. CASE c = RequestCall[h]
    <3>1. PICK g \in Process : up[g] = "serving" /\ c \in claimed[g]
      BY <1>1, <2>1 DEF GInv, ClaimsKept
    <3> QED BY <1>1, <3>1 DEF GInv, OneServer, Started
  <2>2. CASE c # RequestCall[h]
    BY <1>1, <1>5, <2>2 DEF Moves, GInv, ClaimsKept
  <2> QED BY <2>1, <2>2
<1>6. ClaimsKept'
  BY <1>1, <1>3, <1>5 DEF GInv, ClaimsKept
<1> QED BY <1>4, <1>6

\* While a thread is active no other thread is, for the same call.
LEMMA Apart ==
  ASSUME GInv, NEW h \in Thread, pc[h] \in Active,
         NEW i \in Thread, pc[i] \in Active, i # h
  PROVE  RequestCall[i] # RequestCall[h]
BY DEF GInv, ClaimsKept

----------------------------------------------------------------------------
(* Type correctness *)

\* Every step keeps the types.
LEMMA TypesKept ==
  ASSUME GatewayTypeOK, [Next]_vars
  PROVE  GatewayTypeOK'
<1> USE DEF GatewayTypeOK
<1>1. ASSUME Prepare PROVE GatewayTypeOK'
  <2>1. BudgetTypeOK'
    BY <1>1, CreateSnapshotKeepsTypes, ReserveKeepsTypes DEF Prepare
  <2> QED BY <1>1, <2>1 DEF Prepare, gateway
<1>2. ASSUME NEW g \in Process, ProcessNext(g) PROVE GatewayTypeOK'
  <2>1. BudgetTypeOK'
    BY <1>2 DEF ProcessNext, CheckPreconditions, Serve, Crash, budget, BudgetTypeOK
  <2>2. CASE CheckPreconditions(g)
    BY <2>1, <2>2 DEF CheckPreconditions
  <2>3. CASE Serve(g)
    <3>1. /\ up' \in [Process -> {"down", "checked", "serving", "dead"}]
          /\ marker' \in BOOLEAN
      BY <2>3 DEF Serve
    <3> QED BY <2>1, <2>3, <3>1 DEF Serve
  <2>4. CASE Crash(g)
    <3>1. pc' \in [Thread -> Step]
      BY <2>4 DEF Crash, Step, Outcome
    <3>2. claimed' \in [Process -> SUBSET Planned]
      BY <2>4 DEF Crash
    <3> QED BY <2>1, <2>4, <3>1, <3>2 DEF Crash
  <2> QED BY <1>2, <2>2, <2>3, <2>4 DEF ProcessNext
<1>3. ASSUME NEW h \in Thread, ThreadNext(h) PROVE GatewayTypeOK'
  <2>0. RequestCall[h] \in Planned /\ RequestCall[h] \in Call
    BY RequestsArePlanned
  <2>1. ASSUME NEW g \in Process, Claim(h, g) PROVE GatewayTypeOK'
    <3>1. BudgetTypeOK'
      BY <2>1 DEF Claim, budget, BudgetTypeOK
    <3>2. pc' \in [Thread -> Step]
      BY <2>1 DEF Claim, Step, Outcome
    <3>3. /\ claimed' \in [Process -> SUBSET Planned]
          /\ serves' \in [Process -> SUBSET Thread]
      BY <2>0, <2>1 DEF Claim
    <3> QED BY <2>1, <3>1, <3>2, <3>3 DEF Claim
  <2>2. ASSUME Read(h) \/ AppendManifest(h) \/ SettlementFails(h) \/ AppendReceipt(h)
        PROVE  GatewayTypeOK'
    <3>1. BudgetTypeOK'
      BY <2>2 DEF Read, AppendManifest, SettlementFails, AppendReceipt, budget, BudgetTypeOK
    <3>2. pc' \in [Thread -> Step]
      BY <2>2 DEF Read, AppendManifest, SettlementFails, AppendReceipt, Goes, Step, Outcome
    <3> QED BY <2>0, <2>2, <3>1, <3>2
            DEF Read, AppendManifest, SettlementFails, AppendReceipt
  <2>3. ASSUME NEW u \in Usage, CallProvider(h, u) PROVE GatewayTypeOK'
    <3>1. BudgetTypeOK'
      BY <2>3 DEF CallProvider, budget, BudgetTypeOK
    <3>2. u \in Amount /\ Add(used[RequestCall[h]], u) \in Amount
      BY <2>0, AddIsAmount, GatewayAssumption
    <3>3. /\ pc' \in [Thread -> Step]
          /\ calls' \in [Call -> Nat]
      BY <2>0, <2>3 DEF CallProvider, Goes, Step, Outcome
    <3>4. usage' \in [Thread -> Amount] /\ used' \in [Call -> Amount]
      BY <2>0, <2>3, <3>2 DEF CallProvider
    <3> QED BY <2>3, <3>1, <3>3, <3>4 DEF CallProvider
  <2>4. ASSUME SettleReported(h) \/ SettleUnknown(h) PROVE GatewayTypeOK'
    <3>1. PICK r \in {Unknown} \cup {Reported(u) : u \in Amount} : Settle(RequestCall[h], r)
      BY <2>4 DEF SettleReported, SettleUnknown
    <3>2. BudgetTypeOK'
      BY <2>0, <3>1, SettleKeepsTypes
    <3>3. pc' \in [Thread -> Step]
      BY <2>4 DEF SettleReported, SettleUnknown, Goes, Step, Outcome
    <3> QED BY <2>4, <3>2, <3>3 DEF SettleReported, SettleUnknown
  <2> QED BY <1>3, <2>1, <2>2, <2>3, <2>4 DEF ThreadNext
<1>4. CASE UNCHANGED vars
  BY <1>4 DEF vars, budget, gateway, BudgetTypeOK
<1> QED BY <1>1, <1>2, <1>3, <1>4 DEF Next

\* The state of the gateway is well formed in every reachable state.
THEOREM GatewayTypeCorrect == Spec => []GatewayTypeOK
<1>1. Init => GatewayTypeOK
  <2> SUFFICES ASSUME Init PROVE GatewayTypeOK
    OBVIOUS
  <2>1. BudgetTypeOK
    BY ZeroIsAmount DEF Init, BudgetInit, BudgetTypeOK, Reservation
  <2> QED BY <2>1, ZeroIsAmount DEF Init, GatewayTypeOK, Step
<1> QED BY <1>1, TypesKept, PTL DEF Spec

----------------------------------------------------------------------------
(* The steps of the processes and of the State Service *)

\* Preparing the run keeps the invariant.
LEMMA PrepareKeepsInv ==
  ASSUME GInv, GatewayTypeOK', Prepare
  PROVE  GInv'
<1>1. /\ up' = up /\ claimed' = claimed /\ marker' = marker /\ serves' = serves
      /\ pc' = pc /\ usage' = usage /\ manifests' = manifests /\ receipts' = receipts
      /\ calls' = calls /\ used' = used
  BY DEF Prepare, gateway
<1>2. /\ snapshots \subseteq snapshots'
      /\ \A c \in Call : Status(c) # "absent" => reservations'[c] = reservations[c]
      /\ \A c \in Call : Status(c) = "absent" => Status(c)' \in {"absent", "reserved", "refused"}
  <2>1. CASE \E s \in Snapshot : CreateSnapshot(s)
    BY <2>1 DEF CreateSnapshot, Status
  <2>2. CASE \E c \in Call : Reserve(c)
    BY <2>2 DEF Reserve, Status, GInv, GatewayTypeOK, BudgetTypeOK, Reservation
  <2> QED BY <2>1, <2>2 DEF Prepare
<1>3. OneServer' /\ ClaimsKept'
  BY <1>1 DEF GInv, OneServer, Started, ClaimsKept
<1>4. StepsSound'
  BY <1>1, <1>2, RequestsArePlanned DEF GInv, StepsSound, StepSound, Status
<1>5. AccountsSound'
  BY <1>1, <1>2 DEF GInv, AccountsSound, AccountSound, Status, Terminal
<1> QED BY <1>3, <1>4, <1>5 DEF GInv

\* Starting, serving and crashing keep the invariant, given the ready file.
LEMMA ProcessKeepsInv ==
  ASSUME UseMarker, GInv, GatewayTypeOK', NEW g \in Process, ProcessNext(g)
  PROVE  GInv'
<1>1. CASE CheckPreconditions(g)
  <2>1. \A o \in Process : up'[o] = "serving" <=> up[o] = "serving"
    BY <1>1 DEF CheckPreconditions, GInv, GatewayTypeOK
  <2>2. OneServer' /\ ClaimsKept'
    BY <1>1, <2>1 DEF CheckPreconditions, GInv, OneServer, Started, ClaimsKept
  <2>3. StepsSound' /\ AccountsSound'
    BY <1>1 DEF CheckPreconditions, GInv, StepsSound, StepSound, AccountsSound,
                AccountSound, Status, budget
  <2> QED BY <2>2, <2>3 DEF GInv
<1>2. CASE Serve(g)
  <2>1. /\ \A o \in Process : up'[o] = "serving" => up[o] = "serving" \/ (o = g /\ ~marker)
        /\ up[g] = "checked"
        /\ \A o \in Process : up[o] = "serving" => up'[o] = "serving"
        /\ up'[g] = "serving" => marker'
        /\ marker => marker'
    BY <1>2 DEF Serve, GInv, GatewayTypeOK
  <2>2. OneServer' /\ ClaimsKept'
    BY <1>2, <2>1 DEF Serve, GInv, OneServer, Started, ClaimsKept
  <2>3. StepsSound' /\ AccountsSound'
    BY <1>2 DEF Serve, GInv, StepsSound, StepSound, AccountsSound, AccountSound,
                Status, budget
  <2> QED BY <2>2, <2>3 DEF GInv
<1>3. CASE Crash(g)
  <2>1. /\ \A o \in Process : up'[o] = "serving" <=> up[o] = "serving" /\ o # g
        /\ \A h \in Thread : pc'[h] = IF h \in serves[g] /\ pc[h] \notin Outcome
                                      THEN "lost" ELSE pc[h]
        /\ \A o \in Process \ {g} : claimed'[o] = claimed[o]
        /\ serves' = serves /\ marker' = marker /\ calls' = calls
    BY <1>3 DEF Crash, GInv, GatewayTypeOK
  <2>2. OneServer'
    BY <2>1 DEF GInv, OneServer, Started
  <2>3. ASSUME NEW h \in Thread, pc'[h] \in Active
        PROVE  pc[h] = pc'[h] /\ h \notin serves[g]
    BY <2>1, <2>3 DEF Active, Outcome
  <2>4. ClaimsKept'
    BY <2>1, <2>3 DEF GInv, ClaimsKept
  <2>5. StepsSound' /\ AccountsSound'
    BY <1>3, <2>1 DEF Crash, GInv, StepsSound, StepSound, AccountsSound, AccountSound,
                      Status, budget
  <2> QED BY <2>2, <2>4, <2>5 DEF GInv
<1> QED BY <1>1, <1>2, <1>3 DEF ProcessNext

----------------------------------------------------------------------------
(* The steps of a thread *)

\* The registry: the plan of a call goes to one thread of the serving process.
LEMMA ClaimKeepsInv ==
  ASSUME GInv, GatewayTypeOK', NEW h \in Thread, NEW g \in Process, Claim(h, g)
  PROVE  GInv'
<1> DEFINE c == RequestCall[h]
<1>0. c \in Call /\ c \in Planned
  BY RequestsArePlanned
<1>1. /\ pc[h] = "new" /\ up[g] = "serving" /\ up' = up /\ marker' = marker /\ calls' = calls
      /\ pc'[h] = IF c \in claimed[g] THEN "refused" ELSE "claimed"
      /\ \A i \in Thread \ {h} : pc'[i] = pc[i]
      /\ claimed'[g] = claimed[g] \cup {c}
      /\ \A o \in Process \ {g} : claimed'[o] = claimed[o]
      /\ serves'[g] = serves[g] \cup {h}
      /\ \A o \in Process \ {g} : serves'[o] = serves[o]
  BY DEF Claim, GInv, GatewayTypeOK
<1>2. OneServer'
  BY <1>1 DEF GInv, OneServer, Started
<1>3. c \notin claimed[g] =>
        /\ calls[c] = 0
        /\ \A i \in Thread : pc[i] \in Active => RequestCall[i] # c
  BY <1>0, <1>1 DEF GInv, ClaimsKept, OneServer, Started
<1>4. ClaimsKept'
  <2>1. ASSUME NEW i \in Thread, pc'[i] \in Active
        PROVE  \E o \in Process : /\ up'[o] = "serving" /\ i \in serves'[o]
                                  /\ RequestCall[i] \in claimed'[o]
    <3>1. CASE i = h
      BY <1>1, <3>1
    <3>2. CASE i # h
      BY <1>1, <2>1, <3>2 DEF GInv, ClaimsKept
    <3> QED BY <3>1, <3>2
  <2>2. pc'[h] \in Active => c \notin claimed[g]
    BY <1>1 DEF Active
  <2>3. ASSUME NEW i \in Thread, NEW j \in Thread, pc'[i] \in Active, pc'[j] \in Active,
               RequestCall[i] = RequestCall[j]
        PROVE  i = j
    BY <1>1, <1>3, <2>2, <2>3 DEF GInv, ClaimsKept
  <2>4. ASSUME NEW k \in Call, calls'[k] # 0
        PROVE  marker' /\ \A o \in Process : up'[o] = "serving" => k \in claimed'[o]
    BY <1>1, <2>4 DEF GInv, ClaimsKept
  <2> QED BY <2>1, <2>3, <2>4 DEF ClaimsKept
<1>5. StepsSound'
  <2>1. ASSUME NEW i \in Thread PROVE StepSound(i, RequestCall[i])'
    <3>1. CASE i = h
      BY <1>1, <1>3, <3>1 DEF StepSound, Claim
    <3>2. CASE i # h
      BY <1>1, <3>2 DEF Claim, GInv, StepsSound, StepSound, Status, budget
    <3> QED BY <3>1, <3>2
  <2> QED BY <2>1 DEF StepsSound
<1>6. AccountsSound'
  BY DEF Claim, GInv, AccountsSound, AccountSound, Status, budget
<1> QED BY <1>2, <1>4, <1>5, <1>6 DEF GInv

\* Reading the reservation keeps the invariant.
LEMMA ReadKeepsInv ==
  ASSUME GInv, GatewayTypeOK', NEW h \in Thread, Read(h)
  PROVE  GInv'
<1> DEFINE to == IF SnapshotOf[RequestCall[h]] \in snapshots /\ Status(RequestCall[h]) = "reserved"
                 THEN "read" ELSE "refused"
<1>1. /\ pc[h] = "claimed" /\ pc'[h] = to
      /\ \A i \in Thread \ {h} : pc'[i] = pc[i]
      /\ UNCHANGED <<snapshots, reservations, manifests, receipts, calls, used, usage>>
  BY DEF Read, Goes, GInv, GatewayTypeOK, budget
<1>2. OneServer' /\ ClaimsKept'
  <2>1. Moves(h, "claimed", to)
    BY DEF Read, Moves
  <2> QED BY <2>1, MoveKeepsClaims DEF Active, Step, Outcome
<1>3. StepsSound'
  <2>1. ASSUME NEW i \in Thread PROVE StepSound(i, RequestCall[i])'
    <3>1. CASE i = h
      BY <1>1, <3>1 DEF GInv, StepsSound, StepSound, Status
    <3>2. CASE i # h
      BY <1>1, <3>2 DEF GInv, StepsSound, StepSound, Status
    <3> QED BY <3>1, <3>2
  <2> QED BY <2>1 DEF StepsSound
<1>4. AccountsSound'
  BY <1>1 DEF GInv, AccountsSound, AccountSound, Status
<1> QED BY <1>2, <1>3, <1>4 DEF GInv

\* Appending the manifest keeps the invariant.
LEMMA AppendManifestKeepsInv ==
  ASSUME GInv, GatewayTypeOK', NEW h \in Thread, AppendManifest(h)
  PROVE  GInv'
<1>1. PICK to \in {"recorded", "refused"} : Goes(h, "read", to)
  BY DEF AppendManifest
<1>2. /\ pc[h] = "read" /\ pc'[h] = to
      /\ \A i \in Thread \ {h} : pc'[i] = pc[i]
      /\ UNCHANGED <<snapshots, reservations, receipts, calls, used, usage>>
      /\ manifests \subseteq manifests'
      /\ to = "recorded" => RequestCall[h] \in manifests'
  BY <1>1 DEF AppendManifest, Goes, GInv, GatewayTypeOK, budget
<1>3. OneServer' /\ ClaimsKept'
  <2>1. Moves(h, "read", to)
    BY <1>1 DEF AppendManifest, Moves
  <2> QED BY <2>1, MoveKeepsClaims DEF Active, Step, Outcome
<1>4. StepsSound'
  <2>1. ASSUME NEW i \in Thread PROVE StepSound(i, RequestCall[i])'
    <3>1. CASE i = h
      BY <1>2, <3>1 DEF GInv, StepsSound, StepSound, Status
    <3>2. CASE i # h
      BY <1>2, <3>2 DEF GInv, StepsSound, StepSound, Status
    <3> QED BY <3>1, <3>2
  <2> QED BY <2>1 DEF StepsSound
<1>5. AccountsSound'
  BY <1>2 DEF GInv, AccountsSound, AccountSound, Status
<1> QED BY <1>3, <1>4, <1>5 DEF GInv

\* The call: the first for its reservation, which is still open.
LEMMA CallProviderKeepsInv ==
  ASSUME GInv, GatewayTypeOK', NEW h \in Thread, NEW u \in Usage, CallProvider(h, u)
  PROVE  GInv'
<1> DEFINE c == RequestCall[h]
<1>0. c \in Call /\ u \in Amount
  BY RequestsArePlanned, GatewayAssumption
<1>1. /\ pc[h] = "recorded" /\ pc'[h] = "called" /\ usage'[h] = u
      /\ \A i \in Thread \ {h} : pc'[i] = pc[i] /\ usage'[i] = usage[i]
      /\ UNCHANGED <<snapshots, reservations, manifests, receipts>>
      /\ calls[c] = 0 /\ calls'[c] = 1
      /\ used[c] = Zero /\ used'[c] = Add(Zero, u)
      /\ \A k \in Call \ {c} : calls'[k] = calls[k] /\ used'[k] = used[k]
      /\ Status(c) = "reserved"
  BY <1>0 DEF CallProvider, Goes, GInv, GatewayTypeOK, budget, StepsSound, StepSound,
              AccountsSound, AccountSound
<1>2. used'[c] = u
  BY <1>0, <1>1, AddZero
<1>3. OneServer' /\ ClaimsKept'
  <2>1. Moves(h, "recorded", "called")
    BY <1>1 DEF CallProvider, Moves
  <2> QED BY <2>1, MoveKeepsClaims DEF Active, Step, Outcome
<1>4. StepsSound'
  <2>1. ASSUME NEW i \in Thread PROVE StepSound(i, RequestCall[i])'
    <3>1. CASE i = h
      BY <1>1, <1>2, <3>1 DEF StepSound
    <3>2. CASE i # h /\ pc[i] \in Active
      <4>1. RequestCall[i] \in Call \ {c}
        BY <1>1, <3>2, Apart, RequestsArePlanned DEF Active
      <4> QED BY <1>1, <3>2, <4>1 DEF GInv, StepsSound, StepSound, Status
    <3>3. CASE i # h /\ pc[i] \notin Active
      BY <1>1, <3>3 DEF GInv, StepsSound, StepSound, Active
    <3> QED BY <3>1, <3>2, <3>3
  <2> QED BY <2>1 DEF StepsSound
<1>5. AccountsSound'
  <2>1. ASSUME NEW k \in Call PROVE AccountSound(k)'
    <3>1. CASE k = c
      BY <1>1, <3>1 DEF GInv, AccountsSound, AccountSound, Status, Terminal
    <3>2. CASE k # c
      BY <1>1, <3>2 DEF GInv, AccountsSound, AccountSound, Status
    <3> QED BY <3>1, <3>2
  <2> QED BY <2>1 DEF AccountsSound
<1> QED BY <1>3, <1>4, <1>5 DEF GInv

\* The settlement: the charge is what this thread's request consumed, or the
\* maxima when that is unknown.
LEMMA SettleKeepsInv ==
  ASSUME GInv, GatewayTypeOK', NEW h \in Thread, SettleReported(h) \/ SettleUnknown(h)
  PROVE  GInv'
<1> DEFINE c == RequestCall[h]
<1>0. c \in Call
  BY RequestsArePlanned
<1>1. PICK to \in {"settled", "refused"} : Goes(h, "called", to)
  BY DEF SettleReported, SettleUnknown
<1>2. /\ pc[h] = "called" /\ pc'[h] = to
      /\ \A i \in Thread \ {h} : pc'[i] = pc[i]
      /\ UNCHANGED <<snapshots, manifests, receipts, calls, used, usage>>
      /\ \A k \in Call \ {c} : reservations'[k] = reservations[k]
      /\ Status(c) = "reserved" /\ calls[c] = 1 /\ used[c] = usage[h]
      /\ c \notin receipts
  BY <1>0, <1>1 DEF SettleReported, SettleUnknown, Settle, Goes, GInv, GatewayTypeOK,
                    BudgetTypeOK, StepsSound, StepSound, AccountsSound, AccountSound, Status
<1>3. \/ Status(c)' = "settled" /\ reservations'[c].charged = used[c]
      \/ Status(c)' = "conservative_settled" /\ reservations'[c].charged = MaxOf[c]
           /\ to = "refused"
  <2>1. CASE SettleReported(h)
    <3>1. Reported(usage[h]) # Unknown
      BY DEF Reported, Unknown
    <3>2. reservations' = [reservations EXCEPT ![c] =
            [status |-> "settled", charged |-> Charged(c, Reported(usage[h]))]]
      BY <2>1, <3>1 DEF SettleReported, Settle
    <3> QED BY <1>0, <1>2, <3>2, WhatIsCharged DEF GInv, GatewayTypeOK, BudgetTypeOK, Status
  <2>2. CASE SettleUnknown(h)
    <3>1. reservations' = [reservations EXCEPT ![c] =
            [status |-> "conservative_settled", charged |-> Charged(c, Unknown)]]
      BY <2>2 DEF SettleUnknown, Settle
    <3>2. to = "refused"
      BY <1>2, <2>2 DEF SettleUnknown, Goes, GInv, GatewayTypeOK
    <3> QED BY <1>0, <3>1, <3>2, WhatIsCharged DEF GInv, GatewayTypeOK, BudgetTypeOK, Status
  <2> QED BY <2>1, <2>2
<1>4. OneServer' /\ ClaimsKept'
  <2>1. Moves(h, "called", to)
    BY <1>1 DEF SettleReported, SettleUnknown, Moves
  <2> QED BY <2>1, MoveKeepsClaims DEF Active, Step, Outcome
<1>5. StepsSound'
  <2>1. ASSUME NEW i \in Thread PROVE StepSound(i, RequestCall[i])'
    <3>1. CASE i = h
      BY <1>2, <1>3, <3>1 DEF StepSound
    <3>2. CASE i # h /\ pc[i] \in Active
      <4>1. RequestCall[i] \in Call \ {c}
        BY <1>2, <3>2, Apart, RequestsArePlanned DEF Active
      <4> QED BY <1>2, <3>2, <4>1 DEF GInv, StepsSound, StepSound, Status
    <3>3. CASE i # h /\ pc[i] \notin Active
      BY <1>2, <3>3 DEF GInv, StepsSound, StepSound, Active
    <3> QED BY <3>1, <3>2, <3>3
  <2> QED BY <2>1 DEF StepsSound
<1>6. AccountsSound'
  <2>1. ASSUME NEW k \in Call PROVE AccountSound(k)'
    <3>1. CASE k = c
      BY <1>2, <1>3, <3>1 DEF GInv, AccountsSound, AccountSound, Status, Terminal
    <3>2. CASE k # c
      BY <1>2, <3>2 DEF GInv, AccountsSound, AccountSound, Status
    <3> QED BY <3>1, <3>2
  <2> QED BY <2>1 DEF AccountsSound
<1> QED BY <1>4, <1>5, <1>6 DEF GInv

\* A settlement that fails, committed or not, keeps the invariant.
LEMMA SettlementFailsKeepsInv ==
  ASSUME GInv, GatewayTypeOK', NEW h \in Thread, SettlementFails(h)
  PROVE  GInv'
<1>1. /\ pc[h] = "called" /\ pc'[h] = "refused"
      /\ \A i \in Thread \ {h} : pc'[i] = pc[i]
      /\ UNCHANGED <<snapshots, reservations, manifests, receipts, calls, used, usage>>
  BY DEF SettlementFails, Goes, GInv, GatewayTypeOK, budget
<1>2. OneServer' /\ ClaimsKept'
  <2>1. Moves(h, "called", "refused")
    BY DEF SettlementFails, Moves
  <2> QED BY <2>1, MoveKeepsClaims DEF Active, Step, Outcome
<1>3. StepsSound'
  BY <1>1 DEF GInv, StepsSound, StepSound, Status
<1>4. AccountsSound'
  BY <1>1 DEF GInv, AccountsSound, AccountSound, Status
<1> QED BY <1>2, <1>3, <1>4 DEF GInv

\* Appending the receipt keeps the invariant.
LEMMA AppendReceiptKeepsInv ==
  ASSUME GInv, GatewayTypeOK', NEW h \in Thread, AppendReceipt(h)
  PROVE  GInv'
<1>1. PICK to \in {"answered", "refused"} : Goes(h, "settled", to)
  BY DEF AppendReceipt
<1>2. /\ pc[h] = "settled" /\ pc'[h] = to
      /\ \A i \in Thread \ {h} : pc'[i] = pc[i]
      /\ UNCHANGED <<snapshots, reservations, manifests, calls, used, usage>>
      /\ receipts' \in {receipts, receipts \cup {RequestCall[h]}}
      /\ to = "answered" => RequestCall[h] \in receipts'
      /\ Status(RequestCall[h]) = "settled"
  BY <1>1 DEF AppendReceipt, Goes, GInv, GatewayTypeOK, budget, StepsSound, StepSound
<1>3. OneServer' /\ ClaimsKept'
  <2>1. Moves(h, "settled", to)
    BY <1>1 DEF AppendReceipt, Moves
  <2> QED BY <2>1, MoveKeepsClaims DEF Active, Step, Outcome
<1>4. StepsSound'
  <2>1. ASSUME NEW i \in Thread PROVE StepSound(i, RequestCall[i])'
    <3>1. CASE i = h
      BY <1>2, <3>1 DEF StepSound
    <3>2. CASE i # h /\ pc[i] \in Active
      <4>1. RequestCall[i] # RequestCall[h]
        BY <1>2, <3>2, Apart DEF Active
      <4> QED BY <1>2, <3>2, <4>1 DEF GInv, StepsSound, StepSound, Status
    <3>3. CASE i # h /\ pc[i] \notin Active
      BY <1>2, <3>3 DEF GInv, StepsSound, StepSound, Active
    <3> QED BY <3>1, <3>2, <3>3
  <2> QED BY <2>1 DEF StepsSound
<1>5. AccountsSound'
  BY <1>2 DEF GInv, AccountsSound, AccountSound, Status
<1> QED BY <1>3, <1>4, <1>5 DEF GInv

----------------------------------------------------------------------------
(* The invariant and what follows *)

\* Every step keeps the invariant, given the ready file.
LEMMA InvKept ==
  ASSUME UseMarker, GInv, [Next]_vars
  PROVE  GInv'
<1>0. GatewayTypeOK'
  BY TypesKept DEF GInv
<1>1. ASSUME NEW h \in Thread, ThreadNext(h) PROVE GInv'
  BY <1>0, <1>1, ClaimKeepsInv, ReadKeepsInv, AppendManifestKeepsInv, CallProviderKeepsInv,
     SettleKeepsInv, SettlementFailsKeepsInv, AppendReceiptKeepsInv DEF ThreadNext
<1>2. CASE UNCHANGED vars
  <2>1. OneServer' /\ ClaimsKept'
    BY <1>2 DEF vars, gateway, GInv, OneServer, Started, ClaimsKept
  <2>2. StepsSound' /\ AccountsSound'
    BY <1>2 DEF vars, gateway, budget, GInv, StepsSound, StepSound, AccountsSound,
                AccountSound, Status
  <2> QED BY <1>0, <2>1, <2>2 DEF GInv
<1> QED BY <1>0, <1>1, <1>2, PrepareKeepsInv, ProcessKeepsInv DEF Next

\* With the ready file, the invariant of the gateway always holds.
THEOREM GInvHolds ==
  ASSUME UseMarker
  PROVE  Spec => []GInv
<1>1. Init => GInv
  <2> SUFFICES ASSUME Init PROVE GInv
    OBVIOUS
  <2>1. GatewayTypeOK
    <3>1. BudgetTypeOK
      BY ZeroIsAmount DEF Init, BudgetInit, BudgetTypeOK, Reservation
    <3> QED BY <3>1, ZeroIsAmount DEF Init, GatewayTypeOK, Step
  <2>2. OneServer /\ ClaimsKept
    BY DEF Init, OneServer, Started, ClaimsKept, Active
  <2>3. StepsSound /\ AccountsSound
    BY DEF Init, BudgetInit, StepsSound, StepSound, AccountsSound, AccountSound,
           Status, Terminal
  <2> QED BY <2>1, <2>2, <2>3 DEF GInv
<1>2. GInv /\ [Next]_vars => GInv'
  BY InvKept
<1> QED BY <1>1, <1>2, PTL DEF Spec

\* With the ready file, the provider receives at most one request for a
\* reservation, for any number of processes, requests and crashes.
THEOREM ReservationsAreCalledOnce ==
  ASSUME UseMarker
  PROVE  Spec => []OneCallPerReservation
<1>1. GInv => OneCallPerReservation
  BY DEF GInv, AccountsSound, AccountSound, OneCallPerReservation
<1> QED BY <1>1, GInvHolds, PTL

\* With the ready file, the provider is called only while the reservation is
\* open, with snapshot and manifest committed, by the process that claimed it.
THEOREM CallsAreAlwaysGated ==
  ASSUME UseMarker
  PROVE  Spec => CallsAreGated
<1> DEFINE Gated == \A c \in Call : calls'[c] # calls[c] =>
              /\ Status(c) = "reserved"
              /\ SnapshotOf[c] \in snapshots
              /\ c \in manifests
              /\ \E g \in Process : up[g] = "serving" /\ c \in claimed[g]
<1>1. GInv /\ [Next]_vars => [Gated]_vars
  <2> SUFFICES ASSUME GInv, Next PROVE Gated
    BY DEF Gated
  <2>1. ASSUME NEW h \in Thread, NEW u \in Usage, CallProvider(h, u) PROVE Gated
    <3>1. /\ pc[h] = "recorded"
          /\ \A c \in Call : calls'[c] # calls[c] => c = RequestCall[h]
      BY <2>1 DEF CallProvider, Goes, GInv, GatewayTypeOK
    <3> QED BY <3>1 DEF GInv, StepsSound, StepSound, ClaimsKept, Active
  <2>2. ASSUME calls' = calls PROVE Gated
    BY <2>2
  <2>3. calls' = calls \/ \E h \in Thread, u \in Usage : CallProvider(h, u)
    BY DEF Next, Prepare, gateway, ProcessNext, CheckPreconditions, Serve, Crash, ThreadNext,
           Claim, Read, AppendManifest, SettleReported, SettleUnknown, SettlementFails,
           AppendReceipt
  <2> HIDE DEF Gated
  <2> QED BY <2>1, <2>2, <2>3
<1> QED BY <1>1, GInvHolds, PTL DEF Spec, CallsAreGated

\* With the ready file, whatever the provider consumes within the maxima is
\* held against the caps at every moment.
THEOREM SpendIsAlwaysHeld ==
  ASSUME UseMarker
  PROVE  Spec => []SpendIsHeld
<1>1. GInv => SpendIsHeld
  <2> SUFFICES ASSUME GInv, NEW c \in Call, NEW d \in Dim
               PROVE  used[c][d] <= Held(c)[d] \/ used[c][d] > MaxOf[c][d]
    BY DEF SpendIsHeld
  <2>0. /\ AccountSound(c)
        /\ used[c] \in Amount /\ MaxOf[c] \in Amount
        /\ reservations[c] \in Reservation
    BY BudgetAssumption DEF GInv, AccountsSound, GatewayTypeOK, BudgetTypeOK
  <2>1. CASE calls[c] = 0
    <3>1. used[c][d] = 0 /\ Held(c) \in {MaxOf[c], Zero}
      BY <2>0, <2>1 DEF AccountSound, Held, Zero
    <3> QED BY <2>0, <3>1 DEF Amount, Zero
  <2>2. CASE Status(c) = "reserved"
    BY <2>0, <2>2 DEF Held, Terminal, Amount
  <2>3. CASE Status(c) = "settled"
    BY <2>0, <2>3 DEF Held, Terminal, Amount, AccountSound
  <2>4. CASE Status(c) = "conservative_settled"
    BY <2>0, <2>4 DEF Held, Terminal, Amount, AccountSound
  <2> QED BY <2>0, <2>1, <2>2, <2>3, <2>4 DEF AccountSound, Terminal
<1> QED BY <1>1, GInvHolds, PTL

\* With the ready file, an answer stands for a call charged exactly what it
\* consumed, with its receipt.
THEOREM AnswersAreAlwaysAccounted ==
  ASSUME UseMarker
  PROVE  Spec => []AnswersAreAccounted
<1>1. GInv => AnswersAreAccounted
  BY GatewayAssumption DEF GInv, GatewayTypeOK, StepsSound, StepSound, AccountsSound,
                           AccountSound, AnswersAreAccounted
<1> QED BY <1>1, GInvHolds, PTL

----------------------------------------------------------------------------
(* The budget under the gateway *)

\* Whatever a process, a thread or the State Service does, the budget moves by
\* one of its own commands or not at all.
LEMMA GatewayBudgetSteps ==
  ASSUME GatewayTypeOK, [Next]_vars
  PROVE  BudgetStep \/ UNCHANGED budget
<1>1. CASE Prepare
  BY <1>1 DEF Prepare, BudgetStep
<1>2. ASSUME NEW h \in Thread, SettleReported(h) \/ SettleUnknown(h)
      PROVE  BudgetStep
  <2>1. RequestCall[h] \in Call /\ usage[h] \in Amount
    BY RequestsArePlanned DEF GatewayTypeOK
  <2>2. PICK r \in {Unknown} \cup {Reported(u) : u \in Amount} : Settle(RequestCall[h], r)
    BY <1>2, <2>1 DEF SettleReported, SettleUnknown
  <2> QED BY <2>1, <2>2 DEF BudgetStep
<1>3. ASSUME NEW h \in Thread, ThreadNext(h), ~ SettleReported(h), ~ SettleUnknown(h)
      PROVE  UNCHANGED budget
  BY <1>3 DEF ThreadNext, Claim, Read, AppendManifest, CallProvider, SettlementFails,
              AppendReceipt
<1>4. CASE \E g \in Process : ProcessNext(g)
  BY <1>4 DEF ProcessNext, CheckPreconditions, Serve, Crash
<1>5. CASE UNCHANGED vars
  BY <1>5 DEF vars
<1> QED BY <1>1, <1>2, <1>3, <1>4, <1>5 DEF Next

\* The budget's own invariant, and the caps within the maxima.
LEMMA BudgetInvUnderGateway == Spec => [](BudgetInv /\ WithinCaps)
<1>1. Init => BudgetInv /\ WithinCaps
  BY BudgetInvInit, WithinInit DEF Init
<1>2. BudgetInv /\ WithinCaps /\ GatewayTypeOK /\ [Next]_vars => (BudgetInv /\ WithinCaps)'
  BY GatewayBudgetSteps, BudgetInvKept, WithinKept
<1> QED BY <1>1, <1>2, GatewayTypeCorrect, PTL DEF Spec

\* Under any number of gateway processes, threads, duplicated requests and
\* crashes, with the ready file or without it, the caps hold up to flagged
\* overruns and the ledger balances.
THEOREM GatewayKeepsCaps == Spec => [](CapsHold /\ LedgerBalances)
<1>1. BudgetInv => CapsHold /\ LedgerBalances
  BY DEF BudgetInv
<1> QED BY <1>1, BudgetInvUnderGateway, PTL

\* What the provider has consumed for a call, counted up to its maxima.
Spend(c, d) == Lower(used[c][d], MaxOf[c][d])
SpendBy(cs, d) == SumFunctionOnSet([c \in Call |-> Spend(c, d)], cs)

\* Counted so, the consumption itself stays within every cap: of the Program and
\* of each snapshot.
SpendFitsCaps ==
  /\ SpendBy(Call, "input") <= ProgramCaps.input
  /\ SpendBy(Call, "output") <= ProgramCaps.output
  /\ Rmb(SpendBy(Call, "input"), SpendBy(Call, "output")) <= ProgramCaps.rmb
  /\ \A s \in Snapshot, d \in Dim : SpendBy(InSnapshot(s), d) <= CapsOf[s].total[d]

\* A call has consumed no more than what it holds, both up to its maxima.
LEMMA SpendIsWithin ==
  ASSUME GInv, NEW c \in Call, NEW d \in Dim
  PROVE  Spend(c, d) \in Nat /\ Within(c, d) \in Nat /\ Spend(c, d) <= Within(c, d)
<1>1. /\ AccountSound(c) /\ BudgetTypeOK
      /\ used[c] \in Amount /\ MaxOf[c] \in Amount
      /\ reservations[c] \in Reservation
  BY BudgetAssumption DEF GInv, AccountsSound, GatewayTypeOK, BudgetTypeOK
<1>2. /\ Held(c) \in Amount
      /\ used[c][d] \in Nat /\ MaxOf[c][d] \in Nat /\ Held(c)[d] \in Nat
  BY <1>1, HeldIsAmount DEF Amount
<1>3. \/ used[c][d] = 0
      \/ Held(c)[d] = MaxOf[c][d]
      \/ Held(c)[d] = used[c][d]
  BY <1>1 DEF AccountSound, Held, Terminal, Zero
<1> QED BY <1>2, <1>3 DEF Spend, Within, Lower

\* With the ready file, what the provider consumes for all calls together, each
\* up to the maxima it reserved, fits the caps of the Program and of each
\* snapshot at every moment, through crashes before the settlement, unknown
\* usage and repeated requests: the gate that is passed before the call bounds
\* what is spent after it.
THEOREM SpendAlwaysFitsCaps ==
  ASSUME UseMarker
  PROVE  Spec => []SpendFitsCaps
<1>1. GInv /\ WithinCaps => SpendFitsCaps
  <2> SUFFICES ASSUME GInv, WithinCaps PROVE SpendFitsCaps
    OBVIOUS
  <2>1. ASSUME NEW cs \in SUBSET Call, NEW d \in Dim
        PROVE  /\ SpendBy(cs, d) \in Nat /\ WithinBy(cs, d) \in Nat
               /\ SpendBy(cs, d) <= WithinBy(cs, d)
    <3> DEFINE f == [c \in Call |-> Spend(c, d)]
               g == [c \in Call |-> Within(c, d)]
    <3>1. \A c \in cs : f[c] \in Nat /\ g[c] \in Nat /\ f[c] <= g[c]
      BY SpendIsWithin
    <3>2. SpendBy(cs, d) = SumFunctionOnSet(f, cs) /\ WithinBy(cs, d) = SumFunctionOnSet(g, cs)
      BY DEF SpendBy, WithinBy
    <3>3. IsFiniteSet(cs)
      BY BudgetAssumption, FS_Subset
    <3> HIDE DEF f, g
    <3> QED BY <3>1, <3>2, <3>3, SumIsMonotone, SumIsNat
  <2>2. /\ "input" \in Dim /\ "output" \in Dim /\ Call \in SUBSET Call
        /\ \A s \in Snapshot : InSnapshot(s) \in SUBSET Call
        /\ ProgramCaps.input \in Nat /\ ProgramCaps.output \in Nat
        /\ \A s \in Snapshot, d \in Dim : CapsOf[s].total[d] \in Nat
    BY BudgetAssumption DEF Dim, InSnapshot, ProgramCapsType, Caps, Amount
  <2>3. Rmb(SpendBy(Call, "input"), SpendBy(Call, "output")) <= ProgramCaps.rmb
    BY <2>1, <2>2, RmbIsMonotone DEF WithinCaps
  <2>4. /\ SpendBy(Call, "input") <= ProgramCaps.input
        /\ SpendBy(Call, "output") <= ProgramCaps.output
    BY <2>1, <2>2 DEF WithinCaps
  <2>5. ASSUME NEW s \in Snapshot, NEW d \in Dim
        PROVE  SpendBy(InSnapshot(s), d) <= CapsOf[s].total[d]
    <3>1. WithinBy(InSnapshot(s), d) <= CapsOf[s].total[d]
      BY DEF WithinCaps
    <3>2. /\ SpendBy(InSnapshot(s), d) \in Nat /\ WithinBy(InSnapshot(s), d) \in Nat
          /\ SpendBy(InSnapshot(s), d) <= WithinBy(InSnapshot(s), d)
      BY <2>1, <2>2
    <3> QED BY <2>2, <3>1, <3>2
  <2> QED BY <2>3, <2>4, <2>5 DEF SpendFitsCaps
<1> QED BY <1>1, BudgetInvUnderGateway, GInvHolds, PTL

----------------------------------------------------------------------------
(* Refinement of SingleUseCalls *)

Answered == {RequestCall[h] : h \in {i \in Thread : pc[i] = "answered"}}
Phases == [c \in Call |-> PhaseOf(c)]
Charges == [c \in Call |-> reservations[c].charged]

\* The phase of a call, by the status of its reservation.
LEMMA PhaseCases ==
  ASSUME BudgetTypeOK, NEW c \in Call
  PROVE  /\ Status(c) = "absent" => PhaseOf(c) = "idle"
         /\ Status(c) = "refused" => PhaseOf(c) = "refused"
         /\ Status(c) = "reserved" => PhaseOf(c) = IF calls[c] = 0 THEN "open" ELSE "spent"
         /\ Status(c) = "settled" => PhaseOf(c) = IF c \in receipts THEN "closed" ELSE "charged"
         /\ Status(c) = "conservative_settled" => PhaseOf(c) = "presumed"
BY DEF PhaseOf

\* When one call moves and the others are left alone, so do their phases.
LEMMA PhaseMoves ==
  ASSUME NEW c \in Call, NEW to, PhaseOf(c)' = to,
         \A k \in Call \ {c} : /\ reservations'[k] = reservations[k] /\ calls'[k] = calls[k]
                               /\ k \in receipts' <=> k \in receipts
  PROVE  Phases' = [Phases EXCEPT ![c] = to]
<1>1. ASSUME NEW k \in Call \ {c} PROVE PhaseOf(k)' = PhaseOf(k)
  BY <1>1 DEF PhaseOf, Status
<1>2. \A k \in Call : PhaseOf(k)' = IF k = c THEN to ELSE PhaseOf(k)
  BY <1>1
<1> QED BY <1>2, Zenon DEF Phases

\* What the abstract specification sees is settled by reservations, calls,
\* receipts, consumption and answers.
LEMMA SameAbstractly ==
  ASSUME UNCHANGED <<reservations, calls, receipts, used>>, Answered' = Answered
  PROVE  UNCHANGED SingleUse!singleUse
<1>1. Phases' = Phases /\ Charges' = Charges
  BY DEF Phases, Charges, PhaseOf, Status
<1> QED BY <1>1 DEF SingleUse!singleUse, Phases, Charges, Answered

\* Answers come from the receipts' step alone.
LEMMA AnswersKept ==
  ASSUME GInv, Next, \A h \in Thread : ~ (pc[h] = "settled" /\ pc'[h] = "answered")
  PROVE  Answered' = Answered
<1>1. ASSUME NEW h \in Thread PROVE pc'[h] = "answered" <=> pc[h] = "answered"
  BY DEF Next, Prepare, gateway, ProcessNext, CheckPreconditions, Serve, Crash, ThreadNext,
         Claim, Read, AppendManifest, CallProvider, SettleReported, SettleUnknown,
         SettlementFails, AppendReceipt, Goes, GInv, GatewayTypeOK, Outcome
<1> QED BY <1>1 DEF Answered

\* Admitting a call, or another step of the State Service.
LEMMA PrepareRefines ==
  ASSUME GInv, Prepare
  PROVE  SingleUse!Next \/ UNCHANGED SingleUse!singleUse
<1>1. UNCHANGED <<calls, receipts, used>> /\ Answered' = Answered
  BY DEF Prepare, gateway, Answered
<1>2. CASE \E s \in Snapshot : CreateSnapshot(s)
  BY <1>1, <1>2, SameAbstractly DEF CreateSnapshot
<1>3. ASSUME NEW c \in Call, Reserve(c) PROVE SingleUse!Next
  <2>1. PICK to \in {"reserved", "refused"} :
          reservations' = [reservations EXCEPT ![c].status = to]
    BY <1>3 DEF Reserve
  <2>2. /\ reservations \in [Call -> Reservation] /\ Status(c) = "absent"
        /\ calls[c] = 0
    BY <1>3 DEF Reserve, GInv, GatewayTypeOK, BudgetTypeOK, AccountsSound, AccountSound, Terminal
  <2>3. Charges' = Charges
    BY <2>1, <2>2 DEF Charges, Reservation
  <2>4. Phases[c] = "idle" /\ Phases' = [Phases EXCEPT ![c] = IF to = "reserved" THEN "open" ELSE "refused"]
    BY <1>1, <2>1, <2>2 DEF Phases, PhaseOf, Status, Reservation
  <2>5. SingleUse!Admit(c)
    BY <1>1, <2>3, <2>4 DEF SingleUse!Admit, SingleUse!Goes, Phases, Charges, Answered
  <2> QED BY <2>5 DEF SingleUse!Next
<1> QED BY <1>2, <1>3 DEF Prepare

\* The call of a thread is the abstract call's one request.
LEMMA CallProviderRefines ==
  ASSUME GInv, Next, NEW h \in Thread, NEW u \in Usage, CallProvider(h, u)
  PROVE  SingleUse!Next
<1> DEFINE c == RequestCall[h]
<1>0. c \in Call /\ u \in Amount
  BY RequestsArePlanned, GatewayAssumption
<1>1. /\ pc[h] = "recorded" /\ Status(c) = "reserved" /\ calls[c] = 0 /\ used[c] = Zero
      /\ used \in [Call -> Amount] /\ calls \in [Call -> Nat]
  BY <1>0 DEF CallProvider, Goes, GInv, GatewayTypeOK, StepsSound, StepSound, AccountsSound,
              AccountSound
<1>2. used' = [used EXCEPT ![c] = u]
  BY <1>0, <1>1, AddZero DEF CallProvider
<1>3. Charges' = Charges
  BY DEF CallProvider, Charges, budget
<1>4. Phases[c] = "open" /\ Phases' = [Phases EXCEPT ![c] = "spent"]
  <2>1. /\ reservations' = reservations /\ receipts' = receipts
        /\ calls'[c] = 1 /\ \A k \in Call \ {c} : calls'[k] = calls[k]
    BY <1>0, <1>1 DEF CallProvider, budget
  <2>2. PhaseOf(c) = "open" /\ PhaseOf(c)' = "spent"
    BY <1>0, <1>1, <2>1 DEF PhaseOf, Status
  <2> QED BY <1>0, <2>1, <2>2, PhaseMoves DEF Phases
<1>5. Answered' = Answered
  <2>1. \A i \in Thread : pc'[i] = "answered" <=> pc[i] = "answered"
    BY <1>1 DEF CallProvider, Goes, GInv, GatewayTypeOK
  <2> QED BY <2>1 DEF Answered
<1>6. calls' = [calls EXCEPT ![c] = 1]
  BY <1>0, <1>1 DEF CallProvider
<1>7. SingleUse!Spend(c, u)
  BY <1>2, <1>6, <1>3, <1>4, <1>5 DEF SingleUse!Spend, SingleUse!Goes, Phases, Charges, Answered
<1> QED BY <1>0, <1>7 DEF SingleUse!Next

\* A settlement charges what was consumed, or the maxima.
LEMMA SettleRefines ==
  ASSUME GInv, Next, NEW h \in Thread, SettleReported(h) \/ SettleUnknown(h)
  PROVE  SingleUse!Next
<1> DEFINE c == RequestCall[h]
<1>0. c \in Call
  BY RequestsArePlanned
<1>1. /\ pc[h] = "called" /\ Status(c) = "reserved" /\ calls[c] = 1 /\ c \notin receipts
      /\ used[c] = usage[h] /\ reservations \in [Call -> Reservation]
      /\ UNCHANGED <<calls, receipts, used>>
  BY <1>0 DEF SettleReported, SettleUnknown, Settle, Goes, GInv, GatewayTypeOK, BudgetTypeOK,
              StepsSound, StepSound, AccountsSound, AccountSound, Status
<1>2. PICK row \in {[status |-> "settled", charged |-> used[c]],
                    [status |-> "conservative_settled", charged |-> MaxOf[c]]} :
        reservations' = [reservations EXCEPT ![c] = row]
  <2>1. CASE SettleReported(h)
    <3>1. Reported(usage[h]) # Unknown
      BY DEF Reported, Unknown
    <3>2. reservations' = [reservations EXCEPT ![c] =
            [status |-> "settled", charged |-> Charged(c, Reported(usage[h]))]]
      BY <2>1, <3>1 DEF SettleReported, Settle
    <3> QED BY <1>0, <1>1, <3>2, WhatIsCharged
  <2>2. CASE SettleUnknown(h)
    <3>1. reservations' = [reservations EXCEPT ![c] =
            [status |-> "conservative_settled", charged |-> Charged(c, Unknown)]]
      BY <2>2 DEF SettleUnknown, Settle
    <3> QED BY <1>0, <3>1, WhatIsCharged
  <2> QED BY <2>1, <2>2
<1>3. Charges' = [Charges EXCEPT ![c] = row.charged]
  BY <1>0, <1>1, <1>2 DEF Charges
<1>4. /\ Phases[c] = "spent"
      /\ Phases' = [Phases EXCEPT ![c] = IF row.status = "settled" THEN "charged" ELSE "presumed"]
  <2>1. Status(c)' = row.status /\ \A k \in Call \ {c} : reservations'[k] = reservations[k]
    BY <1>0, <1>1, <1>2 DEF Status
  <2>2. PhaseOf(c) = "spent" /\ PhaseOf(c)' = IF row.status = "settled" THEN "charged" ELSE "presumed"
    BY <1>1, <1>2, <2>1 DEF PhaseOf, Status
  <2> QED BY <1>0, <1>1, <2>1, <2>2, PhaseMoves DEF Phases
<1>5. Answered' = Answered
  <2>1. \A i \in Thread : pc'[i] = "answered" <=> pc[i] = "answered"
    BY <1>1 DEF SettleReported, SettleUnknown, Goes, GInv, GatewayTypeOK
  <2> QED BY <2>1 DEF Answered
<1>6. SingleUse!Charge(c)
  <2>1. CASE row.status = "settled"
    <3>1. Phases[c] = "spent" /\ Phases' = [Phases EXCEPT ![c] = "charged"]
      BY <1>4, <2>1
    <3>2. SingleUse!Goes(c, "spent", "charged")
      BY <3>1 DEF SingleUse!Goes, Phases
    <3>3. row.charged = used[c]
      BY <1>2, <2>1
    <3>4. Charges' = [Charges EXCEPT ![c] = used[c]]
      BY <1>3, <3>3
    <3> QED BY <1>1, <1>5, <3>2, <3>4, Zenon DEF SingleUse!Charge, Charges, Answered
  <2>2. CASE row.status = "conservative_settled"
    <3>1. Phases[c] = "spent" /\ Phases' = [Phases EXCEPT ![c] = "presumed"]
      BY <1>4, <2>2
    <3>2. SingleUse!Goes(c, "spent", "presumed")
      BY <3>1 DEF SingleUse!Goes, Phases
    <3>3. row.charged = MaxOf[c]
      BY <1>2, <2>2
    <3>4. Charges' = [Charges EXCEPT ![c] = MaxOf[c]]
      BY <1>3, <3>3
    <3> QED BY <1>1, <1>5, <3>2, <3>4, Zenon DEF SingleUse!Charge, Charges, Answered
  <2> QED BY <1>2, <2>1, <2>2
<1> QED BY <1>0, <1>6 DEF SingleUse!Next

\* The receipt closes the call, and its caller has the answer or not.
LEMMA AppendReceiptRefines ==
  ASSUME GInv, Next, NEW h \in Thread, AppendReceipt(h)
  PROVE  SingleUse!Next \/ UNCHANGED SingleUse!singleUse
<1> DEFINE c == RequestCall[h]
<1>0. c \in Call
  BY RequestsArePlanned
<1>1. PICK to \in {"answered", "refused"} :
        /\ pc[h] = "settled" /\ pc' = [pc EXCEPT ![h] = to]
        /\ receipts' \in {receipts, receipts \cup {c}}
        /\ to = "answered" => c \in receipts'
        /\ UNCHANGED <<reservations, calls, used>>
  BY DEF AppendReceipt, Goes, budget
<1>2. Status(c) = "settled" /\ c \notin receipts /\ pc \in [Thread -> Step]
  BY <1>1 DEF GInv, GatewayTypeOK, StepsSound, StepSound
<1>3. Answered' \in {Answered, Answered \cup {c}} /\ (to = "refused" => Answered' = Answered)
  <2>1. \A i \in Thread : pc'[i] = "answered" <=> pc[i] = "answered" \/ (i = h /\ to = "answered")
    BY <1>1, <1>2
  <2> QED BY <2>1 DEF Answered
<1>4. Charges' = Charges
  BY <1>1 DEF Charges
<1>5. CASE receipts' = receipts
  <2>1. to = "refused"
    BY <1>1, <1>2, <1>5
  <2> QED BY <1>1, <1>3, <1>5, <2>1, SameAbstractly
<1>6. CASE receipts' = receipts \cup {c}
  <2>1. Phases[c] = "charged" /\ Phases' = [Phases EXCEPT ![c] = "closed"]
    <3>1. PhaseOf(c) = "charged" /\ PhaseOf(c)' = "closed"
      BY <1>1, <1>2, <1>6 DEF PhaseOf, Status
    <3> QED BY <1>0, <1>1, <1>6, <3>1, PhaseMoves DEF Phases
  <2>2. SingleUse!Close(c)
    BY <1>1, <1>3, <1>4, <2>1 DEF SingleUse!Close, SingleUse!Goes, Phases, Charges, Answered
  <2> QED BY <1>0, <2>2 DEF SingleUse!Next
<1> QED BY <1>1, <1>5, <1>6

\* Every other step of a process or a thread is invisible.
LEMMA OthersStutter ==
  ASSUME GInv, Next,
         \/ \E g \in Process : ProcessNext(g)
         \/ \E h \in Thread : \/ \E g \in Process : Claim(h, g)
                             \/ Read(h) \/ AppendManifest(h) \/ SettlementFails(h)
  PROVE  UNCHANGED SingleUse!singleUse
<1>1. UNCHANGED <<reservations, calls, receipts, used>>
  BY DEF ProcessNext, CheckPreconditions, Serve, Crash, Claim, Read, AppendManifest,
         SettlementFails, budget
<1>2. \A i \in Thread : ~ (pc[i] = "settled" /\ pc'[i] = "answered")
  BY DEF ProcessNext, CheckPreconditions, Serve, Crash, Claim, Read, AppendManifest,
         SettlementFails, Goes, GInv, GatewayTypeOK
<1> QED BY <1>1, <1>2, AnswersKept, SameAbstractly

\* With the ready file, the gateway implements SingleUseCalls: for any number
\* of requests, threads, processes and crashes, a call is admitted once,
\* spends once, is charged once and closes once.
THEOREM GatewayImplementsSingleUse ==
  ASSUME UseMarker
  PROVE  Spec => CallsAreSingleUse
<1>1. Init => SingleUse!Init
  BY DEF Init, BudgetInit, SingleUse!Init, PhaseOf, Status
<1>2. GInv /\ [Next]_vars => [SingleUse!Next]_(SingleUse!singleUse)
  <2> SUFFICES ASSUME GInv, [Next]_vars
               PROVE  SingleUse!Next \/ UNCHANGED SingleUse!singleUse
    OBVIOUS
  <2>1. CASE UNCHANGED vars
    <3>1. UNCHANGED <<reservations, calls, receipts, used>> /\ Answered' = Answered
      BY <2>1 DEF vars, budget, gateway, Answered
    <3> QED BY <3>1, SameAbstractly
  <2>2. CASE Next
    BY <2>2, PrepareRefines, CallProviderRefines, SettleRefines, AppendReceiptRefines,
       OthersStutter DEF Next, ThreadNext
  <2> QED BY <2>1, <2>2
<1> QED BY <1>1, <1>2, GInvHolds, PTL DEF Spec, CallsAreSingleUse, SingleUse!Spec

=============================================================================
