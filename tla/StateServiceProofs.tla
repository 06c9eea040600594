------------------------- MODULE StateServiceProofs -------------------------
(***************************************************************************)
(* Proofs about the State Service of one Program, for any principals, any  *)
(* numbers of rows and any bounds: types, and the safety properties of     *)
(* StateService, from one inductive invariant (IInv); and the refinement   *)
(* of MandatedPlan, whose invariant (MInv) adds that the line of plans has *)
(* no gap and that approvals and decisions keep their deadlines.           *)
(***************************************************************************)
EXTENDS StateService, SequenceTheorems, TLAPS

\* The rows of a table that are not absent are of its row type.
LEMMA FreshRow ==
  ASSUME NEW rows, HasFresh(rows)
  PROVE  Fresh(rows) \in DOMAIN rows /\ ~Exists(rows[Fresh(rows)])
  BY DEF HasFresh, Fresh

\* What a commit writes, whatever the command.
LEMMA CommitWrites ==
  ASSUME TypeOK, HasFresh(receipts), NEW type \in EventType, Commit(type)
  PROVE  \E k \in Key :
           /\ ~Exists(receipts[k])
           /\ stateVersion' = stateVersion + 1
           /\ receipts' = [receipts EXCEPT ![k] = [status |-> "committed",
                                                   version |-> stateVersion + 1]]
           /\ events' = events \cup {[version |-> stateVersion + 1, type |-> type,
                                      command |-> k]}
<1>1. Fresh(receipts) \in Key /\ ~Exists(receipts[Fresh(receipts)])
  BY FreshRow DEF TypeOK
<1> QED BY <1>1 DEF Commit

\* A commit keeps the types of the version, the receipts and the events.
LEMMA CommitType ==
  ASSUME TypeOK, HasFresh(receipts), NEW type \in EventType, Commit(type)
  PROVE  /\ stateVersion' \in Nat
         /\ receipts' \in [Key -> ReceiptRow \cup {Absent}]
         /\ events' \subseteq EventRow
  BY CommitWrites DEF TypeOK, ReceiptRow, EventRow

----------------------------------------------------------------------------
(* Type correctness *)

\* The empty tables are well typed.
LEMMA TypeInit == Init => TypeOK
<1> SUFFICES ASSUME Init PROVE TypeOK
  OBVIOUS
<1>1. allowReorder \in BOOLEAN
  BY Zenon DEF Init
<1>2. /\ stateVersion \in Nat
      /\ activePlan \in PlanId \cup {Nil}
      /\ owner \in Principal \cup {Nil}
      /\ now \in Nat
      /\ events \subseteq EventRow
  BY DEF Init
<1>3. /\ plans \in [PlanId -> PlanRow \cup {Absent}]
      /\ proposals \in [Proposal -> ProposalRow \cup {Absent}]
      /\ approvals \in [Proposal -> ApprovalRow \cup {Absent}]
      /\ decisions \in [Decision -> DecisionRow \cup {Absent}]
      /\ receipts \in [Key -> ReceiptRow \cup {Absent}]
  BY DEF Init
<1> QED BY <1>1, <1>2, <1>3 DEF TypeOK

\* A change of an existing plan gives a content and a diff of the right types.
LEMMA DiffType ==
  ASSUME TypeOK, NEW base \in PlanId, Exists(plans[base]),
         NEW change \in Change, Applicable(change)
  PROVE  /\ plans[base].content \in Content
         /\ ApplyChange(plans[base].content, change) \in Content
         /\ Diff(base, change) \in DiffHash
<1>1. \A l \in PlanId : Exists(plans[l]) => plans[l].content \in Content
  BY DEF TypeOK, PlanRow, Exists, Absent
<1>2. /\ change.kind \in {"reorder_tasks", "edit_plan", "restore_plan"}
      /\ change.kind = "reorder_tasks" => change.to \in Order
      /\ change.kind = "edit_plan" => change.to \in Body
      /\ change.kind = "restore_plan" => change.to \in PlanId /\ Exists(plans[change.to])
  BY DEF Change, Applicable
<1>3. ApplyChange(plans[base].content, change) \in Content
  BY <1>1, <1>2 DEF ApplyChange, Content
<1> QED BY <1>1, <1>2, <1>3 DEF Diff, DiffHash

\* The active plan exists: the part of LinearHistory types need.
ActiveExists == activePlan # Nil => Exists(plans[activePlan])

\* Creating a Program keeps all types.
LEMMA CreateType ==
  ASSUME TypeOK, NEW who \in Principal, NEW policy \in BOOLEAN, NEW content \in Content,
         CreateProgram(who, policy, content)
  PROVE  TypeOK'
<1>1. Fresh(plans) \in PlanId
  BY FreshRow DEF CreateProgram, TypeOK
<1>2. plans' \in [PlanId -> PlanRow \cup {Absent}] /\ activePlan' \in PlanId
  BY <1>1 DEF CreateProgram, TypeOK, PlanRow
<1>3. /\ stateVersion' \in Nat
      /\ receipts' \in [Key -> ReceiptRow \cup {Absent}]
      /\ events' \subseteq EventRow
  BY CommitType DEF CreateProgram, EventType
<1> QED BY <1>2, <1>3 DEF CreateProgram, TypeOK

\* Submitting a proposal keeps all types.
LEMMA SubmitType ==
  ASSUME TypeOK, ActiveExists, HasFresh(receipts), NEW expected, NEW base \in PlanId,
         NEW change \in Change, SubmitAllowed(expected, base, change), Submit(base, change)
  PROVE  TypeOK'
<1>0. Nil \notin PlanId
  BY IdAssumption
<1>1. Diff(base, change) \in DiffHash
  BY <1>0, DiffType DEF SubmitAllowed, ActiveExists
<1>2. Fresh(proposals) \in Proposal
  BY FreshRow DEF Submit, TypeOK
<1>3. proposals' \in [Proposal -> ProposalRow \cup {Absent}]
  BY <1>1, <1>2 DEF Submit, TypeOK, ProposalRow
<1>4. now + ApprovalTTL \in Nat
  BY BoundAssumption DEF TypeOK
<1>5. approvals' \in [Proposal -> ApprovalRow \cup {Absent}]
  BY <1>1, <1>2, <1>4 DEF Submit, TypeOK, ApprovalRow
<1>6. /\ stateVersion' \in Nat
      /\ receipts' \in [Key -> ReceiptRow \cup {Absent}]
      /\ events' \subseteq EventRow
  BY CommitType DEF Submit, EventType
<1> QED BY <1>3, <1>5, <1>6 DEF Submit, TypeOK

\* Recording a decision keeps all types.
LEMMA DecideType ==
  ASSUME TypeOK, HasFresh(receipts), NEW who \in Principal, NEW expected, NEW p \in Proposal,
         NEW verdict \in {"approve", "deny"}, DecideAllowed(expected, p),
         Decide(who, p, verdict)
  PROVE  TypeOK'
<1>1. approvals[p] \in ApprovalRow
  BY DEF DecideAllowed, TypeOK, Absent
<1>2. proposals[p] \in ProposalRow
  BY DEF DecideAllowed, TypeOK, Absent
<1>3. Fresh(decisions) \in Decision
  BY FreshRow DEF Decide, TypeOK
<1>4. decisions' \in [Decision -> DecisionRow \cup {Absent}]
  BY <1>1, <1>3 DEF Decide, TypeOK, DecisionRow, ApprovalRow
<1>5. approvals' \in [Proposal -> ApprovalRow \cup {Absent}]
  BY <1>1 DEF Decide, TypeOK, ApprovalRow
<1>6. proposals' \in [Proposal -> ProposalRow \cup {Absent}]
  BY <1>2 DEF Decide, TypeOK, ProposalRow
<1>7. /\ stateVersion' \in Nat
      /\ receipts' \in [Key -> ReceiptRow \cup {Absent}]
      /\ events' \subseteq EventRow
  BY CommitType DEF Decide, EventType
<1> QED BY <1>4, <1>5, <1>6, <1>7 DEF Decide, TypeOK

\* Applying a proposal keeps all types.
LEMMA ApplyType ==
  ASSUME TypeOK, ActiveExists, HasFresh(receipts), NEW expected, NEW base \in PlanId,
         NEW p \in Proposal, NEW d \in Decision \cup {Nil},
         ApplyAllowed(expected, base, p, d), Apply(base, p, d)
  PROVE  TypeOK'
<1>1. proposals[p] \in ProposalRow
  BY DEF ApplyAllowed, TypeOK, Exists, Absent
<1>2. Exists(plans[base]) /\ plans[base] \in PlanRow
  BY IdAssumption DEF ApplyAllowed, ActiveExists, TypeOK, Exists, Absent
<1>3. ApplyChange(plans[base].content, proposals[p].change) \in Content
  BY <1>1, <1>2, DiffType DEF ApplyAllowed, ProposalRow
<1>4. Fresh(plans) \in PlanId
  BY FreshRow DEF Apply, TypeOK
<1>5. proposals[p].change.kind = "restore_plan" => proposals[p].change.to \in PlanId
  BY <1>1 DEF ProposalRow, Change
<1>6. plans' \in [PlanId -> PlanRow \cup {Absent}] /\ activePlan' \in PlanId
  <2> DEFINE row == [status |-> "present", no |-> plans[base].no + 1,
                     previous |-> base, proposal |-> p, decision |-> d,
                     risk |-> proposals[p].risk,
                     content |-> ApplyChange(plans[base].content, proposals[p].change),
                     restoredFrom |-> IF proposals[p].change.kind = "restore_plan"
                                      THEN proposals[p].change.to ELSE Nil,
                     createdAt |-> now]
  <2>1. plans' = [plans EXCEPT ![Fresh(plans)] = row] /\ activePlan' = Fresh(plans)
    BY DEF Apply
  <2>2. plans[base].no \in Nat \ {0} /\ proposals[p].risk \in {"low", "high"} /\ now \in Nat
    BY <1>1, <1>2 DEF PlanRow, ProposalRow, TypeOK
  <2>3. row \in PlanRow
    BY <1>3, <1>5, <2>2 DEF PlanRow
  <2> QED BY <1>4, <2>1, <2>3 DEF TypeOK
<1>7. proposals' \in [Proposal -> ProposalRow \cup {Absent}]
  BY <1>1 DEF Apply, TypeOK, ProposalRow
<1>8. approvals' \in [Proposal -> ApprovalRow \cup {Absent}]
  <2>1. CASE d = Nil
    BY <2>1 DEF Apply, TypeOK
  <2>2. CASE d # Nil
    <3>1. proposals[p].risk = "high"
      BY <2>2, <1>1 DEF ApplyAllowed, ProposalRow
    <3>2. decisions[d].proposal = p /\ approvals[p].status = "approved"
      BY <3>1 DEF ApplyAllowed, DecisionAuthorises
    <3>3. approvals[p] \in ApprovalRow
      BY <3>2 DEF TypeOK, Absent
    <3> QED BY <2>2, <3>2, <3>3 DEF Apply, TypeOK, ApprovalRow
  <2> QED BY <2>1, <2>2
<1>9. /\ stateVersion' \in Nat
      /\ receipts' \in [Key -> ReceiptRow \cup {Absent}]
      /\ events' \subseteq EventRow
  BY CommitType DEF Apply, EventType
<1> QED BY <1>6, <1>7, <1>8, <1>9 DEF Apply, TypeOK

\* Expiring an approval keeps all types.
LEMMA ExpireType ==
  ASSUME TypeOK, HasFresh(receipts), NEW expected, NEW p \in Proposal,
         ExpireAllowed(expected, p), Expire(p)
  PROVE  TypeOK'
<1>1. approvals[p] \in ApprovalRow /\ proposals[p] \in ProposalRow
  BY DEF ExpireAllowed, Expire, TypeOK, Absent
<1>2. approvals' \in [Proposal -> ApprovalRow \cup {Absent}]
  BY <1>1 DEF Expire, TypeOK, ApprovalRow
<1>3. proposals' \in [Proposal -> ProposalRow \cup {Absent}]
  BY <1>1 DEF Expire, TypeOK, ProposalRow
<1>4. /\ stateVersion' \in Nat
      /\ receipts' \in [Key -> ReceiptRow \cup {Absent}]
      /\ events' \subseteq EventRow
  BY CommitType DEF Expire, EventType
<1> QED BY <1>2, <1>3, <1>4 DEF Expire, TypeOK

\* A rejected command keeps all types: it writes a receipt and nothing else.
LEMMA RejectType ==
  ASSUME TypeOK, HasFresh(receipts), Reject
  PROVE  TypeOK'
  BY FreshRow DEF Reject, program, TypeOK, ReceiptRow

\* The clock keeps all types.
LEMMA TickType == TypeOK /\ Tick => TypeOK'
  BY DEF Tick, program, TypeOK

\* A stuttering step keeps all types.
LEMMA StutterType == TypeOK /\ UNCHANGED vars => TypeOK'
  BY DEF vars, program, TypeOK

----------------------------------------------------------------------------
(* Every step is a stutter, a tick, a rejection or a successful command *)

Rejects == HasFresh(receipts) /\ Reject

Creates ==
  \E who \in Principal, policy \in BOOLEAN, content \in Content :
    CreateProgram(who, policy, content)

Submits ==
  \E expected \in Versions, base \in PlanId, change \in Change :
    /\ Issuers("state.proposal.submit") # {} /\ HasFresh(receipts)
    /\ SubmitAllowed(expected, base, change) /\ Submit(base, change)

Decides ==
  \E who \in Issuers("human_decision.record"), expected \in Versions,
     p \in Proposal, verdict \in {"approve", "deny"} :
    /\ HasFresh(receipts)
    /\ DecideAllowed(expected, p) /\ Decide(who, p, verdict)

Applies ==
  \E expected \in Versions, base \in PlanId, p \in Proposal,
     d \in Decision \cup {Nil} :
    /\ Issuers("state.proposal.apply") # {} /\ HasFresh(receipts)
    /\ ApplyAllowed(expected, base, p, d) /\ Apply(base, p, d)

Expires ==
  \E expected \in Versions, p \in Proposal :
    /\ HasFresh(receipts)
    /\ ExpireAllowed(expected, p) /\ Expire(p)

\* Every step is one of the five commands that succeed, a rejection or a tick.
LEMMA StepCases ==
  [Next]_vars => \/ UNCHANGED vars \/ Tick \/ Rejects
                 \/ Creates \/ Submits \/ Decides \/ Applies \/ Expires
<1> SUFFICES ASSUME [Next]_vars
             PROVE  \/ UNCHANGED vars \/ Tick \/ Rejects
                    \/ Creates \/ Submits \/ Decides \/ Applies \/ Expires
  OBVIOUS
<1>1. SubmitProposal => Submits \/ Rejects
  BY DEF SubmitProposal, Submits, Rejects
<1>2. RecordHumanDecision => Decides \/ Rejects
  BY DEF RecordHumanDecision, Decides, Rejects
<1>3. ApplyProposal => Applies \/ Rejects
  BY DEF ApplyProposal, Applies, Rejects
<1>4. ExpireApproval => Expires \/ Rejects
  BY DEF ExpireApproval, Expires, Rejects
<1> QED
  BY <1>1, <1>2, <1>3, <1>4 DEF Next, Creates, AnswerFromReceipt

\* Every step keeps all types.
LEMMA TypeNext == TypeOK /\ ActiveExists /\ [Next]_vars => TypeOK'
<1> SUFFICES ASSUME TypeOK, ActiveExists, [Next]_vars PROVE TypeOK'
  OBVIOUS
<1>1. CASE UNCHANGED vars \/ Tick \/ Rejects
  BY <1>1, StutterType, TickType, RejectType DEF Rejects
<1>2. CASE Creates
  BY <1>2, CreateType DEF Creates
<1>3. CASE Submits
  BY <1>3, SubmitType DEF Submits
<1>4. CASE Decides
  BY <1>4, DecideType DEF Decides, Issuers
<1>5. CASE Applies
  BY <1>5, ApplyType DEF Applies
<1>6. CASE Expires
  BY <1>6, ExpireType DEF Expires
<1> QED BY <1>1, <1>2, <1>3, <1>4, <1>5, <1>6, StepCases

----------------------------------------------------------------------------
(* The line of plans *)

\* The active plan of a linear history exists.
LEMMA ActiveExistsFollows == LinearHistory => ActiveExists
  BY DEF LinearHistory, ActiveExists

\* The plan that applying p to base with decision d creates.
AppliedPlan(base, p, d) ==
  [status |-> "present", no |-> plans[base].no + 1,
   previous |-> base, proposal |-> p, decision |-> d,
   risk |-> proposals[p].risk,
   content |-> ApplyChange(plans[base].content, proposals[p].change),
   restoredFrom |-> IF proposals[p].change.kind = "restore_plan"
                    THEN proposals[p].change.to ELSE Nil,
   createdAt |-> now]

\* An application adds one new plan on top of the active one and activates it.
LEMMA ApplyAddsPlan ==
  ASSUME TypeOK, ActiveExists, NEW expected, NEW base \in PlanId, NEW p \in Proposal,
         NEW d, ApplyAllowed(expected, base, p, d), Apply(base, p, d)
  PROVE  /\ activePlan = base /\ Exists(plans[base]) /\ plans[base] \in PlanRow
         /\ proposals[p] \in ProposalRow
         /\ \E l \in PlanId :
              /\ ~Exists(plans[l]) /\ activePlan' = l
              /\ plans'[l] = AppliedPlan(base, p, d)
              /\ \A m \in PlanId : m # l => plans'[m] = plans[m]
<1>1. activePlan = base /\ Exists(plans[base]) /\ plans[base] \in PlanRow
  BY IdAssumption DEF ApplyAllowed, ActiveExists, TypeOK, Exists, Absent
<1>2. proposals[p] \in ProposalRow
  BY DEF ApplyAllowed, TypeOK, Exists, Absent
<1>3. Fresh(plans) \in PlanId /\ ~Exists(plans[Fresh(plans)])
  BY FreshRow DEF Apply, TypeOK
<1>4. /\ activePlan' = Fresh(plans)
      /\ plans' = [plans EXCEPT ![Fresh(plans)] = AppliedPlan(base, p, d)]
  BY DEF Apply, AppliedPlan
<1>5. /\ plans'[Fresh(plans)] = AppliedPlan(base, p, d)
      /\ \A m \in PlanId : m # Fresh(plans) => plans'[m] = plans[m]
  BY <1>3, <1>4 DEF TypeOK
<1> QED BY <1>1, <1>2, <1>3, <1>4, <1>5

\* No plan, no history: the initial state is linear.
LEMMA LinearInit == Init => LinearHistory
  BY DEF Init, LinearHistory, Created, Exists, Absent

\* The first plan of a Program is a linear history.
LEMMA LinearCreate ==
  ASSUME TypeOK, LinearHistory, NEW who \in Principal, NEW policy, NEW content,
         CreateProgram(who, policy, content)
  PROVE  LinearHistory'
<1>1. Fresh(plans) \in PlanId
  BY FreshRow DEF CreateProgram, TypeOK
<1>2. \A m \in PlanId : ~Exists(plans[m])
  BY DEF LinearHistory, CreateProgram
<1>3. /\ plans'[Fresh(plans)].status = "present"
      /\ plans'[Fresh(plans)].no = 1
      /\ plans'[Fresh(plans)].previous = Nil
      /\ \A m \in PlanId : m # Fresh(plans) => ~Exists(plans'[m])
      /\ activePlan' = Fresh(plans) /\ owner' = who
  BY <1>1, <1>2 DEF CreateProgram, TypeOK
<1>4. Created' /\ activePlan' # Nil /\ Exists(plans'[activePlan'])
  BY <1>1, <1>3, IdAssumption, PrincipalAssumption DEF Created, Exists
<1> QED BY <1>3, <1>4 DEF LinearHistory

\* An application extends the line by its new active plan.
LEMMA LinearApply ==
  ASSUME TypeOK, LinearHistory, NEW expected, NEW base \in PlanId, NEW p \in Proposal,
         NEW d, ApplyAllowed(expected, base, p, d), Apply(base, p, d)
  PROVE  LinearHistory'
<1>1. /\ activePlan = base /\ Exists(plans[base]) /\ plans[base] \in PlanRow
  BY ActiveExistsFollows, ApplyAddsPlan
<1>2. PICK l \in PlanId :
        /\ ~Exists(plans[l]) /\ activePlan' = l
        /\ plans'[l] = AppliedPlan(base, p, d)
        /\ \A m \in PlanId : m # l => plans'[m] = plans[m]
  BY ActiveExistsFollows, ApplyAddsPlan
<1>3. /\ Exists(plans'[l]) /\ plans'[l].no = plans[base].no + 1
      /\ plans'[l].previous = base
  BY <1>2 DEF AppliedPlan, Exists
<1>4. base # l /\ base # Nil /\ l # Nil
  BY <1>1, <1>2, IdAssumption
<1>5. Created /\ Created'
  BY <1>1, <1>4 DEF LinearHistory, Created, Apply
<1>6. \A m \in PlanId : Exists(plans[m]) => plans[m].no \in Nat /\ plans[m].no <= plans[base].no
  BY <1>1 DEF LinearHistory, TypeOK, PlanRow, Exists, Absent
<1>7. plans[base].no \in Nat
  BY <1>1 DEF PlanRow
<1>8. ASSUME NEW m \in PlanId, Exists(plans'[m])
      PROVE  /\ plans'[m].no <= plans'[l].no
             /\ \A n \in PlanId : Exists(plans'[n]) /\ plans'[n].no = plans'[m].no => n = m
             /\ IF plans'[m].previous = Nil
                THEN plans'[m].no = 1
                ELSE /\ Exists(plans'[plans'[m].previous])
                     /\ plans'[m].no = plans'[plans'[m].previous].no + 1
  <2>1. CASE m = l
    <3>1. \A n \in PlanId : n # l /\ Exists(plans'[n]) => plans'[n].no # plans'[l].no
      BY <1>2, <1>3, <1>6, <1>7
    <3>2. plans'[base] = plans[base]
      BY <1>2, <1>4
    <3> QED BY <2>1, <3>1, <3>2, <1>1, <1>3, <1>4, <1>7
  <2>2. CASE m # l
    <3>1. plans'[m] = plans[m] /\ Exists(plans[m])
      BY <2>2, <1>2, <1>8
    <3>2. plans'[m].no <= plans'[l].no /\ plans'[m].no # plans'[l].no
      BY <3>1, <1>3, <1>6, <1>7
    <3>3. \A n \in PlanId : Exists(plans'[n]) /\ plans'[n].no = plans'[m].no => n = m
      BY <3>1, <3>2, <1>2 DEF LinearHistory
    <3>4. plans[m].previous # Nil =>
            /\ plans[m].previous \in PlanId
            /\ Exists(plans[plans[m].previous])
            /\ plans[m].no = plans[plans[m].previous].no + 1
      BY <3>1 DEF LinearHistory, TypeOK, PlanRow, Exists, Absent
    <3>5. plans[m].previous # Nil => plans'[plans[m].previous] = plans[plans[m].previous]
      BY <3>4, <1>2
    <3>6. plans[m].previous = Nil => plans[m].no = 1
      BY <3>1 DEF LinearHistory
    <3> QED BY <3>1, <3>2, <3>3, <3>4, <3>5, <3>6
  <2> QED BY <2>1, <2>2
<1> QED
  BY <1>2, <1>3, <1>4, <1>5, <1>8 DEF LinearHistory

\* Steps that touch no plan keep the line.
LEMMA LinearSame ==
  LinearHistory /\ UNCHANGED <<plans, activePlan, owner>> => LinearHistory'
  BY DEF LinearHistory, Created

\* Every step keeps the history of plans linear.
LEMMA LinearNext == TypeOK /\ LinearHistory /\ [Next]_vars => LinearHistory'
<1> SUFFICES ASSUME TypeOK, LinearHistory, [Next]_vars PROVE LinearHistory'
  OBVIOUS
<1>1. CASE UNCHANGED vars \/ Tick \/ Rejects
  BY <1>1, LinearSame DEF vars, program, Tick, Rejects, Reject
<1>2. CASE Creates
  BY <1>2, LinearCreate DEF Creates
<1>3. CASE Submits
  BY <1>3, LinearSame DEF Submits, Submit
<1>4. CASE Decides
  BY <1>4, LinearSame DEF Decides, Decide
<1>5. CASE Applies
  BY <1>5, LinearApply DEF Applies
<1>6. CASE Expires
  BY <1>6, LinearSame DEF Expires, Expire
<1> QED BY <1>1, <1>2, <1>3, <1>4, <1>5, <1>6, StepCases

\* Types and linear history together are an invariant.
LEMMA TypedLine == Spec => [](TypeOK /\ LinearHistory)
<1>1. Init => TypeOK /\ LinearHistory
  BY TypeInit, LinearInit
<1>2. TypeOK /\ LinearHistory /\ [Next]_vars => TypeOK' /\ LinearHistory'
  BY TypeNext, LinearNext, ActiveExistsFollows
<1> QED BY <1>1, <1>2, PTL DEF Spec

\* The rows have their types in every reachable state.
THEOREM TypeCorrect == Spec => []TypeOK
  BY TypedLine, PTL

\* The plans of a Program form one line, whatever proposals compete.
THEOREM HistoryIsLinear == Spec => []LinearHistory
  BY TypedLine, PTL

----------------------------------------------------------------------------
(* Versions, events and receipts *)

\* The receipt behind an event is committed, at the version of the event.
LEMMA EventReceipt ==
  ASSUME TypeOK, OneCommandPerVersion, NEW f \in events
  PROVE  /\ f.version \in Nat /\ f.version <= stateVersion
         /\ f.command \in Key
         /\ receipts[f.command].status = "committed"
<1>1. f.version \in Nat /\ f.command \in Key
  BY DEF TypeOK, EventRow
<1>2. /\ f.version <= stateVersion
      /\ receipts[f.command] = [status |-> "committed", version |-> f.version]
  BY DEF OneCommandPerVersion
<1> QED BY <1>1, <1>2

\* Without receipts and events the numbering of versions holds.
LEMMA VersionsInit == Init => OneCommandPerVersion
  BY DEF Init, OneCommandPerVersion, Absent

\* A commit uses a version no receipt and no event had.
LEMMA VersionsCommit ==
  ASSUME TypeOK, OneCommandPerVersion, HasFresh(receipts), NEW type \in EventType, Commit(type)
  PROVE  OneCommandPerVersion'
<1> DEFINE v == stateVersion + 1
<1>1. PICK k \in Key :
        /\ ~Exists(receipts[k])
        /\ stateVersion' = v
        /\ receipts' = [receipts EXCEPT ![k] = [status |-> "committed", version |-> v]]
        /\ events' = events \cup {[version |-> v, type |-> type, command |-> k]}
  BY CommitWrites
<1> DEFINE e == [version |-> v, type |-> type, command |-> k]
<1>2. /\ receipts'[k] = [status |-> "committed", version |-> v]
      /\ \A j \in Key : j # k => receipts'[j] = receipts[j]
  BY <1>1 DEF TypeOK
<1>3. stateVersion \in Nat
  BY DEF TypeOK
<1>4. \A f \in events : /\ f.version \in Nat /\ f.version <= stateVersion
                        /\ f.command \in Key /\ f.command # k
  BY <1>1, EventReceipt DEF Exists
<1>5. e.version = v /\ e.command = k /\ e \in events'
  BY <1>1
<1>6. \A f \in events' : f = e \/ f \in events
  BY <1>1
<1> HIDE DEF e
<1>7. \A w \in 1..stateVersion' : \E f \in events' : f.version = w
  <2> SUFFICES ASSUME NEW w \in 1..stateVersion' PROVE \E f \in events' : f.version = w
    OBVIOUS
  <2>1. CASE w = v
    BY <2>1, <1>5
  <2>2. CASE w # v
    BY <2>2, <1>1, <1>3 DEF OneCommandPerVersion
  <2> QED BY <2>1, <2>2
<1>8. ASSUME NEW f \in events'
      PROVE  /\ f.version <= stateVersion'
             /\ receipts'[f.command] = [status |-> "committed", version |-> f.version]
             /\ \A g \in events' : g.version = f.version \/ g.command = f.command => g = f
  <2>1. CASE f = e
    BY <2>1, <1>1, <1>2, <1>3, <1>4, <1>5, <1>6
  <2>2. CASE f \in events
    <3>1. \A g \in events : g.version = f.version \/ g.command = f.command => g = f
      BY <2>2 DEF OneCommandPerVersion
    <3>2. receipts[f.command] = [status |-> "committed", version |-> f.version]
      BY <2>2 DEF OneCommandPerVersion
    <3> QED BY <2>2, <3>1, <3>2, <1>1, <1>2, <1>3, <1>4, <1>5, <1>6
  <2> QED BY <2>1, <2>2, <1>6
<1>9. ASSUME NEW j \in Key, receipts'[j].status = "committed"
      PROVE  \E f \in events' : f.command = j
  BY <1>9, <1>1, <1>2, <1>5 DEF OneCommandPerVersion
<1> QED BY <1>7, <1>8, <1>9 DEF OneCommandPerVersion

\* A rejection uses no version.
LEMMA VersionsReject ==
  ASSUME TypeOK, OneCommandPerVersion, Rejects
  PROVE  OneCommandPerVersion'
<1>1. PICK k \in Key :
        /\ ~Exists(receipts[k])
        /\ receipts' = [receipts EXCEPT ![k] = [status |-> "rejected",
                                               version |-> stateVersion]]
  BY FreshRow DEF Rejects, Reject, TypeOK
<1>2. /\ receipts'[k].status = "rejected"
      /\ \A j \in Key : j # k => receipts'[j] = receipts[j]
  BY <1>1 DEF TypeOK
<1>3. UNCHANGED <<stateVersion, events>>
  BY DEF Rejects, Reject, program
<1>4. \A f \in events : f.command \in Key /\ receipts[f.command].status = "committed"
  BY EventReceipt
<1>5. \A f \in events : receipts'[f.command] = receipts[f.command]
  BY <1>1, <1>2, <1>4 DEF Exists
<1> QED BY <1>2, <1>3, <1>5 DEF OneCommandPerVersion

\* Every step keeps the numbering of versions.
LEMMA VersionsNext == TypeOK /\ OneCommandPerVersion /\ [Next]_vars => OneCommandPerVersion'
<1> SUFFICES ASSUME TypeOK, OneCommandPerVersion, [Next]_vars
             PROVE  OneCommandPerVersion'
  OBVIOUS
<1> USE VersionsCommit DEF EventType
<1>1. CASE UNCHANGED vars \/ Tick
  BY <1>1 DEF vars, program, Tick, OneCommandPerVersion
<1>2. CASE Rejects
  BY <1>2, VersionsReject
<1>3. CASE Creates
  BY <1>3 DEF Creates, CreateProgram
<1>4. CASE Submits
  BY <1>4 DEF Submits, Submit
<1>5. CASE Decides
  BY <1>5 DEF Decides, Decide
<1>6. CASE Applies
  BY <1>6 DEF Applies, Apply
<1>7. CASE Expires
  BY <1>7 DEF Expires, Expire
<1> QED BY <1>1, <1>2, <1>3, <1>4, <1>5, <1>6, <1>7, StepCases

\* Every version of a Program was made by one command and announced by one event.
THEOREM VersionsAreAccounted == Spec => []OneCommandPerVersion
  BY VersionsInit, VersionsNext, TypeCorrect, PTL DEF Spec

----------------------------------------------------------------------------
(* The inductive invariant of the approval flow *)

\* The status of a high-risk proposal and of its approval, side by side.
InStep(proposal, approval) ==
  \/ proposal = "approval_required" /\ approval = "pending"
  \/ proposal = "approved" /\ approval = "approved"
  \/ proposal = "denied" /\ approval = "denied"
  \/ proposal = "expired" /\ approval = "expired"
  \/ proposal = "applied" /\ approval = "consumed"

IsHigh(p) == Exists(proposals[p]) /\ proposals[p].risk = "high"

\* Exactly the high-risk proposals have an approval: for the same change, and
\* their statuses move together.
ApprovalInStep(p) ==
  /\ Exists(approvals[p]) => IsHigh(p)
  /\ IsHigh(p) => /\ Exists(approvals[p])
                  /\ InStep(proposals[p].status, approvals[p].status)
                  /\ approvals[p].base = proposals[p].base
                  /\ approvals[p].diff = proposals[p].diff

StatusesAgree == \A p \in Proposal : ApprovalInStep(p)

\* A low-risk proposal is a reordering the owner's policy allows, and never
\* waits for anybody.
ProposalSound(p) ==
  Exists(proposals[p]) =>
    /\ Created
    /\ proposals[p].risk = "low" =>
         /\ proposals[p].change.kind = "reorder_tasks" /\ allowReorder
         /\ proposals[p].status \in {"pending", "applied"}

ProposalsSound == \A p \in Proposal : ProposalSound(p)

\* A decision is the owner's, for exactly the change of its proposal, and the
\* approval shows its verdict.
DecisionSound(d) ==
  Exists(decisions[d]) =>
    /\ TypeOf[decisions[d].by] = "user" /\ RoleOf(decisions[d].by) = "owner"
    /\ Exists(approvals[decisions[d].proposal])
    /\ decisions[d].decidedAt <= now
    /\ approvals[decisions[d].proposal].status \in
         (IF decisions[d].verdict = "approve" THEN {"approved", "consumed"} ELSE {"denied"})

DecisionsSound ==
  /\ \A d \in Decision : DecisionSound(d)
  /\ \A c, d \in Decision :
       Exists(decisions[c]) /\ Exists(decisions[d])
         /\ decisions[c].proposal = decisions[d].proposal => c = d

\* A plan comes from the creation or from one applied proposal to its
\* predecessor, and a high-risk one has the owner's decision behind it.
PlanSound(l) ==
  Exists(plans[l]) =>
    /\ plans[l].proposal = Nil <=> plans[l].previous = Nil
    /\ plans[l].proposal = Nil => plans[l].decision = Nil /\ plans[l].risk = "bootstrap"
    /\ plans[l].proposal # Nil =>
         /\ proposals[plans[l].proposal].status = "applied"
         /\ plans[l].risk = proposals[plans[l].proposal].risk
         /\ IF plans[l].risk = "high"
            THEN plans[l].decision \in Decision /\ StandsBehind(plans[l].decision, l)
            ELSE /\ plans[l].decision = Nil
                 /\ allowReorder
                 /\ plans[l].content.body = plans[plans[l].previous].content.body

PlansSound ==
  /\ \A l \in PlanId : PlanSound(l)
  /\ \A l, m \in PlanId :
       /\ Exists(plans[l]) /\ Exists(plans[m])
       /\ plans[l].proposal # Nil /\ plans[l].proposal = plans[m].proposal
       => l = m
  /\ \A p \in Proposal : proposals[p].status = "applied" =>
       \E l \in PlanId : Exists(plans[l]) /\ plans[l].proposal = p

IInv == /\ TypeOK /\ LinearHistory
        /\ StatusesAgree /\ ProposalsSound /\ DecisionsSound /\ PlansSound

----------------------------------------------------------------------------
(* What each command does to the rows of the flow *)

\* The rows that exist are records of their tables.
LEMMA RowTypes ==
  ASSUME TypeOK
  PROVE  /\ \A l \in PlanId : Exists(plans[l]) => plans[l] \in PlanRow
         /\ \A p \in Proposal : Exists(proposals[p]) => proposals[p] \in ProposalRow
         /\ \A p \in Proposal : Exists(approvals[p]) => approvals[p] \in ApprovalRow
         /\ \A d \in Decision : Exists(decisions[d]) => decisions[d] \in DecisionRow
  BY DEF TypeOK, Exists, Absent

\* Only the rows of p changed.
OnlyRowsOf(p) ==
  \A q \in Proposal : q # p => proposals'[q] = proposals[q] /\ approvals'[q] = approvals[q]

Submitted(base, change, p) ==
  /\ OnlyRowsOf(p)
  /\ ~Exists(proposals[p])
  /\ proposals'[p] = [status |-> IF IsLow(change) THEN "pending" ELSE "approval_required",
                      base |-> base, change |-> change,
                      risk |-> IF IsLow(change) THEN "low" ELSE "high",
                      diff |-> Diff(base, change)]
  /\ approvals'[p] = IF IsLow(change) THEN approvals[p]
                     ELSE [status |-> "pending", base |-> base, diff |-> Diff(base, change),
                           expires |-> now + ApprovalTTL]

\* What a submission does to the rows of its proposal.
LEMMA SubmitRows ==
  ASSUME IInv, NEW base \in PlanId, NEW change \in Change, Submit(base, change)
  PROVE  \E p \in Proposal : Submitted(base, change, p)
<1>1. Fresh(proposals) \in Proposal /\ ~Exists(proposals[Fresh(proposals)])
  BY FreshRow DEF Submit, IInv, TypeOK
<1> QED BY <1>1 DEF Submit, Submitted, OnlyRowsOf, IInv, TypeOK

\* A proposal is only accepted for a Program that was created.
LEMMA SubmitCreated ==
  ASSUME IInv, NEW expected, NEW base \in PlanId, NEW change,
         SubmitAllowed(expected, base, change)
  PROVE  Created
  BY IdAssumption DEF SubmitAllowed, IInv, LinearHistory

Decided(p, verdict) ==
  /\ OnlyRowsOf(p)
  /\ approvals[p].status = "pending" /\ proposals[p].status = "approval_required"
  /\ IsHigh(p) /\ approvals[p] \in ApprovalRow /\ proposals[p] \in ProposalRow
  /\ LET outcome == IF verdict = "approve" THEN "approved" ELSE "denied"
     IN /\ approvals'[p] = [approvals[p] EXCEPT !.status = outcome]
        /\ proposals'[p] = [proposals[p] EXCEPT !.status = outcome]

\* What a decision does to the rows of its proposal.
LEMMA DecideRows ==
  ASSUME IInv, NEW who, NEW expected, NEW p \in Proposal,
         NEW verdict \in {"approve", "deny"},
         DecideAllowed(expected, p), Decide(who, p, verdict)
  PROVE  Decided(p, verdict)
<1>1. approvals[p].status = "pending" /\ proposals[p].status = "approval_required"
  BY DEF DecideAllowed
<1>2. IsHigh(p) /\ approvals[p] \in ApprovalRow /\ proposals[p] \in ProposalRow
  BY <1>1, RowTypes DEF IInv, StatusesAgree, ApprovalInStep, IsHigh, Exists
<1> QED BY <1>1, <1>2 DEF Decide, Decided, OnlyRowsOf, IInv, TypeOK

\* The decision that deciding p with this verdict records.
RecordedDecision(who, p, verdict) ==
  [status |-> "present", proposal |-> p, base |-> approvals[p].base,
   diff |-> approvals[p].diff, verdict |-> verdict, by |-> who,
   decidedAt |-> now, expires |-> approvals[p].expires]

\* A decision adds one row and changes no other.
LEMMA DecideAddsDecision ==
  ASSUME TypeOK, NEW who, NEW p, NEW verdict, Decide(who, p, verdict)
  PROVE  \E d \in Decision :
           /\ ~Exists(decisions[d])
           /\ decisions'[d] = RecordedDecision(who, p, verdict)
           /\ \A c \in Decision : c # d => decisions'[c] = decisions[c]
<1>1. Fresh(decisions) \in Decision /\ ~Exists(decisions[Fresh(decisions)])
  BY FreshRow DEF Decide, TypeOK
<1> QED BY <1>1 DEF Decide, RecordedDecision, TypeOK

Applied(base, p, d) ==
  /\ OnlyRowsOf(p)
  /\ Exists(proposals[p]) /\ proposals[p].status # "applied" /\ proposals[p] \in ProposalRow
  /\ proposals[p].status \in {"approved", "pending"}
  /\ proposals[p].base = base /\ proposals[p].diff = Diff(base, proposals[p].change)
  /\ proposals'[p] = [proposals[p] EXCEPT !.status = "applied"]
  /\ IF IsHigh(p)
     THEN /\ d \in Decision /\ DecisionAuthorises(d, p)
          /\ approvals[p] \in ApprovalRow /\ approvals[p].status = "approved"
          /\ approvals'[p] = [approvals[p] EXCEPT !.status = "consumed"]
     ELSE /\ d = Nil /\ allowReorder /\ proposals[p].risk = "low"
          /\ approvals'[p] = approvals[p]

\* What an application does to the rows of its proposal.
LEMMA ApplyRows ==
  ASSUME IInv, NEW expected, NEW base \in PlanId, NEW p \in Proposal,
         NEW d \in Decision \cup {Nil},
         ApplyAllowed(expected, base, p, d), Apply(base, p, d)
  PROVE  Applied(base, p, d)
<1>1. Exists(proposals[p]) /\ proposals[p] \in ProposalRow
  BY RowTypes DEF ApplyAllowed, IInv
<1>2. /\ proposals[p].status # "applied" /\ proposals[p].base = base
      /\ proposals[p].diff = Diff(base, proposals[p].change)
      /\ proposals[p].status \in {"approved", "pending"}
  BY DEF ApplyAllowed, Apply, ApplyExpectedStatus
<1>3. /\ proposals'[p] = [proposals[p] EXCEPT !.status = "applied"]
      /\ \A q \in Proposal : q # p => proposals'[q] = proposals[q]
  BY DEF Apply, IInv, TypeOK
<1>4. CASE IsHigh(p)
  <2>1. DecisionAuthorises(d, p)
    BY <1>4 DEF ApplyAllowed, IsHigh
  <2>2. d \in Decision /\ d # Nil /\ decisions[d].proposal = p /\ approvals[p].status = "approved"
    BY <2>1 DEF DecisionAuthorises
  <2>3. approvals[p] \in ApprovalRow
    BY <2>2, RowTypes DEF IInv, Exists
  <2>4. /\ approvals'[p] = [approvals[p] EXCEPT !.status = "consumed"]
        /\ \A q \in Proposal : q # p => approvals'[q] = approvals[q]
    BY <2>2 DEF Apply, IInv, TypeOK
  <2> QED BY <1>1, <1>2, <1>3, <1>4, <2>1, <2>2, <2>3, <2>4 DEF Applied, OnlyRowsOf
<1>5. CASE ~IsHigh(p)
  <2>1. proposals[p].risk = "low"
    BY <1>1, <1>5 DEF IsHigh, ProposalRow
  <2>2. d = Nil /\ allowReorder
    BY <2>1 DEF ApplyAllowed
  <2>3. approvals' = approvals
    BY <2>2 DEF Apply
  <2> QED BY <1>1, <1>2, <1>3, <1>5, <2>1, <2>2, <2>3 DEF Applied, OnlyRowsOf
<1> QED BY <1>4, <1>5

Expired(p) ==
  /\ OnlyRowsOf(p)
  /\ approvals[p].status = "pending" /\ proposals[p].status = "approval_required"
  /\ IsHigh(p) /\ approvals[p] \in ApprovalRow /\ proposals[p] \in ProposalRow
  /\ approvals'[p] = [approvals[p] EXCEPT !.status = "expired"]
  /\ proposals'[p] = [proposals[p] EXCEPT !.status = "expired"]

\* What an expiry does to the rows of its proposal.
LEMMA ExpireRows ==
  ASSUME IInv, NEW expected, NEW p \in Proposal, ExpireAllowed(expected, p), Expire(p)
  PROVE  Expired(p)
<1>1. approvals[p].status = "pending" /\ proposals[p].status = "approval_required"
  BY DEF ExpireAllowed, Expire
<1>2. IsHigh(p) /\ approvals[p] \in ApprovalRow /\ proposals[p] \in ProposalRow
  BY <1>1, RowTypes DEF IInv, StatusesAgree, ApprovalInStep, IsHigh, Exists
<1> QED BY <1>1, <1>2 DEF Expire, Expired, OnlyRowsOf, IInv, TypeOK

----------------------------------------------------------------------------
(* StatusesAgree and ProposalsSound are preserved *)

\* Every step keeps the statuses of a proposal and of its approval in agreement.
LEMMA StatusesNext == IInv /\ [Next]_vars => StatusesAgree'
<1> SUFFICES ASSUME IInv, [Next]_vars PROVE StatusesAgree'
  OBVIOUS
<1>0. \A p \in Proposal : ApprovalInStep(p)
  BY DEF IInv, StatusesAgree
<1>a. ASSUME NEW p \in Proposal, OnlyRowsOf(p), ApprovalInStep(p)' PROVE StatusesAgree'
  BY <1>0, <1>a DEF StatusesAgree, ApprovalInStep, IsHigh, OnlyRowsOf
<1>1. CASE UNCHANGED vars \/ Tick \/ Rejects \/ Creates
  BY <1>0, <1>1
     DEF vars, program, Tick, Rejects, Reject, Creates, CreateProgram, StatusesAgree,
         ApprovalInStep, IsHigh
<1>2. CASE Submits
  <2>1. PICK base \in PlanId, change \in Change, p \in Proposal : Submitted(base, change, p)
    BY <1>2, SubmitRows DEF Submits
  <2>2. ~Exists(approvals[p])
    BY <2>1, <1>0 DEF Submitted, ApprovalInStep, IsHigh
  <2>3. ApprovalInStep(p)'
    BY <2>1, <2>2 DEF Submitted, ApprovalInStep, IsHigh, InStep, Exists
  <2> QED BY <2>1, <2>3, <1>a DEF Submitted
<1>3. CASE Decides
  <2>1. PICK p \in Proposal : \E verdict : Decided(p, verdict)
    BY <1>3, DecideRows DEF Decides
  <2>2. ApprovalInStep(p)'
    BY <2>1, <1>0
       DEF Decided, ApprovalInStep, IsHigh, InStep, Exists, ApprovalRow, ProposalRow
  <2> QED BY <2>1, <2>2, <1>a DEF Decided
<1>4. CASE Applies
  <2>1. PICK base \in PlanId, p \in Proposal, d \in Decision \cup {Nil} : Applied(base, p, d)
    BY <1>4, ApplyRows DEF Applies
  <2>2. ApprovalInStep(p)'
    BY <2>1, <1>0
       DEF Applied, ApprovalInStep, IsHigh, InStep, Exists, ApprovalRow, ProposalRow
  <2> QED BY <2>1, <2>2, <1>a DEF Applied
<1>5. CASE Expires
  <2>1. PICK p \in Proposal : Expired(p)
    BY <1>5, ExpireRows DEF Expires
  <2>2. ApprovalInStep(p)'
    BY <2>1, <1>0
       DEF Expired, ApprovalInStep, IsHigh, InStep, Exists, ApprovalRow, ProposalRow
  <2> QED BY <2>1, <2>2, <1>a DEF Expired
<1> QED BY <1>1, <1>2, <1>3, <1>4, <1>5, StepCases

\* Every step keeps the proposals sound.
LEMMA ProposalsNext == IInv /\ [Next]_vars => ProposalsSound'
<1> SUFFICES ASSUME IInv, [Next]_vars PROVE ProposalsSound'
  OBVIOUS
<1>0. \A p \in Proposal : ProposalSound(p)
  BY DEF IInv, ProposalsSound
<1>a. ASSUME UNCHANGED <<owner, allowReorder>>, NEW p \in Proposal, OnlyRowsOf(p),
             ProposalSound(p)'
      PROVE  ProposalsSound'
  BY <1>0, <1>a DEF ProposalsSound, ProposalSound, Created, OnlyRowsOf
<1>1. CASE UNCHANGED vars \/ Tick \/ Rejects
  BY <1>0, <1>1
     DEF vars, program, Tick, Rejects, Reject, ProposalsSound, ProposalSound, Created
<1>2. CASE Creates
  <2>1. ~Created /\ proposals' = proposals
    BY <1>2 DEF Creates, CreateProgram
  <2> QED BY <2>1, <1>0 DEF ProposalsSound, ProposalSound
<1>3. CASE Submits
  <2>1. PICK expected \in Versions, base \in PlanId, change \in Change :
          SubmitAllowed(expected, base, change) /\ Submit(base, change)
    BY <1>3 DEF Submits
  <2>2. PICK p \in Proposal : Submitted(base, change, p)
    BY <2>1, SubmitRows
  <2>3. UNCHANGED <<owner, allowReorder>>
    BY <2>1 DEF Submit
  <2>4. Created'
    BY <2>1, <2>3, SubmitCreated DEF Created
  <2>5. proposals'[p].risk = "low" => IsLow(change)
    BY <2>2 DEF Submitted
  <2>6. ProposalSound(p)'
    BY <2>2, <2>3, <2>4, <2>5 DEF Submitted, ProposalSound, IsLow
  <2> QED BY <2>2, <2>3, <2>6, <1>a DEF Submitted
<1>4. CASE Decides
  <2>1. PICK p \in Proposal : \E verdict : Decided(p, verdict)
    BY <1>4, DecideRows DEF Decides
  <2>2. UNCHANGED <<owner, allowReorder>>
    BY <1>4 DEF Decides, Decide
  <2>3. ProposalSound(p)'
    BY <2>1, <2>2, <1>0 DEF Decided, ProposalSound, IsHigh, Exists, ProposalRow, Created
  <2> QED BY <2>1, <2>2, <2>3, <1>a DEF Decided
<1>5. CASE Applies
  <2>1. PICK base \in PlanId, p \in Proposal, d \in Decision \cup {Nil} : Applied(base, p, d)
    BY <1>5, ApplyRows DEF Applies
  <2>2. UNCHANGED <<owner, allowReorder>>
    BY <1>5 DEF Applies, Apply
  <2>3. ProposalSound(p)'
    BY <2>1, <2>2, <1>0 DEF Applied, ProposalSound, ProposalRow, Created
  <2> QED BY <2>1, <2>2, <2>3, <1>a DEF Applied
<1>6. CASE Expires
  <2>1. PICK p \in Proposal : Expired(p)
    BY <1>6, ExpireRows DEF Expires
  <2>2. UNCHANGED <<owner, allowReorder>>
    BY <1>6 DEF Expires, Expire
  <2>3. ProposalSound(p)'
    BY <2>1, <2>2, <1>0 DEF Expired, ProposalSound, IsHigh, Exists, ProposalRow, Created
  <2> QED BY <2>1, <2>2, <2>3, <1>a DEF Expired
<1> QED BY <1>1, <1>2, <1>3, <1>4, <1>5, <1>6, StepCases

----------------------------------------------------------------------------
(* DecisionsSound is preserved *)

Shows(approval, verdict) ==
  approval \in (IF verdict = "approve" THEN {"approved", "consumed"} ELSE {"denied"})

\* What the invariant says of one decision.
LEMMA DecisionFacts ==
  ASSUME IInv, NEW d \in Decision, Exists(decisions[d])
  PROVE  /\ decisions[d].proposal \in Proposal /\ decisions[d] \in DecisionRow
         /\ TypeOf[decisions[d].by] = "user" /\ RoleOf(decisions[d].by) = "owner"
         /\ Exists(approvals[decisions[d].proposal])
         /\ decisions[d].decidedAt <= now
         /\ Shows(approvals[decisions[d].proposal].status, decisions[d].verdict)
         /\ Created
<1>1. decisions[d].proposal \in Proposal /\ decisions[d] \in DecisionRow
  BY RowTypes DEF IInv, DecisionRow
<1>2. DecisionSound(d)
  BY DEF IInv, DecisionsSound
<1>3. Created
  BY <1>1, <1>2 DEF IInv, DecisionSound, StatusesAgree, ApprovalInStep, IsHigh,
                    ProposalsSound, ProposalSound
<1> QED BY <1>1, <1>2, <1>3 DEF DecisionSound, Shows

\* Row p may change while no decision is about it, or from approved to consumed.
LEMMA DecisionsKept ==
  ASSUME IInv, UNCHANGED <<owner, decisions, now>>, NEW p \in Proposal, OnlyRowsOf(p),
         \A d \in Decision : Exists(decisions[d]) /\ decisions[d].proposal = p =>
           /\ Exists(approvals'[p])
           /\ Shows(approvals'[p].status, decisions[d].verdict)
  PROVE  DecisionsSound'
<1>1. ASSUME NEW d \in Decision PROVE DecisionSound(d)'
  <2> SUFFICES ASSUME Exists(decisions[d]) PROVE DecisionSound(d)'
    BY DEF DecisionSound
  <2>1. CASE decisions[d].proposal = p
    BY <2>1, DecisionFacts DEF DecisionSound, RoleOf, Shows
  <2>2. CASE decisions[d].proposal # p
    BY <2>2, DecisionFacts DEF DecisionSound, RoleOf, Shows, OnlyRowsOf
  <2> QED BY <2>1, <2>2
<1> QED BY <1>1 DEF IInv, DecisionsSound

\* The new decision is sound and the old ones stay so.
LEMMA DecideKeepsDecisions ==
  ASSUME IInv, NEW who \in Issuers("human_decision.record"), NEW expected,
         NEW p \in Proposal, NEW verdict \in {"approve", "deny"},
         DecideAllowed(expected, p), Decide(who, p, verdict)
  PROVE  DecisionsSound'
<1>1. PICK d \in Decision :
        /\ ~Exists(decisions[d])
        /\ decisions'[d] = RecordedDecision(who, p, verdict)
        /\ \A c \in Decision : c # d => decisions'[c] = decisions[c]
  BY DecideAddsDecision DEF IInv
<1>2. Decided(p, verdict)
  BY DecideRows
<1>3. UNCHANGED <<owner, now>> /\ now \in Nat
  BY DEF Decide, IInv, TypeOK
<1>4. /\ decisions'[d].by = who /\ decisions'[d].proposal = p
      /\ decisions'[d].verdict = verdict /\ decisions'[d].decidedAt = now
  BY <1>1 DEF RecordedDecision
<1>5. /\ Exists(approvals'[p])
      /\ Shows(approvals'[p].status, verdict)
  BY <1>2 DEF Decided, Exists, Shows, ApprovalRow
<1>6. TypeOf[who] = "user" /\ RoleOf(who) = "owner" /\ (RoleOf(who) = "owner")'
  BY <1>3 DEF Issuers, Entrypoint, RoleOf
<1>7. \A c \in Decision : Exists(decisions[c]) => decisions[c].proposal # p
  BY <1>2, DecisionFacts DEF Decided, Shows
<1>8. ASSUME NEW c \in Decision PROVE DecisionSound(c)'
  <2>1. CASE c = d
    BY <2>1, <1>3, <1>4, <1>5, <1>6 DEF DecisionSound, Shows
  <2>2. CASE c # d
    <3> SUFFICES ASSUME Exists(decisions[c]) PROVE DecisionSound(c)'
      BY <1>1, <2>2 DEF DecisionSound
    <3>1. /\ decisions'[c] = decisions[c]
          /\ approvals'[decisions[c].proposal] = approvals[decisions[c].proposal]
      BY <1>1, <1>2, <1>7, <2>2, DecisionFacts DEF Decided, OnlyRowsOf
    <3> QED BY <3>1, <1>3, DecisionFacts DEF DecisionSound, RoleOf, Shows
  <2> QED BY <2>1, <2>2
<1>9. ASSUME NEW b \in Decision, NEW c \in Decision, Exists(decisions'[b]),
             Exists(decisions'[c]), decisions'[b].proposal = decisions'[c].proposal
      PROVE  b = c
  <2>1. CASE b = d \/ c = d
    BY <2>1, <1>1, <1>4, <1>7, <1>9
  <2>2. CASE b # d /\ c # d
    BY <2>2, <1>1, <1>9 DEF IInv, DecisionsSound
  <2> QED BY <2>1, <2>2
<1> QED BY <1>8, <1>9 DEF DecisionsSound

\* Every step keeps the decisions sound.
LEMMA DecisionsNext == IInv /\ [Next]_vars => DecisionsSound'
<1> SUFFICES ASSUME IInv, [Next]_vars PROVE DecisionsSound'
  OBVIOUS
<1>0. DecisionsSound /\ now \in Nat
  BY DEF IInv, TypeOK
<1>1. CASE UNCHANGED vars \/ Rejects \/ Tick
  <2>1. UNCHANGED <<owner, approvals, decisions>> /\ now' \in Nat /\ now <= now'
    BY <1>0, <1>1 DEF vars, program, Rejects, Reject, Tick
  <2>2. ASSUME NEW d \in Decision, Exists(decisions[d])
        PROVE  decisions[d].decidedAt \in Nat /\ decisions[d].decidedAt <= now'
    BY <2>1, <2>2, <1>0, DecisionFacts DEF DecisionRow
  <2> QED BY <2>1, <2>2, <1>0 DEF DecisionsSound, DecisionSound, RoleOf
<1>2. CASE Creates
  <2>1. ~Created /\ decisions' = decisions
    BY <1>2 DEF Creates, CreateProgram
  <2>2. \A d \in Decision : ~Exists(decisions[d])
    BY <2>1, DecisionFacts
  <2> QED BY <2>1, <2>2 DEF DecisionsSound, DecisionSound
<1>3. CASE Submits
  <2>1. PICK base \in PlanId, change \in Change, p \in Proposal : Submitted(base, change, p)
    BY <1>3, SubmitRows DEF Submits
  <2>2. ~Exists(approvals[p])
    BY <2>1 DEF IInv, Submitted, StatusesAgree, ApprovalInStep, IsHigh
  <2>3. \A d \in Decision : Exists(decisions[d]) => decisions[d].proposal # p
    BY <2>2, DecisionFacts
  <2>4. UNCHANGED <<owner, decisions, now>> /\ OnlyRowsOf(p)
    BY <1>3, <2>1 DEF Submits, Submit, Submitted
  <2> QED BY <2>3, <2>4, DecisionsKept
<1>4. CASE Decides
  BY <1>4, DecideKeepsDecisions DEF Decides
<1>5. CASE Applies
  <2>1. PICK base \in PlanId, p \in Proposal, e \in Decision \cup {Nil} : Applied(base, p, e)
    BY <1>5, ApplyRows DEF Applies
  <2>2. UNCHANGED <<owner, decisions, now>> /\ OnlyRowsOf(p)
    BY <1>5, <2>1 DEF Applies, Apply, Applied
  <2>3. ASSUME NEW d \in Decision, Exists(decisions[d]), decisions[d].proposal = p
        PROVE  Exists(approvals'[p]) /\ Shows(approvals'[p].status, decisions[d].verdict)
    <3>1. Exists(approvals[p]) /\ Shows(approvals[p].status, decisions[d].verdict)
      BY <2>3, DecisionFacts
    <3> QED BY <3>1, <2>1 DEF Applied, Exists, Shows, ApprovalRow
  <2> QED BY <2>2, <2>3, DecisionsKept
<1>6. CASE Expires
  <2>1. PICK p \in Proposal : Expired(p)
    BY <1>6, ExpireRows DEF Expires
  <2>2. UNCHANGED <<owner, decisions, now>> /\ OnlyRowsOf(p)
    BY <1>6, <2>1 DEF Expires, Expire, Expired
  <2>3. \A d \in Decision : Exists(decisions[d]) => decisions[d].proposal # p
    BY <2>1, DecisionFacts DEF Expired, Shows
  <2> QED BY <2>2, <2>3, DecisionsKept
<1> QED BY <1>1, <1>2, <1>3, <1>4, <1>5, <1>6, StepCases

----------------------------------------------------------------------------
(* PlansSound is preserved *)

\* What the invariant says of one plan.
LEMMA PlanFacts ==
  ASSUME IInv, NEW l \in PlanId, Exists(plans[l])
  PROVE  /\ plans[l] \in PlanRow /\ PlanSound(l)
         /\ plans[l].proposal # Nil =>
              /\ plans[l].proposal \in Proposal
              /\ Exists(proposals[plans[l].proposal])
              /\ plans[l].previous \in PlanId /\ Exists(plans[plans[l].previous])
<1>1. plans[l] \in PlanRow /\ PlanSound(l)
  BY RowTypes DEF IInv, PlansSound
<1>2. plans[l].previous # Nil => Exists(plans[plans[l].previous])
  BY DEF IInv, LinearHistory
<1> QED BY <1>1, <1>2 DEF PlanRow, PlanSound, Exists

\* A plan stays sound while its rows, its proposal and its decision stay.
LEMMA PlanKept ==
  ASSUME IInv, UNCHANGED <<owner, allowReorder>>, NEW l \in PlanId, Exists(plans[l]),
         \A m \in PlanId : Exists(plans[m]) => plans'[m] = plans[m],
         \A d \in Decision : Exists(decisions[d]) => decisions'[d] = decisions[d],
         NEW p \in Proposal, OnlyRowsOf(p), plans[l].proposal # p
  PROVE  PlanSound(l)'
<1>1. plans'[l] = plans[l]
  OBVIOUS
<1>2. CASE plans[l].proposal = Nil
  BY <1>1, <1>2, PlanFacts DEF PlanSound
<1>3. CASE plans[l].proposal # Nil
  <2>1. /\ proposals'[plans[l].proposal] = proposals[plans[l].proposal]
        /\ plans'[plans[l].previous] = plans[plans[l].previous]
    BY <1>3, PlanFacts DEF OnlyRowsOf
  <2>2. \A d \in Decision : StandsBehind(d, l) => StandsBehind(d, l)'
    BY <1>1, <2>1 DEF StandsBehind, RoleOf
  <2> QED BY <1>1, <1>3, <2>1, <2>2, PlanFacts DEF PlanSound
<1> QED BY <1>2, <1>3

\* Plans stay sound if only the rows of one proposal change and it is not applied.
LEMMA PlansKept ==
  ASSUME IInv, UNCHANGED <<owner, allowReorder, plans>>,
         \A d \in Decision : Exists(decisions[d]) => decisions'[d] = decisions[d],
         NEW p \in Proposal, OnlyRowsOf(p),
         proposals[p].status # "applied", proposals'[p].status # "applied"
  PROVE  PlansSound'
<1>1. ASSUME NEW l \in PlanId PROVE PlanSound(l)'
  <2>1. CASE ~Exists(plans[l])
    BY <2>1 DEF PlanSound
  <2>2. CASE Exists(plans[l])
    <3>1. plans[l].proposal # p
      BY <2>2, IdAssumption, PlanFacts DEF PlanSound
    <3> QED BY <2>2, <3>1, PlanKept
  <2> QED BY <2>1, <2>2
<1>2. \A q \in Proposal : proposals'[q].status = "applied" => proposals[q].status = "applied"
  BY DEF OnlyRowsOf
<1> QED BY <1>1, <1>2 DEF IInv, PlansSound

\* The first plan is sound.
LEMMA CreateKeepsPlans ==
  ASSUME IInv, NEW who, NEW policy, NEW content, CreateProgram(who, policy, content)
  PROVE  PlansSound'
<1>1. Fresh(plans) \in PlanId
  BY FreshRow DEF CreateProgram, IInv, TypeOK
<1>2. \A m \in PlanId : ~Exists(plans[m])
  BY DEF IInv, LinearHistory, CreateProgram
<1>3. /\ plans'[Fresh(plans)].previous = Nil /\ plans'[Fresh(plans)].proposal = Nil
      /\ plans'[Fresh(plans)].decision = Nil /\ plans'[Fresh(plans)].risk = "bootstrap"
      /\ \A m \in PlanId : m # Fresh(plans) => plans'[m] = plans[m]
  BY <1>1 DEF CreateProgram, IInv, TypeOK
<1>4. \A p \in Proposal : proposals'[p].status # "applied"
  BY DEF IInv, ProposalsSound, ProposalSound, CreateProgram, Exists
<1> QED BY <1>2, <1>3, <1>4 DEF PlansSound, PlanSound

\* An authorised decision stands behind the plan it creates.
LEMMA AppliedHigh ==
  ASSUME IInv, NEW expected, NEW base \in PlanId, NEW p \in Proposal,
         NEW d \in Decision, DecisionAuthorises(d, p), IsHigh(p),
         proposals[p].diff = Diff(base, proposals[p].change),
         NEW l \in PlanId, plans'[l] = AppliedPlan(base, p, d),
         plans'[base] = plans[base], UNCHANGED <<owner, decisions, now>>
  PROVE  StandsBehind(d, l)'
<1>1. Exists(decisions[d])
  BY DEF DecisionAuthorises
<1>2. /\ decisions[d].verdict = "approve" /\ decisions[d].proposal = p
      /\ decisions[d].diff = Diff(base, proposals[p].change)
      /\ now < decisions[d].expires
  BY DEF DecisionAuthorises
<1>3. /\ TypeOf[decisions[d].by] = "user" /\ RoleOf(decisions[d].by) = "owner"
      /\ decisions[d].decidedAt <= now
  BY <1>1, DecisionFacts
<1>4. /\ plans'[l].previous = base /\ plans'[l].proposal = p
      /\ plans'[l].createdAt = now
      /\ plans'[l].content = ApplyChange(plans[base].content, proposals[p].change)
  BY DEF AppliedPlan
<1>5. /\ decisions[d].diff.base = base
      /\ decisions[d].diff.before = plans[base].content
      /\ decisions[d].diff.after = ApplyChange(plans[base].content, proposals[p].change)
  BY <1>2 DEF Diff
<1> QED BY <1>1, <1>2, <1>3, <1>4, <1>5 DEF StandsBehind, RoleOf

\* The plan an application adds is sound, and the others stay so.
LEMMA ApplyKeepsPlans ==
  ASSUME IInv, NEW expected, NEW base \in PlanId, NEW p \in Proposal,
         NEW d \in Decision \cup {Nil},
         ApplyAllowed(expected, base, p, d), Apply(base, p, d)
  PROVE  PlansSound'
<1>0. Applied(base, p, d)
  BY ApplyRows
<1>1. PICK l \in PlanId :
        /\ ~Exists(plans[l]) /\ plans'[l] = AppliedPlan(base, p, d)
        /\ \A m \in PlanId : m # l => plans'[m] = plans[m]
  BY ApplyAddsPlan, ActiveExistsFollows DEF IInv
<1>2. Exists(plans[base]) /\ plans[base] \in PlanRow /\ base # l
  BY <1>1, ApplyAddsPlan, ActiveExistsFollows DEF IInv
<1>3. UNCHANGED <<owner, allowReorder, decisions, now>>
  BY DEF Apply
<1>4. /\ proposals'[p].status = "applied" /\ proposals'[p].risk = proposals[p].risk
      /\ OnlyRowsOf(p)
  BY <1>0 DEF Applied, ProposalRow
<1>5. \A m \in PlanId : Exists(plans[m]) => plans[m].proposal # p /\ m # l
  BY <1>0, <1>1, IdAssumption, PlanFacts DEF PlanSound, Applied
<1>6. /\ Exists(plans'[l]) /\ plans'[l].proposal = p /\ plans'[l].previous = base
      /\ plans'[l].decision = d /\ plans'[l].risk = proposals[p].risk
      /\ plans'[l].content = ApplyChange(plans[base].content, proposals[p].change)
      /\ p # Nil /\ base # Nil
  BY <1>1, IdAssumption DEF AppliedPlan, Exists
<1>7. PlanSound(l)'
  <2>1. CASE IsHigh(p)
    <3>1. proposals[p].risk = "high" /\ d \in Decision /\ DecisionAuthorises(d, p)
      BY <1>0, <2>1 DEF Applied, IsHigh
    <3>2. StandsBehind(d, l)'
      BY <1>0, <1>1, <1>2, <1>3, <2>1, <3>1, AppliedHigh DEF Applied
    <3> QED BY <1>4, <1>6, <3>1, <3>2 DEF PlanSound
  <2>2. CASE ~IsHigh(p)
    <3>1. d = Nil /\ allowReorder /\ proposals[p].risk = "low" /\ Exists(proposals[p])
      BY <1>0, <2>2 DEF Applied
    <3>2. proposals[p].change.kind = "reorder_tasks"
      BY <3>1 DEF IInv, ProposalsSound, ProposalSound
    <3>3. ApplyChange(plans[base].content, proposals[p].change)
            = [plans[base].content EXCEPT !.order = proposals[p].change.to]
      BY <3>2 DEF ApplyChange
    <3>4. plans[base].content \in Content
      BY <1>2 DEF PlanRow
    <3>5. plans'[l].content.body = plans[base].content.body
      BY <1>6, <3>3, <3>4 DEF Content
    <3>6. plans'[base] = plans[base]
      BY <1>1, <1>2
    <3> QED BY <1>3, <1>4, <1>6, <3>1, <3>5, <3>6 DEF PlanSound
  <2> QED BY <2>1, <2>2
<1>8. ASSUME NEW m \in PlanId PROVE PlanSound(m)'
  <2>1. CASE m = l
    BY <2>1, <1>7
  <2>2. CASE m # l /\ Exists(plans[m])
    <3>1. \A n \in PlanId : Exists(plans[n]) => plans'[n] = plans[n]
      BY <1>1, <1>5
    <3> QED BY <2>2, <3>1, <1>3, <1>4, <1>5, PlanKept
  <2>3. CASE m # l /\ ~Exists(plans[m])
    BY <2>3, <1>1 DEF PlanSound
  <2> QED BY <2>1, <2>2, <2>3
<1>9. ASSUME NEW m \in PlanId, NEW n \in PlanId, Exists(plans'[m]), Exists(plans'[n]),
             plans'[m].proposal # Nil, plans'[m].proposal = plans'[n].proposal
      PROVE  m = n
  <2>1. CASE m = l \/ n = l
    BY <2>1, <1>1, <1>5, <1>6, <1>9
  <2>2. CASE m # l /\ n # l
    BY <2>2, <1>1, <1>9 DEF IInv, PlansSound
  <2> QED BY <2>1, <2>2
<1>10. ASSUME NEW q \in Proposal, proposals'[q].status = "applied"
       PROVE  \E m \in PlanId : Exists(plans'[m]) /\ plans'[m].proposal = q
  <2>1. CASE q = p
    BY <2>1, <1>6
  <2>2. CASE q # p
    <3>1. PICK m \in PlanId : Exists(plans[m]) /\ plans[m].proposal = q
      BY <2>2, <1>4, <1>10 DEF IInv, PlansSound, OnlyRowsOf
    <3> QED BY <3>1, <1>1, <1>5
  <2> QED BY <2>1, <2>2
<1> QED BY <1>8, <1>9, <1>10 DEF PlansSound

\* Every step keeps the plans sound.
LEMMA PlansNext == IInv /\ [Next]_vars => PlansSound'
<1> SUFFICES ASSUME IInv, [Next]_vars PROVE PlansSound'
  OBVIOUS
<1>1. CASE UNCHANGED vars \/ Tick \/ Rejects
  BY <1>1 DEF vars, program, Tick, Rejects, Reject, IInv, PlansSound, PlanSound,
              StandsBehind, RoleOf
<1>2. CASE Creates
  BY <1>2, CreateKeepsPlans DEF Creates
<1>3. CASE Submits
  <2>1. PICK base \in PlanId, change \in Change, p \in Proposal : Submitted(base, change, p)
    BY <1>3, SubmitRows DEF Submits
  <2>2. UNCHANGED <<owner, allowReorder, plans, decisions>> /\ OnlyRowsOf(p)
    BY <1>3, <2>1 DEF Submits, Submit, Submitted
  <2>3. proposals[p].status # "applied" /\ proposals'[p].status # "applied"
    BY <2>1 DEF Submitted, Exists
  <2> QED BY <2>2, <2>3, PlansKept
<1>4. CASE Decides
  <2>1. PICK p \in Proposal : \E verdict : Decided(p, verdict)
    BY <1>4, DecideRows DEF Decides
  <2>2. UNCHANGED <<owner, allowReorder, plans>> /\ OnlyRowsOf(p)
    BY <1>4, <2>1 DEF Decides, Decide, Decided
  <2>3. proposals[p].status # "applied" /\ proposals'[p].status # "applied"
    BY <2>1 DEF Decided, ProposalRow
  <2>4. \A d \in Decision : Exists(decisions[d]) => decisions'[d] = decisions[d]
    BY <1>4, DecideAddsDecision DEF Decides, IInv
  <2> QED BY <2>2, <2>3, <2>4, PlansKept
<1>5. CASE Applies
  BY <1>5, ApplyKeepsPlans DEF Applies
<1>6. CASE Expires
  <2>1. PICK p \in Proposal : Expired(p)
    BY <1>6, ExpireRows DEF Expires
  <2>2. UNCHANGED <<owner, allowReorder, plans, decisions>> /\ OnlyRowsOf(p)
    BY <1>6, <2>1 DEF Expires, Expire, Expired
  <2>3. proposals[p].status # "applied" /\ proposals'[p].status # "applied"
    BY <2>1 DEF Expired, ProposalRow
  <2> QED BY <2>2, <2>3, PlansKept
<1> QED BY <1>1, <1>2, <1>3, <1>4, <1>5, <1>6, StepCases

----------------------------------------------------------------------------
(* The invariant and what follows from it *)

\* The inductive invariant holds initially.
LEMMA IInvInit == Init => IInv
<1> SUFFICES ASSUME Init PROVE IInv
  OBVIOUS
<1>1. /\ \A p \in Proposal : ~Exists(proposals[p]) /\ ~Exists(approvals[p])
      /\ \A d \in Decision : ~Exists(decisions[d])
      /\ \A l \in PlanId : ~Exists(plans[l])
  BY DEF Init, Exists, Absent
<1>2. StatusesAgree /\ ProposalsSound
  BY <1>1 DEF StatusesAgree, ApprovalInStep, IsHigh, ProposalsSound, ProposalSound
<1>3. DecisionsSound
  BY <1>1 DEF DecisionsSound, DecisionSound
<1>4. PlansSound
  BY <1>1 DEF PlansSound, PlanSound, Exists, Init, Absent
<1> QED BY <1>2, <1>3, <1>4, TypeInit, LinearInit DEF IInv

\* Every step keeps the inductive invariant.
LEMMA IInvNext == IInv /\ [Next]_vars => IInv'
<1> SUFFICES ASSUME IInv, [Next]_vars PROVE IInv'
  OBVIOUS
<1>1. TypeOK' /\ LinearHistory'
  BY TypeNext, LinearNext, ActiveExistsFollows DEF IInv
<1> QED
  BY <1>1, StatusesNext, ProposalsNext, DecisionsNext, PlansNext DEF IInv

\* The inductive invariant always holds.
LEMMA Invariant == Spec => []IInv
  BY IInvInit, IInvNext, PTL DEF Spec

\* Nothing but a reordering the owner's policy allows ever changes the plan
\* without an unexpired decision of the owner for exactly that change.
THEOREM OwnerAlwaysControlsPlan == Spec => []OwnerControlsPlan
<1>1. IInv => OwnerControlsPlan
  <2> SUFFICES ASSUME IInv, NEW l \in PlanId, Exists(plans[l]), plans[l].previous # Nil
               PROVE  \/ \E d \in Decision : StandsBehind(d, l)
                      \/ /\ allowReorder
                         /\ plans[l].content.body = plans[plans[l].previous].content.body
    BY DEF OwnerControlsPlan
  <2> QED BY PlanFacts DEF PlanSound
<1> QED BY <1>1, Invariant, PTL

\* No approval is spent twice, lost, or decided twice.
THEOREM ApprovalsSpentOnce == Spec => []ApprovalSpentOnce
<1>1. IInv => ApprovalSpentOnce
  <2> SUFFICES ASSUME IInv PROVE ApprovalSpentOnce
    OBVIOUS
  <2>1. ASSUME NEW l \in PlanId, NEW m \in PlanId, Exists(plans[l]), Exists(plans[m]),
               l # m, plans[l].proposal # Nil
        PROVE  /\ plans[l].proposal # plans[m].proposal
               /\ plans[l].decision # Nil => plans[l].decision # plans[m].decision
    <3>1. plans[l].proposal # plans[m].proposal
      BY <2>1 DEF IInv, PlansSound
    <3>2. ASSUME NEW n \in {l, m}, plans[n].decision # Nil
          PROVE  decisions[plans[n].decision].proposal = plans[n].proposal
      BY <2>1, <3>2, PlanFacts DEF PlanSound, StandsBehind
    <3> QED BY <3>1, <3>2
  <2>2. ASSUME NEW p \in Proposal
        PROVE  (approvals[p].status = "consumed") <=>
                 \E l \in PlanId : /\ Exists(plans[l])
                                   /\ plans[l].proposal = p
                                   /\ plans[l].risk = "high"
    <3>1. ASSUME approvals[p].status = "consumed"
          PROVE  \E l \in PlanId : /\ Exists(plans[l])
                                   /\ plans[l].proposal = p
                                   /\ plans[l].risk = "high"
      <4>1. IsHigh(p) /\ proposals[p].status = "applied"
        BY <3>1 DEF IInv, StatusesAgree, ApprovalInStep, InStep, Exists
      <4>2. PICK l \in PlanId : Exists(plans[l]) /\ plans[l].proposal = p
        BY <4>1 DEF IInv, PlansSound
      <4>3. plans[l].risk = "high"
        BY <4>1, <4>2, IdAssumption, PlanFacts DEF PlanSound, IsHigh
      <4> QED BY <4>2, <4>3
    <3>2. ASSUME NEW l \in PlanId, Exists(plans[l]), plans[l].proposal = p,
                 plans[l].risk = "high"
          PROVE  approvals[p].status = "consumed"
      <4>1. proposals[p].status = "applied" /\ IsHigh(p)
        BY <3>2, IdAssumption, PlanFacts DEF PlanSound, IsHigh
      <4> QED BY <4>1 DEF IInv, StatusesAgree, ApprovalInStep, InStep
    <3> QED BY <3>1, <3>2
  <2> QED BY <2>1, <2>2 DEF IInv, DecisionsSound, ApprovalSpentOnce
<1> QED BY <1>1, Invariant, PTL

\* A command whose checks have passed never fails its compare-and-set.
THEOREM ChecksAlwaysImplyCas == Spec => []ChecksImplyCas
<1>1. IInv => ChecksImplyCas
  <2> SUFFICES ASSUME IInv, NEW p \in Proposal
               PROVE  /\ ExpireAllowed(stateVersion, p)
                            => proposals[p].status = "approval_required"
                      /\ \A d \in Decision \cup {Nil} :
                           ApplyAllowed(stateVersion, activePlan, p, d)
                             => proposals[p].status = ApplyExpectedStatus(p)
    BY DEF ChecksImplyCas
  <2>1. ApprovalInStep(p) /\ ProposalSound(p)
    BY DEF IInv, StatusesAgree, ProposalsSound
  <2>2. ExpireAllowed(stateVersion, p) => proposals[p].status = "approval_required"
    BY <2>1 DEF ExpireAllowed, ApprovalInStep, InStep, Exists
  <2>3. ASSUME NEW d \in Decision \cup {Nil}, ApplyAllowed(stateVersion, activePlan, p, d)
        PROVE  proposals[p].status = ApplyExpectedStatus(p)
    <3>1. Exists(proposals[p]) /\ proposals[p] \in ProposalRow /\ proposals[p].status # "applied"
      BY <2>3, RowTypes DEF ApplyAllowed, IInv
    <3>2. CASE proposals[p].risk = "high"
      <4>1. DecisionAuthorises(d, p)
        BY <2>3, <3>2 DEF ApplyAllowed
      <4>2. approvals[p].status = "approved"
        BY <4>1 DEF DecisionAuthorises
      <4> QED BY <2>1, <3>1, <3>2, <4>2
              DEF ApprovalInStep, IsHigh, InStep, ApplyExpectedStatus
    <3>3. CASE proposals[p].risk = "low"
      BY <2>1, <3>1, <3>3 DEF ProposalSound, ApplyExpectedStatus
    <3> QED BY <3>1, <3>2, <3>3 DEF ProposalRow
  <2> QED BY <2>2, <2>3
<1> QED BY <1>1, Invariant, PTL

----------------------------------------------------------------------------
(* What no step ever does *)

\* A proposal whose base is no longer the active plan is dead for good.
THEOREM StaleStaysDead == Spec => StaleProposalStaysDead
<1> DEFINE Stays(p) == /\ Exists(proposals[p])
                       /\ proposals[p].base # activePlan
                       => (proposals[p].status = "applied") = (proposals'[p].status = "applied")
<1>1. IInv /\ [Next]_vars => \A p \in Proposal : Stays(p)
  <2> SUFFICES ASSUME IInv, [Next]_vars, NEW p \in Proposal PROVE Stays(p)
    OBVIOUS
  <2>1. CASE UNCHANGED vars \/ Tick \/ Rejects \/ Creates
    BY <2>1 DEF vars, program, Tick, Rejects, Reject, Creates, CreateProgram
  <2>2. CASE Submits
    <3>1. PICK q \in Proposal : \E base \in PlanId, change \in Change : Submitted(base, change, q)
      BY <2>2, SubmitRows DEF Submits
    <3> QED BY <3>1 DEF Submitted, OnlyRowsOf
  <2>3. CASE Decides
    <3>1. PICK q \in Proposal : \E verdict : Decided(q, verdict)
      BY <2>3, DecideRows DEF Decides
    <3> QED BY <3>1 DEF Decided, OnlyRowsOf, ProposalRow
  <2>4. CASE Applies
    <3>1. PICK base \in PlanId, q \in Proposal, d \in Decision \cup {Nil} :
            Applied(base, q, d) /\ base = activePlan
      BY <2>4, ApplyRows DEF Applies, ApplyAllowed
    <3> QED BY <3>1 DEF Applied, OnlyRowsOf
  <2>5. CASE Expires
    <3>1. PICK q \in Proposal : Expired(q)
      BY <2>5, ExpireRows DEF Expires
    <3> QED BY <3>1 DEF Expired, OnlyRowsOf, ProposalRow
  <2> QED BY <2>1, <2>2, <2>3, <2>4, <2>5, StepCases
<1> QED BY <1>1, Invariant, PTL DEF Spec, StaleProposalStaysDead

\* A commit replaces no receipt and loses no event.
LEMMA CommitKeepsRecords ==
  ASSUME TypeOK, HasFresh(receipts), NEW type \in EventType, Commit(type)
  PROVE  /\ \A k \in Key : Exists(receipts[k]) => receipts'[k] = receipts[k]
         /\ events \subseteq events'
  BY CommitWrites DEF TypeOK

\* No step replaces a receipt or loses an event.
LEMMA RecordsKept ==
  ASSUME TypeOK, [Next]_vars
  PROVE  /\ \A k \in Key : Exists(receipts[k]) => receipts'[k] = receipts[k]
         /\ events \subseteq events'
<1> USE CommitKeepsRecords DEF EventType
<1>1. CASE UNCHANGED vars \/ Tick
  BY <1>1 DEF vars, Tick
<1>2. CASE Rejects
  BY <1>2, FreshRow DEF Rejects, Reject, TypeOK
<1>3. CASE Creates
  BY <1>3 DEF Creates, CreateProgram
<1>4. CASE Submits
  BY <1>4 DEF Submits, Submit
<1>5. CASE Decides
  BY <1>5 DEF Decides, Decide
<1>6. CASE Applies
  BY <1>6 DEF Applies, Apply
<1>7. CASE Expires
  BY <1>7 DEF Expires, Expire
<1> QED BY <1>1, <1>2, <1>3, <1>4, <1>5, <1>6, <1>7, StepCases

\* No step changes a plan or a decision that exists.
LEMMA PlansAndDecisionsKept ==
  ASSUME IInv, [Next]_vars
  PROVE  /\ \A l \in PlanId : Exists(plans[l]) => plans'[l] = plans[l]
         /\ \A d \in Decision : Exists(decisions[d]) => decisions'[d] = decisions[d]
<1>1. CASE UNCHANGED vars \/ Tick \/ Rejects \/ Submits \/ Expires
  BY <1>1 DEF vars, Tick, Rejects, Reject, Submits, Submit, Expires, Expire
<1>2. CASE Creates
  BY <1>2, FreshRow DEF Creates, CreateProgram, IInv, TypeOK
<1>3. CASE Decides
  <2>1. plans' = plans
    BY <1>3 DEF Decides, Decide
  <2>2. \A d \in Decision : Exists(decisions[d]) => decisions'[d] = decisions[d]
    BY <1>3, DecideAddsDecision DEF Decides, IInv
  <2> QED BY <2>1, <2>2
<1>4. CASE Applies
  BY <1>4, FreshRow DEF Applies, Apply, IInv, TypeOK
<1> QED BY <1>1, <1>2, <1>3, <1>4, StepCases

\* No step changes a proposal or an approval that is settled.
LEMMA SettledRowsKept ==
  ASSUME IInv, [Next]_vars, NEW p \in Proposal
  PROVE  /\ Settled(proposals[p].status) => proposals'[p] = proposals[p]
         /\ Settled(approvals[p].status) => approvals'[p] = approvals[p]
<1> USE DEF Settled
<1>0. Exists(approvals[p]) => Exists(proposals[p])
  BY DEF IInv, StatusesAgree, ApprovalInStep, IsHigh
<1>1. CASE UNCHANGED vars \/ Tick \/ Rejects \/ Creates
  BY <1>1 DEF vars, Tick, Rejects, Reject, Creates, CreateProgram
<1>2. CASE Submits
  <2>1. PICK q \in Proposal : \E base \in PlanId, change \in Change : Submitted(base, change, q)
    BY <1>2, SubmitRows DEF Submits
  <2> QED BY <1>0, <2>1 DEF Submitted, OnlyRowsOf, Exists
<1>3. CASE Decides
  <2>1. PICK q \in Proposal : \E verdict : Decided(q, verdict)
    BY <1>3, DecideRows DEF Decides
  <2> QED BY <2>1 DEF Decided, OnlyRowsOf
<1>4. CASE Applies
  <2>1. PICK base \in PlanId, q \in Proposal, d \in Decision \cup {Nil} : Applied(base, q, d)
    BY <1>4, ApplyRows DEF Applies
  <2> QED BY <2>1 DEF Applied, OnlyRowsOf
<1>5. CASE Expires
  <2>1. PICK q \in Proposal : Expired(q)
    BY <1>5, ExpireRows DEF Expires
  <2> QED BY <2>1 DEF Expired, OnlyRowsOf
<1> QED BY <1>1, <1>2, <1>3, <1>4, <1>5, StepCases

\* What is settled or recorded is never rewritten.
THEOREM HistoryIsKept == Spec => HistoryKept
<1> DEFINE Kept ==
      /\ \A p \in Proposal :
           /\ Settled(proposals[p].status) => proposals'[p] = proposals[p]
           /\ Settled(approvals[p].status) => approvals'[p] = approvals[p]
      /\ \A l \in PlanId : Exists(plans[l]) => plans'[l] = plans[l]
      /\ \A d \in Decision : Exists(decisions[d]) => decisions'[d] = decisions[d]
      /\ \A k \in Key : Exists(receipts[k]) => receipts'[k] = receipts[k]
      /\ events \subseteq events'
<1>1. IInv /\ [Next]_vars => Kept
  <2> SUFFICES ASSUME IInv, [Next]_vars PROVE Kept
    OBVIOUS
  <2>1. TypeOK
    BY DEF IInv
  <2> QED BY <2>1, RecordsKept, PlansAndDecisionsKept, SettledRowsKept
<1> QED BY <1>1, Invariant, PTL DEF Spec, HistoryKept

\* Every step keeps restored plans exact.
LEMMA RestoreNext == IInv /\ RestoreIsExact /\ [Next]_vars => RestoreIsExact'
<1> SUFFICES ASSUME IInv, RestoreIsExact, [Next]_vars PROVE RestoreIsExact'
  OBVIOUS
<1>1. CASE UNCHANGED plans
  BY <1>1 DEF RestoreIsExact
<1>2. CASE Creates
  <2>1. \A l \in PlanId : ~Exists(plans[l])
    BY <1>2 DEF Creates, CreateProgram, IInv, LinearHistory
  <2>2. \A l \in PlanId : Exists(plans'[l]) => plans'[l].restoredFrom = Nil
    BY <1>2, <2>1, FreshRow DEF Creates, CreateProgram, IInv, TypeOK
  <2> QED BY <2>2 DEF RestoreIsExact
<1>3. CASE Applies
  <2>1. PICK expected \in Versions, base \in PlanId, p \in Proposal,
             d \in Decision \cup {Nil} :
          ApplyAllowed(expected, base, p, d) /\ Apply(base, p, d)
    BY <1>3 DEF Applies
  <2>2. PICK l \in PlanId :
          /\ ~Exists(plans[l]) /\ plans'[l] = AppliedPlan(base, p, d)
          /\ \A m \in PlanId : m # l => plans'[m] = plans[m]
    BY <2>1, ApplyAddsPlan, ActiveExistsFollows DEF IInv
  <2>3. activePlan = base /\ Exists(plans[base]) /\ plans[base] \in PlanRow
    BY <2>1, ApplyAddsPlan, ActiveExistsFollows DEF IInv
  <2>4. ASSUME NEW m \in PlanId, Exists(plans'[m]), plans'[m].restoredFrom # Nil
        PROVE  /\ Exists(plans'[plans'[m].restoredFrom])
               /\ plans'[m].content = plans'[plans'[m].restoredFrom].content
               /\ plans'[plans'[m].restoredFrom].no < plans'[m].no
               /\ plans'[m].risk = "high"
    <3>1. CASE m = l
      <4> DEFINE t == proposals[p].change.to
      <4>1. proposals[p].change.kind = "restore_plan" /\ plans'[l].restoredFrom = t
        BY <2>2, <2>4, <3>1 DEF AppliedPlan
      <4>2. t \in PlanId /\ Exists(plans[t])
        BY <2>1, <4>1, RowTypes
           DEF ApplyAllowed, Applicable, IInv, ProposalRow, Change
      <4>3. plans'[t] = plans[t]
        BY <2>2, <4>2
      <4>4. plans'[l].content = plans[t].content
        BY <2>2, <4>1 DEF AppliedPlan, ApplyChange
      <4>5. plans'[l].no = plans[base].no + 1 /\ plans[t].no <= plans[base].no
        BY <2>2, <2>3, <4>2 DEF AppliedPlan, IInv, LinearHistory
      <4>6. plans[t].no \in Nat /\ plans[base].no \in Nat
        BY <2>3, <4>2, RowTypes DEF IInv, PlanRow
      <4>7. Exists(proposals[p]) /\ proposals[p].risk \in {"low", "high"}
        BY <2>1, RowTypes DEF ApplyAllowed, IInv, ProposalRow
      <4>8. plans'[l].risk = "high"
        BY <2>2, <4>1, <4>7 DEF AppliedPlan, IInv, ProposalsSound, ProposalSound
      <4> QED BY <3>1, <4>1, <4>2, <4>3, <4>4, <4>5, <4>6, <4>8
    <3>2. CASE m # l
      <4>1. plans'[m] = plans[m] /\ Exists(plans[m])
        BY <2>2, <2>4, <3>2
      <4>2. plans[m].restoredFrom \in PlanId /\ Exists(plans[plans[m].restoredFrom])
        BY <2>4, <4>1, RowTypes DEF IInv, PlanRow, RestoreIsExact
      <4>3. plans'[plans[m].restoredFrom] = plans[plans[m].restoredFrom]
        BY <2>2, <4>2
      <4> QED BY <2>4, <4>1, <4>2, <4>3 DEF RestoreIsExact
    <3> QED BY <3>1, <3>2
  <2> QED BY <2>4 DEF RestoreIsExact
<1>4. CASE Tick \/ Rejects \/ Submits \/ Decides \/ Expires
  BY <1>1, <1>4 DEF Tick, Rejects, Reject, Submits, Submit, Decides, Decide, Expires, Expire
<1>5. CASE UNCHANGED vars
  BY <1>1, <1>5 DEF vars
<1> QED BY <1>2, <1>3, <1>4, <1>5, StepCases

\* A restored plan is a new version with the content of its target.
THEOREM RestoresAreExact == Spec => []RestoreIsExact
<1>1. Init => RestoreIsExact
  BY DEF Init, RestoreIsExact, Exists, Absent
<1> QED BY <1>1, RestoreNext, Invariant, PTL DEF Spec

----------------------------------------------------------------------------
(* Refinement of MandatedPlan *)

\* Every place of the line is taken.
NoGap == \A n \in 1..Plans : \E l \in PlanId : Exists(plans[l]) /\ plans[l].no = n

\* An approval is for a plan that exists and ends within the lifetime from now,
\* and a decision ends with its approval.
Timely ==
  /\ \A p \in Proposal : Exists(approvals[p]) =>
       /\ Exists(plans[approvals[p].base])
       /\ approvals[p].expires <= now + ApprovalTTL
  /\ \A d \in Decision : Exists(decisions[d]) =>
       decisions[d].expires = approvals[decisions[d].proposal].expires

MInv == IInv /\ NoGap /\ Timely

\* Each place holds one plan, and each plan is in its place.
LEMMA PlacesTaken ==
  TypeOK /\ LinearHistory /\ NoGap =>
    /\ \A n \in 1..Plans :
         PlanAt(n) \in PlanId /\ Exists(plans[PlanAt(n)]) /\ plans[PlanAt(n)].no = n
    /\ \A l \in PlanId : Exists(plans[l]) => PlanAt(plans[l].no) = l
    /\ Plans \in Nat
<1> SUFFICES ASSUME TypeOK, LinearHistory, NoGap
             PROVE  /\ \A n \in 1..Plans : /\ PlanAt(n) \in PlanId /\ Exists(plans[PlanAt(n)])
                                           /\ plans[PlanAt(n)].no = n
                    /\ \A l \in PlanId : Exists(plans[l]) => PlanAt(plans[l].no) = l
                    /\ Plans \in Nat
  OBVIOUS
<1>1. \A n \in 1..Plans : /\ PlanAt(n) \in PlanId /\ Exists(plans[PlanAt(n)])
                          /\ plans[PlanAt(n)].no = n
  BY DEF NoGap, PlanAt
<1>2. ASSUME NEW l \in PlanId, Exists(plans[l]) PROVE PlanAt(plans[l].no) = l
  <2>1. \A m \in PlanId : Exists(plans[m]) /\ plans[m].no = plans[l].no => m = l
    BY <1>2 DEF LinearHistory
  <2> QED BY <1>2, <2>1 DEF PlanAt
<1>3. Plans \in Nat
  BY RowTypes, IdAssumption DEF Plans, LinearHistory, TypeOK, PlanRow
<1> QED BY <1>1, <1>2, <1>3

\* So it is after a step.
LEMMA PlacesTakenNext ==
  (TypeOK /\ LinearHistory /\ NoGap =>
     /\ \A n \in 1..Plans :
          PlanAt(n) \in PlanId /\ Exists(plans[PlanAt(n)]) /\ plans[PlanAt(n)].no = n
     /\ \A l \in PlanId : Exists(plans[l]) => PlanAt(plans[l].no) = l
     /\ Plans \in Nat)'
BY PlacesTaken, PTL

\* The first plan is the only one, in the first place.
LEMMA CreateFounds ==
  ASSUME IInv, NEW who \in Principal, NEW policy, NEW content, CreateProgram(who, policy, content)
  PROVE  /\ Plans = 0 /\ Plans' = 1
         /\ \A l \in PlanId : ~Exists(plans[l])
         /\ activePlan' \in PlanId /\ Exists(plans'[activePlan'])
         /\ plans'[activePlan'].no = 1 /\ plans'[activePlan'].content = content
         /\ \A p \in Proposal : ~Exists(approvals[p]) /\ approvals'[p] = approvals[p]
         /\ \A d \in Decision : ~Exists(decisions[d]) /\ decisions'[d] = decisions[d]
<1>1. ~Created /\ UNCHANGED <<approvals, decisions, proposals>> /\ owner' = who
  BY DEF CreateProgram
<1>2. \A p \in Proposal : ~Exists(approvals[p])
  BY <1>1 DEF IInv, StatusesAgree, ApprovalInStep, IsHigh, ProposalsSound, ProposalSound
<1>3. \A d \in Decision : ~Exists(decisions[d])
  BY <1>1, DecisionFacts
<1>4. \A l \in PlanId : ~Exists(plans[l])
  BY <1>1 DEF IInv, LinearHistory
<1>5. Fresh(plans) \in PlanId /\ activePlan' = Fresh(plans)
  BY FreshRow DEF CreateProgram, IInv, TypeOK
<1>6. /\ plans'[Fresh(plans)].no = 1 /\ plans'[Fresh(plans)].content = content
      /\ plans'[Fresh(plans)].status = "present"
  BY <1>5 DEF CreateProgram, IInv, TypeOK
<1>7. Plans = 0 /\ Plans' = 1
  BY <1>1, <1>5, <1>6, PrincipalAssumption DEF Plans, Created
<1> QED BY <1>1, <1>2, <1>3, <1>4, <1>5, <1>6, <1>7 DEF Exists

\* An application takes the next place.
LEMMA ApplyTakesPlace ==
  ASSUME IInv, NEW expected, NEW base \in PlanId, NEW p \in Proposal, NEW d,
         ApplyAllowed(expected, base, p, d), Apply(base, p, d)
  PROVE  /\ Created /\ activePlan = base /\ Exists(plans[base])
         /\ Plans = plans[base].no /\ Plans \in Nat \ {0} /\ Plans' = Plans + 1
         /\ activePlan' \in PlanId /\ Exists(plans'[activePlan'])
         /\ plans'[activePlan'] = AppliedPlan(base, p, d)
         /\ \A m \in PlanId : Exists(plans[m]) => plans'[m] = plans[m]
<1>1. /\ activePlan = base /\ Exists(plans[base]) /\ plans[base] \in PlanRow
      /\ \E l \in PlanId :
           /\ ~Exists(plans[l]) /\ activePlan' = l
           /\ plans'[l] = AppliedPlan(base, p, d)
           /\ \A m \in PlanId : m # l => plans'[m] = plans[m]
  BY ApplyAddsPlan, ActiveExistsFollows DEF IInv
<1>2. Created /\ owner' = owner
  BY <1>1 DEF IInv, LinearHistory, Apply
<1>3. plans[base].no \in Nat \ {0} /\ AppliedPlan(base, p, d).no = plans[base].no + 1
  BY <1>1 DEF PlanRow, AppliedPlan
<1>4. Plans = plans[base].no /\ Plans' = Plans + 1
  BY <1>1, <1>2, <1>3 DEF Plans, Created
<1>5. Exists(plans'[activePlan'])
  BY <1>1 DEF AppliedPlan, Exists
<1> QED BY <1>1, <1>2, <1>3, <1>4, <1>5

\* Every step keeps the places of the line taken.
LEMMA NoGapNext == IInv /\ NoGap /\ [Next]_vars => NoGap'
<1> SUFFICES ASSUME IInv, NoGap, [Next]_vars PROVE NoGap'
  OBVIOUS
<1>1. CASE UNCHANGED <<plans, activePlan, owner>>
  BY <1>1 DEF NoGap, Plans, Created
<1>2. CASE Creates
  <2>1. /\ Plans' = 1 /\ activePlan' \in PlanId
        /\ Exists(plans'[activePlan']) /\ plans'[activePlan'].no = 1
    BY <1>2, CreateFounds DEF Creates
  <2> QED BY <2>1 DEF NoGap
<1>3. CASE Applies
  <2>1. PICK expected \in Versions, base \in PlanId, p \in Proposal, d \in Decision \cup {Nil} :
          ApplyAllowed(expected, base, p, d) /\ Apply(base, p, d)
    BY <1>3 DEF Applies
  <2>2. /\ Plans \in Nat /\ Plans' = Plans + 1 /\ Plans = plans[base].no
        /\ activePlan' \in PlanId /\ Exists(plans'[activePlan'])
        /\ plans'[activePlan'] = AppliedPlan(base, p, d)
        /\ \A m \in PlanId : Exists(plans[m]) => plans'[m] = plans[m]
    BY <2>1, ApplyTakesPlace
  <2>3. plans'[activePlan'].no = Plans + 1
    BY <2>2 DEF AppliedPlan
  <2>4. ASSUME NEW n \in 1..(Plans + 1)
        PROVE  \E l \in PlanId : Exists(plans'[l]) /\ plans'[l].no = n
    <3>1. CASE n = Plans + 1
      BY <2>2, <2>3, <3>1
    <3>2. CASE n \in 1..Plans
      BY <2>2, <3>2 DEF NoGap
    <3> QED BY <2>2, <3>1, <3>2
  <2> QED BY <2>2, <2>4 DEF NoGap
<1>4. CASE UNCHANGED vars \/ Tick \/ Rejects \/ Submits \/ Decides \/ Expires
  BY <1>1, <1>4 DEF vars, program, Tick, Rejects, Reject, Submits, Submit, Decides, Decide,
                    Expires, Expire
<1> QED BY <1>2, <1>3, <1>4, StepCases

\* A step that leaves base and deadline of every approval alone keeps them timely.
LEMMA TimelyKept ==
  ASSUME MInv, now' \in Nat, now <= now',
         \A l \in PlanId : Exists(plans[l]) => plans'[l] = plans[l],
         \A p \in Proposal : Exists(approvals'[p]) =>
           \/ /\ Exists(approvals[p])
              /\ approvals'[p].base = approvals[p].base
              /\ approvals'[p].expires = approvals[p].expires
           \/ /\ approvals'[p].base \in PlanId /\ Exists(plans'[approvals'[p].base])
              /\ approvals'[p].expires = now' + ApprovalTTL
  PROVE  \A p \in Proposal : Exists(approvals'[p]) =>
           /\ Exists(plans'[approvals'[p].base])
           /\ approvals'[p].expires <= now' + ApprovalTTL
<1> SUFFICES ASSUME NEW p \in Proposal, Exists(approvals'[p])
             PROVE  /\ Exists(plans'[approvals'[p].base])
                    /\ approvals'[p].expires <= now' + ApprovalTTL
  OBVIOUS
<1>1. now \in Nat /\ ApprovalTTL \in Nat
  BY BoundAssumption DEF MInv, IInv, TypeOK
<1>2. CASE /\ Exists(approvals[p])
           /\ approvals'[p].base = approvals[p].base
           /\ approvals'[p].expires = approvals[p].expires
  <2>1. approvals[p].base \in PlanId /\ approvals[p].expires \in Nat
    BY <1>2, RowTypes DEF MInv, IInv, ApprovalRow
  <2>2. Exists(plans[approvals[p].base]) /\ approvals[p].expires <= now + ApprovalTTL
    BY <1>2 DEF MInv, Timely
  <2> QED BY <1>1, <1>2, <2>1, <2>2
<1>3. CASE /\ approvals'[p].base \in PlanId /\ Exists(plans'[approvals'[p].base])
           /\ approvals'[p].expires = now' + ApprovalTTL
  <2>1. \A t \in Nat : t + ApprovalTTL <= t + ApprovalTTL
    BY BoundAssumption
  <2>2. now' + ApprovalTTL <= now' + ApprovalTTL
    BY <2>1, Zenon
  <2>3. approvals'[p].expires <= now' + ApprovalTTL
    BY <1>3, <2>2, Zenon
  <2> QED BY <1>3, <2>3, Zenon
<1> QED BY <1>2, <1>3

\* Every step keeps approvals and decisions timely.
LEMMA TimelyNext == MInv /\ [Next]_vars => Timely'
<1> SUFFICES ASSUME MInv, [Next]_vars PROVE Timely'
  OBVIOUS
<1>0. /\ IInv /\ Timely /\ now \in Nat
      /\ \A l \in PlanId : Exists(plans[l]) => plans'[l] = plans[l]
      /\ \A p \in Proposal : Exists(approvals[p]) => approvals[p] \in ApprovalRow
  BY PlansAndDecisionsKept, RowTypes DEF MInv, IInv, TypeOK
<1>1. CASE UNCHANGED vars \/ Tick \/ Rejects
  <2>1. UNCHANGED <<approvals, decisions>> /\ now' \in Nat /\ now <= now'
    BY <1>0, <1>1 DEF vars, program, Tick, Rejects, Reject
  <2>2. \A p \in Proposal : Exists(approvals'[p]) =>
           /\ Exists(plans'[approvals'[p].base])
           /\ approvals'[p].expires <= now' + ApprovalTTL
    BY <1>0, <2>1, TimelyKept
  <2> QED BY <1>0, <2>1, <2>2 DEF Timely
<1>2. CASE Creates
  BY <1>0, <1>2, CreateFounds DEF Creates, Timely
<1>3. CASE Submits
  <2>1. PICK expected \in Versions, base \in PlanId, change \in Change :
          SubmitAllowed(expected, base, change) /\ Submit(base, change)
    BY <1>3 DEF Submits
  <2>2. PICK p \in Proposal : Submitted(base, change, p)
    BY <1>0, <2>1, SubmitRows
  <2>3. UNCHANGED <<plans, decisions, now>> /\ Exists(plans[base])
    BY <1>0, <2>1, IdAssumption DEF Submit, SubmitAllowed, IInv, LinearHistory
  <2>4. ~Exists(approvals[p])
    BY <1>0, <2>2 DEF Submitted, IInv, StatusesAgree, ApprovalInStep, IsHigh
  <2>5. \A q \in Proposal : Exists(approvals'[q]) =>
           /\ Exists(plans'[approvals'[q].base])
           /\ approvals'[q].expires <= now' + ApprovalTTL
    <3>1. \A q \in Proposal : q # p => approvals'[q] = approvals[q]
      BY <2>2 DEF Submitted, OnlyRowsOf
    <3>2. Exists(approvals'[p]) => approvals'[p].base = base /\ approvals'[p].expires = now + ApprovalTTL
      BY <2>2, <2>4 DEF Submitted
    <3>3. now' \in Nat /\ now <= now'
      BY <1>0, <2>3
    <3> QED BY <1>0, <2>3, <3>1, <3>2, <3>3, TimelyKept
  <2>6. \A d \in Decision : Exists(decisions[d]) => decisions[d].proposal # p
    BY <1>0, <2>4, DecisionFacts
  <2>7. \A d \in Decision : Exists(decisions[d]) =>
          approvals'[decisions[d].proposal] = approvals[decisions[d].proposal]
    BY <1>0, <2>2, <2>6, DecisionFacts DEF Submitted, OnlyRowsOf
  <2> QED BY <1>0, <2>3, <2>5, <2>7 DEF Timely
<1>a. ASSUME UNCHANGED now, NEW p \in Proposal, OnlyRowsOf(p),
             Exists(approvals[p]), NEW status, approvals'[p] = [approvals[p] EXCEPT !.status = status]
      PROVE  /\ \A q \in Proposal : Exists(approvals'[q]) =>
                  /\ Exists(plans'[approvals'[q].base])
                  /\ approvals'[q].expires <= now' + ApprovalTTL
             /\ \A q \in Proposal : Exists(approvals[q]) => approvals'[q].expires = approvals[q].expires
  <2>1. /\ approvals'[p].base = approvals[p].base
        /\ approvals'[p].expires = approvals[p].expires
    BY <1>0, <1>a DEF ApprovalRow
  <2>2. \A q \in Proposal : q # p => approvals'[q] = approvals[q]
    BY <1>a DEF OnlyRowsOf
  <2>3. now' \in Nat /\ now <= now'
    BY <1>0, <1>a
  <2>4. \A q \in Proposal : Exists(approvals'[q]) =>
           /\ Exists(plans'[approvals'[q].base])
           /\ approvals'[q].expires <= now' + ApprovalTTL
    BY <1>0, <1>a, <2>1, <2>2, <2>3, TimelyKept
  <2> QED BY <2>1, <2>2, <2>4
<1>4. CASE Decides
  <2>1. PICK who \in Principal, p \in Proposal, verdict \in {"approve", "deny"} :
          Decide(who, p, verdict) /\ Decided(p, verdict)
    BY <1>0, <1>4, DecideRows DEF Decides, Issuers
  <2>2. /\ Exists(approvals[p]) /\ OnlyRowsOf(p) /\ UNCHANGED now
        /\ \E status : approvals'[p] = [approvals[p] EXCEPT !.status = status]
    BY <2>1 DEF Decided, Exists, Decide
  <2>3. /\ \A q \in Proposal : Exists(approvals'[q]) =>
             /\ Exists(plans'[approvals'[q].base])
             /\ approvals'[q].expires <= now' + ApprovalTTL
        /\ \A q \in Proposal : Exists(approvals[q]) => approvals'[q].expires = approvals[q].expires
    BY <1>a, <2>2
  <2>4. PICK d \in Decision :
          /\ decisions'[d] = RecordedDecision(who, p, verdict)
          /\ \A c \in Decision : c # d => decisions'[c] = decisions[c]
    BY <1>0, <2>1, DecideAddsDecision DEF IInv
  <2>5. decisions'[d].proposal = p /\ decisions'[d].expires = approvals[p].expires
    BY <2>4 DEF RecordedDecision
  <2>6. \A c \in Decision : c # d /\ Exists(decisions'[c]) =>
          decisions'[c].expires = approvals'[decisions'[c].proposal].expires
    BY <1>0, <2>3, <2>4, DecisionFacts DEF Timely
  <2> QED BY <2>2, <2>3, <2>5, <2>6 DEF Timely
<1>5. CASE Applies
  <2>1. PICK base \in PlanId, p \in Proposal, d \in Decision \cup {Nil} : Applied(base, p, d)
    BY <1>0, <1>5, ApplyRows DEF Applies
  <2>2. UNCHANGED <<decisions, now>>
    BY <1>5 DEF Applies, Apply
  <2>3. CASE IsHigh(p)
    <3>1. /\ Exists(approvals[p]) /\ OnlyRowsOf(p)
          /\ approvals'[p] = [approvals[p] EXCEPT !.status = "consumed"]
      BY <2>1, <2>3 DEF Applied, Exists
    <3>2. /\ \A q \in Proposal : Exists(approvals'[q]) =>
               /\ Exists(plans'[approvals'[q].base])
               /\ approvals'[q].expires <= now' + ApprovalTTL
          /\ \A q \in Proposal : Exists(approvals[q]) => approvals'[q].expires = approvals[q].expires
      BY <1>a, <2>2, <3>1
    <3> QED BY <1>0, <2>2, <3>2, DecisionFacts DEF Timely
  <2>4. CASE ~IsHigh(p)
    <3>1. \A q \in Proposal : approvals'[q] = approvals[q]
      BY <2>1, <2>4 DEF Applied, OnlyRowsOf
    <3>2. now' \in Nat /\ now <= now'
      BY <1>0, <2>2
    <3>3. \A q \in Proposal : Exists(approvals'[q]) =>
             /\ Exists(plans'[approvals'[q].base])
             /\ approvals'[q].expires <= now' + ApprovalTTL
      BY <1>0, <3>1, <3>2, TimelyKept
    <3> QED BY <1>0, <2>2, <3>1, <3>3, DecisionFacts DEF Timely
  <2> QED BY <2>3, <2>4
<1>6. CASE Expires
  <2>1. PICK p \in Proposal : Expired(p)
    BY <1>0, <1>6, ExpireRows DEF Expires
  <2>2. UNCHANGED <<decisions, now>> /\ Exists(approvals[p]) /\ OnlyRowsOf(p)
        /\ approvals'[p] = [approvals[p] EXCEPT !.status = "expired"]
    BY <1>6, <2>1 DEF Expires, Expire, Expired, Exists
  <2>3. /\ \A q \in Proposal : Exists(approvals'[q]) =>
             /\ Exists(plans'[approvals'[q].base])
             /\ approvals'[q].expires <= now' + ApprovalTTL
        /\ \A q \in Proposal : Exists(approvals[q]) => approvals'[q].expires = approvals[q].expires
    BY <1>a, <2>2
  <2> QED BY <1>0, <2>2, <2>3, DecisionFacts DEF Timely
<1> QED BY <1>1, <1>2, <1>3, <1>4, <1>5, <1>6, StepCases

\* Before the creation there is no plan and no approval.
LEMMA MandateInit == Init => MInv /\ Plans = 0
<1> SUFFICES ASSUME Init PROVE NoGap /\ Timely /\ Plans = 0
  BY IInvInit DEF MInv
<1>1. Plans = 0
  BY DEF Init, Plans, Created
<1> QED BY <1>1 DEF Init, NoGap, Timely, Exists, Absent

\* The invariant of the refinement.
LEMMA MandateInvariant == Spec => []MInv
<1>1. MInv /\ [Next]_vars => MInv'
  BY IInvNext, NoGapNext, TimelyNext DEF MInv
<1> QED BY <1>1, MandateInit, PTL DEF Spec

Line == [n \in 1..Plans |-> plans[PlanAt(n)].content]
Mandates == [p \in Proposal |-> MandateOf(p)]

\* The line is a sequence of contents, the content of the active plan last.
LEMMA LineType ==
  MInv => /\ Line \in Seq(Content) /\ Len(Line) = Plans /\ Plans \in Nat
          /\ Created => Plans \in Nat \ {0} /\ Line[Plans] = plans[activePlan].content
<1> SUFFICES ASSUME MInv
             PROVE  /\ Line \in Seq(Content) /\ Len(Line) = Plans /\ Plans \in Nat
                    /\ Created => Plans \in Nat \ {0} /\ Line[Plans] = plans[activePlan].content
  OBVIOUS
<1>1. /\ \A n \in 1..Plans : PlanAt(n) \in PlanId /\ Exists(plans[PlanAt(n)])
      /\ \A l \in PlanId : Exists(plans[l]) => PlanAt(plans[l].no) = l
      /\ Plans \in Nat
  BY PlacesTaken DEF MInv, IInv
<1>2. \A l \in PlanId : Exists(plans[l]) => plans[l].content \in Content /\ plans[l].no \in Nat \ {0}
  BY RowTypes DEF MInv, IInv, PlanRow
<1>3. Line \in [1..Plans -> Content]
  BY <1>1, <1>2 DEF Line
<1>4. Line \in Seq(Content)
  BY <1>1, <1>3, SeqDef
<1>5. 1..Len(Line) = 1..Plans /\ Len(Line) \in Nat
  BY <1>3, <1>4, LenProperties
<1>6. Len(Line) = Plans
  BY <1>1, <1>5
<1>7. Created => Plans \in Nat \ {0} /\ Line[Plans] = plans[activePlan].content
  <2> SUFFICES ASSUME Created PROVE Plans \in Nat \ {0} /\ Line[Plans] = plans[activePlan].content
    OBVIOUS
  <2>1. activePlan \in PlanId /\ Exists(plans[activePlan]) /\ Plans = plans[activePlan].no
    BY DEF MInv, IInv, TypeOK, LinearHistory, Plans
  <2>2. Plans \in 1..Plans /\ PlanAt(Plans) = activePlan
    BY <1>1, <1>2, <2>1
  <2> QED BY <1>2, <2>1, <2>2 DEF Line
<1> QED BY <1>1, <1>4, <1>6, <1>7

\* So it is after a step.
LEMMA LineTypeNext ==
  (MInv => /\ Line \in Seq(Content) /\ Len(Line) = Plans /\ Plans \in Nat
           /\ Created => Plans \in Nat \ {0} /\ Line[Plans] = plans[activePlan].content)'
BY LineType, PTL

\* While no plan is added the line stays.
LEMMA LineStays == UNCHANGED <<plans, activePlan, owner>> => UNCHANGED Line
  BY DEF Line, Plans, PlanAt, Created

\* A mandate stays while its approval does.
LEMMA MandateStays ==
  ASSUME MInv, NEW q \in Proposal, approvals'[q] = approvals[q],
         \A l \in PlanId : Exists(plans[l]) => plans'[l] = plans[l]
  PROVE  MandateOf(q)' = MandateOf(q)
<1>1. CASE Exists(approvals[q])
  <2>1. approvals[q].base \in PlanId /\ Exists(plans[approvals[q].base])
    BY <1>1, RowTypes DEF MInv, IInv, Timely, ApprovalRow
  <2> QED BY <2>1 DEF MandateOf
<1>2. CASE ~Exists(approvals[q])
  BY <1>2 DEF MandateOf, Exists
<1> QED BY <1>1, <1>2

\* There is no mandate that was not given.
LEMMA NoMandateBefore ==
  ASSUME NEW q \in Proposal, approvals[q].status \notin {"approved", "consumed"}
  PROVE  MandateOf(q) = Mandated!NoMandate
  BY DEF MandateOf, Mandated!NoMandate

\* A step that leaves line, mandates, policy and time alone is invisible.
LEMMA Invisible ==
  ASSUME UNCHANGED <<plans, activePlan, owner, allowReorder, now>>,
         \A q \in Proposal : MandateOf(q)' = MandateOf(q)
  PROVE  UNCHANGED Mandated!mandated
<1>1. Mandates' = Mandates
  BY DEF Mandates
<1> QED BY <1>1, LineStays DEF Mandated!mandated, Line, Mandates

\* One more plan, in force, is one more content at the end of the line.
LEMMA LineGrows ==
  ASSUME MInv, MInv', Created, Created', Plans' = Plans + 1,
         \A l \in PlanId : Exists(plans[l]) => plans'[l] = plans[l]
  PROVE  Line' = Append(Line, plans'[activePlan'].content)
<1> DEFINE last == plans'[activePlan'].content
<1>1. Line \in Seq(Content) /\ Len(Line) = Plans /\ Plans \in Nat
  BY LineType
<1>2. Line' \in Seq(Content) /\ Len(Line') = Plans + 1 /\ Line'[Plans + 1] = last
  BY LineTypeNext
<1>3. last \in Content
  <2>1. Plans + 1 \in 1..Len(Line')
    BY <1>1, <1>2
  <2> QED BY <1>2, <2>1, ElementOfSeq
<1>4. /\ Append(Line, last) \in Seq(Content) /\ Len(Append(Line, last)) = Plans + 1
      /\ \A n \in 1..Plans : Append(Line, last)[n] = Line[n]
      /\ Append(Line, last)[Plans + 1] = last
  BY <1>1, <1>3, AppendProperties
<1>5. ASSUME NEW n \in 1..Plans PROVE Line'[n] = Line[n]
  <2>1. PlanAt(n) \in PlanId /\ Exists(plans[PlanAt(n)]) /\ plans[PlanAt(n)].no = n
    BY PlacesTaken DEF MInv, IInv
  <2>2. n \in 1..Plans'
    BY <1>1
  <2>3. PlanAt(n)' \in PlanId /\ Exists(plans'[PlanAt(n)']) /\ plans'[PlanAt(n)'].no = n
    BY <2>2, PlacesTakenNext DEF MInv, IInv
  <2>4. plans'[PlanAt(n)] = plans[PlanAt(n)]
    BY <2>1
  <2>5. PlanAt(n)' = PlanAt(n)
    BY <2>1, <2>3, <2>4 DEF MInv, IInv, LinearHistory
  <2>6. Line'[n] = plans'[PlanAt(n)'].content
    BY <2>2 DEF Line
  <2>7. Line[n] = plans[PlanAt(n)].content
    BY DEF Line
  <2> QED BY <2>4, <2>5, <2>6, <2>7
<1>6. \A n \in 1..(Plans + 1) : Line'[n] = Append(Line, last)[n]
  <2> SUFFICES ASSUME NEW n \in 1..(Plans + 1) PROVE Line'[n] = Append(Line, last)[n]
    OBVIOUS
  <2>1. n \in 1..Plans \/ n = Plans + 1
    BY <1>1
  <2> QED BY <1>2, <1>4, <1>5, <2>1
<1> HIDE DEF last
<1> QED BY <1>2, <1>4, <1>6, SeqEqual DEF last

\* The creation founds the line.
LEMMA CreateRefines ==
  ASSUME MInv, MInv', Creates
  PROVE  Mandated!Next
<1>1. PICK who \in Principal, policy \in BOOLEAN, content \in Content :
        CreateProgram(who, policy, content)
  BY DEF Creates
<1>2. /\ Plans = 0 /\ Plans' = 1 /\ activePlan' \in PlanId
      /\ plans'[activePlan'].content = content
      /\ \A q \in Proposal : ~Exists(approvals[q]) /\ approvals'[q] = approvals[q]
      /\ allowReorder' = policy /\ now' = now /\ Created'
  BY <1>1, CreateFounds, PrincipalAssumption DEF MInv, CreateProgram, Created
<1>3. Line = <<>>
  BY <1>2, LineType, EmptySeq
<1>4. Line' = <<content>>
  <2>1. Line' \in Seq(Content) /\ Len(Line') = 1 /\ Line'[1] = content
    BY <1>2, LineTypeNext
  <2>2. <<content>> \in Seq(Content) /\ Len(<<content>>) = 1 /\ <<content>>[1] = content
    OBVIOUS
  <2>3. \A n \in 1..1 : Line'[n] = <<content>>[n]
    BY <2>1, <2>2
  <2> QED BY <2>1, <2>2, <2>3, SeqEqual
<1>5. \A q \in Proposal : MandateOf(q)' = MandateOf(q)
  BY <1>2 DEF MandateOf, Exists
<1>6. Mandates' = Mandates
  BY <1>5 DEF Mandates
<1>7. Mandated!Found(content, policy)
  BY <1>2, <1>3, <1>4, <1>6 DEF Mandated!Found, Line, Mandates
<1> QED BY <1>7 DEF Mandated!Next

\* An approval is a mandate for the plan it was asked for, a denial is nothing.
LEMMA DecideRefines ==
  ASSUME MInv, Decides
  PROVE  Mandated!Next \/ UNCHANGED Mandated!mandated
<1>1. PICK who \in Principal, expected \in Versions, p \in Proposal,
           verdict \in {"approve", "deny"} :
        DecideAllowed(expected, p) /\ Decide(who, p, verdict) /\ Decided(p, verdict)
  BY DecideRows DEF Decides, Issuers, MInv
<1>2. /\ UNCHANGED <<plans, activePlan, owner, allowReorder, now>>
      /\ now < approvals[p].expires /\ approvals[p].status = "pending"
      /\ approvals[p] \in ApprovalRow /\ Exists(approvals[p])
  BY <1>1 DEF Decide, DecideAllowed, Decided, Exists
<1>3. \A q \in Proposal : q # p => MandateOf(q)' = MandateOf(q)
  BY <1>1, <1>2, MandateStays DEF Decided, OnlyRowsOf
<1>4. MandateOf(p) = [state |-> "none"]
  BY <1>2 DEF MandateOf
<1>5. CASE verdict = "approve"
  <2> DEFINE at == plans[approvals[p].base].no
             to == approvals[p].diff.after
             until == approvals[p].expires
  <2>1. approvals'[p] = [approvals[p] EXCEPT !.status = "approved"]
    BY <1>1, <1>5 DEF Decided
  <2>2. MandateOf(p)' = [state |-> "open", at |-> at, to |-> to, until |-> until]
    BY <1>2, <2>1 DEF MandateOf, ApprovalRow
  <2>3. at \in 1..Len(Line)
    <3>1. approvals[p].base \in PlanId /\ Exists(plans[approvals[p].base])
      BY <1>2 DEF MInv, Timely, ApprovalRow
    <3>2. Created /\ at <= Plans /\ at \in Nat \ {0}
      BY <3>1, RowTypes DEF MInv, IInv, LinearHistory, Plans, PlanRow
    <3> QED BY <3>2, LineType
  <2>4. to \in Content
    BY <1>2 DEF ApprovalRow, DiffHash
  <2>5. until \in (now + 1)..(now + ApprovalTTL)
    BY <1>2, BoundAssumption DEF MInv, IInv, TypeOK, Timely, ApprovalRow
  <2>6. Mandates' = [Mandates EXCEPT ![p] = [state |-> "open", at |-> at, to |-> to, until |-> until]]
    BY <1>3, <2>2 DEF Mandates
  <2>7. Mandates[p] = Mandated!NoMandate
    BY <1>4 DEF Mandates, Mandated!NoMandate
  <2>8. UNCHANGED Line
    BY <1>2, LineStays
  <2> HIDE DEF at, to, until
  <2>9. Mandated!Allow(p, at, to, until)
    BY <1>2, <2>6, <2>7, <2>8 DEF Mandated!Allow, Line, Mandates
  <2> QED BY <2>3, <2>4, <2>5, <2>9 DEF Mandated!Next, Line
<1>6. CASE verdict = "deny"
  <2>1. approvals'[p].status = "denied"
    BY <1>1, <1>2, <1>6 DEF Decided, ApprovalRow
  <2>2. MandateOf(p)' = MandateOf(p)
    BY <1>4, <2>1 DEF MandateOf
  <2> QED BY <1>2, <1>3, <2>2, Invisible
<1> QED BY <1>5, <1>6

\* A high-risk application spends the mandate of its proposal on the plan it was
\* given for; a low-risk one is a reordering the owner allowed.
LEMMA ApplyRefines ==
  ASSUME MInv, MInv', Applies
  PROVE  Mandated!Next
<1>1. PICK expected \in Versions, base \in PlanId, p \in Proposal, d \in Decision \cup {Nil} :
        ApplyAllowed(expected, base, p, d) /\ Apply(base, p, d) /\ Applied(base, p, d)
  BY ApplyRows DEF Applies, MInv
<1>2. UNCHANGED <<owner, allowReorder, decisions, now>>
  BY <1>1 DEF Apply
<1>3. /\ Created /\ activePlan = base /\ Exists(plans[base])
      /\ Plans = plans[base].no /\ Plans \in Nat \ {0} /\ Plans' = Plans + 1
      /\ plans'[activePlan'] = AppliedPlan(base, p, d)
      /\ \A m \in PlanId : Exists(plans[m]) => plans'[m] = plans[m]
  BY <1>1, ApplyTakesPlace DEF MInv
<1> DEFINE added == ApplyChange(plans[base].content, proposals[p].change)
<1>4. Line' = Append(Line, added)
  <2>1. Created'
    BY <1>2, <1>3 DEF Created
  <2>2. plans'[activePlan'].content = added
    BY <1>3 DEF AppliedPlan
  <2> HIDE DEF added
  <2> QED BY <1>3, <2>1, <2>2, LineGrows
<1>5. /\ Len(Line) = Plans /\ Line[Plans] = plans[base].content
      /\ Line # <<>>
  BY <1>3, LineType, EmptySeq
<1>6. \A q \in Proposal : q # p => MandateOf(q)' = MandateOf(q)
  BY <1>1, <1>3, MandateStays DEF Applied, OnlyRowsOf
<1>7. CASE IsHigh(p)
  <2>1. /\ d \in Decision /\ DecisionAuthorises(d, p)
        /\ approvals[p] \in ApprovalRow /\ approvals[p].status = "approved"
        /\ approvals'[p] = [approvals[p] EXCEPT !.status = "consumed"]
    BY <1>1, <1>7 DEF Applied
  <2>2. approvals[p].base = base /\ approvals[p].diff = Diff(base, proposals[p].change)
    BY <1>1, <1>7 DEF MInv, IInv, StatusesAgree, ApprovalInStep, Applied
  <2>3. now < approvals[p].expires
    BY <2>1 DEF DecisionAuthorises, MInv, Timely
  <2>4. MandateOf(p) = [state |-> "open", at |-> Plans, to |-> added, until |-> approvals[p].expires]
    BY <1>3, <2>1, <2>2 DEF MandateOf, Diff
  <2>5. MandateOf(p)' = [state |-> "spent", at |-> Plans, to |-> added, until |-> approvals[p].expires]
    <3>1. /\ approvals'[p].status = "consumed" /\ approvals'[p].base = base
          /\ approvals'[p].diff = Diff(base, proposals[p].change)
          /\ approvals'[p].expires = approvals[p].expires
      BY <2>1, <2>2 DEF ApprovalRow
    <3>2. plans'[base].no = Plans
      BY <1>3
    <3> QED BY <3>1, <3>2 DEF MandateOf, Diff
  <2> HIDE DEF added
  <2>6. Mandates' = [Mandates EXCEPT ![p].state = "spent"]
    <3>1. MandateOf(p)' = [MandateOf(p) EXCEPT !.state = "spent"]
      BY <2>4, <2>5
    <3> QED BY <1>6, <3>1 DEF Mandates
  <2>7. /\ Mandates[p].state = "open" /\ Mandates[p].at = Len(Line)
        /\ now < Mandates[p].until /\ Line' = Append(Line, Mandates[p].to)
    BY <1>4, <1>5, <2>3, <2>4 DEF Mandates
  <2>8. Mandated!Enact(p)
    BY <1>2, <2>6, <2>7 DEF Mandated!Enact, Line, Mandates
  <2> QED BY <2>8 DEF Mandated!Next
<1>8. CASE ~IsHigh(p)
  <2>1. /\ allowReorder /\ proposals[p].risk = "low" /\ proposals[p] \in ProposalRow
        /\ Exists(proposals[p]) /\ approvals'[p] = approvals[p]
    BY <1>1, <1>8 DEF Applied
  <2>2. proposals[p].change.kind = "reorder_tasks" /\ proposals[p].change \in Change
    BY <2>1 DEF MInv, IInv, ProposalsSound, ProposalSound, ProposalRow
  <2> DEFINE order == proposals[p].change.to
  <2>3. order \in Order
    BY <1>1, <2>2 DEF ApplyAllowed, Applicable, Change
  <2>4. added = [plans[base].content EXCEPT !.order = order]
    BY <2>2 DEF ApplyChange
  <2>5. Mandates' = Mandates
    BY <1>3, <1>6, <2>1, MandateStays DEF Mandates
  <2> HIDE DEF added, order
  <2>6. Line' = Append(Line, [Line[Len(Line)] EXCEPT !.order = order])
    BY <1>4, <1>5, <2>4
  <2>7. Mandated!Reorder(order)
    BY <1>2, <1>5, <2>1, <2>5, <2>6 DEF Mandated!Reorder, Line, Mandates
  <2> QED BY <2>3, <2>7 DEF Mandated!Next
<1> QED BY <1>7, <1>8

\* Submissions and expiries give, spend and change no mandate.
LEMMA OthersAreInvisible ==
  ASSUME MInv, [Next]_vars, Submits \/ Expires \/ Rejects \/ UNCHANGED vars
  PROVE  UNCHANGED Mandated!mandated
<1>1. /\ UNCHANGED <<plans, activePlan, owner, allowReorder, now>>
  BY DEF vars, program, Submits, Submit, Expires, Expire, Rejects, Reject
<1>2. CASE Submits
  <2>1. PICK base \in PlanId, change \in Change, p \in Proposal : Submitted(base, change, p)
    BY <1>2, SubmitRows DEF Submits, MInv
  <2>2. ~Exists(approvals[p])
    BY <2>1 DEF Submitted, MInv, IInv, StatusesAgree, ApprovalInStep, IsHigh
  <2>3. approvals'[p].status \notin {"approved", "consumed"}
    BY <2>1, <2>2 DEF Submitted, Exists
  <2>4. MandateOf(p)' = MandateOf(p)
    BY <2>2, <2>3 DEF MandateOf, Exists
  <2>5. \A q \in Proposal : q # p => MandateOf(q)' = MandateOf(q)
    BY <1>1, <2>1, MandateStays DEF Submitted, OnlyRowsOf
  <2> QED BY <1>1, <2>4, <2>5, Invisible
<1>3. CASE Expires
  <2>1. PICK p \in Proposal : Expired(p)
    BY <1>3, ExpireRows DEF Expires, MInv
  <2>2. approvals[p].status = "pending" /\ approvals'[p].status = "expired"
    BY <2>1 DEF Expired, ApprovalRow
  <2>3. MandateOf(p)' = MandateOf(p)
    BY <2>2 DEF MandateOf
  <2>4. \A q \in Proposal : q # p => MandateOf(q)' = MandateOf(q)
    BY <1>1, <2>1, MandateStays DEF Expired, OnlyRowsOf
  <2> QED BY <1>1, <2>3, <2>4, Invisible
<1>4. CASE Rejects \/ UNCHANGED vars
  <2>1. \A q \in Proposal : MandateOf(q)' = MandateOf(q)
    BY <1>1, <1>4, MandateStays DEF Rejects, Reject, vars
  <2> QED BY <1>1, <2>1, Invisible
<1> QED BY <1>2, <1>3, <1>4

\* Time passes.
LEMMA TickRefines ==
  ASSUME MInv, Tick
  PROVE  Mandated!Next
<1>1. /\ UNCHANGED <<plans, activePlan, owner, allowReorder, approvals>> /\ now' = now + 1
  BY DEF Tick, program
<1>2. UNCHANGED Line
  BY <1>1, LineStays
<1>3. UNCHANGED Mandates
  BY <1>1, MandateStays DEF Mandates
<1>4. Mandated!Pass
  BY <1>1, <1>2, <1>3 DEF Mandated!Pass, Line, Mandates
<1> QED BY <1>4 DEF Mandated!Next

\* The State Service implements MandatedPlan: for any principals, competing
\* proposals, expiries and restores, the plans of a Program are one line that
\* grows by the owner's mandates, each for one plan and one change, spent once
\* and in time, and by the reorderings the owner allowed
\* (_record_human_decision, _apply_proposal).
THEOREM PlanAlwaysMandated == Spec => PlanIsMandated
<1>1. Init => Mandated!Init
  <2> SUFFICES ASSUME Init PROVE Mandated!Init
    OBVIOUS
  <2>1. Plans = 0 /\ MInv
    BY MandateInit
  <2>2. Line = <<>>
    BY <2>1, LineType, EmptySeq
  <2>3. Mandates = [p \in Proposal |-> Mandated!NoMandate]
    BY DEF Init, Mandates, MandateOf, Mandated!NoMandate, Absent
  <2> QED BY <2>2, <2>3 DEF Init, Mandated!Init, Line, Mandates
<1>2. MInv /\ MInv' /\ [Next]_vars => [Mandated!Next]_(Mandated!mandated)
  <2> SUFFICES ASSUME MInv, MInv', [Next]_vars
               PROVE  Mandated!Next \/ UNCHANGED Mandated!mandated
    OBVIOUS
  <2> QED BY StepCases, CreateRefines, DecideRefines, ApplyRefines, OthersAreInvisible,
             TickRefines
<1> QED BY <1>1, <1>2, MandateInvariant, PTL DEF Spec, PlanIsMandated, Mandated!Spec

=============================================================================
