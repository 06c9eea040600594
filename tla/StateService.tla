---------------------------- MODULE StateService ----------------------------
(***************************************************************************)
(* The authoritative M2 State Service of one Program                       *)
(* (src/src/awakening/state/service.py over state/database.py).            *)
(*                                                                         *)
(* Every command runs in one PostgreSQL transaction that holds the row     *)
(* lock of its Program from lock_program to the end, so a command is one   *)
(* step here; CommandTransactions justifies that at the level of the       *)
(* locks.  A command that breaks a business rule ends as a receipt with    *)
(* status "rejected"; one whose compare-and-set or constraint fails is     *)
(* rolled back and leaves nothing.  The reason code of a rejection is left *)
(* out, and with it the order of the checks: they all end the same way.    *)
(***************************************************************************)
EXTENDS Naturals, FiniteSets

CONSTANTS
  Principal,      \* trusted principals
  TypeOf,         \* principal -> "user" | "agent" | "service" | "system"
  BootstrapRole,  \* principal -> program role given at creation, or Nil
  Key,            \* idempotency keys
  Proposal,       \* proposal ids; the approval of a proposal has its id
  Decision,       \* human decision ids
  PlanId,         \* plan version ids
  Order,          \* orderings of the plan's tasks
  Body,           \* the rest of a plan: role, project, duration, rubric
  ApprovalTTL,    \* lifetime of an approval request
  MaxTime,        \* bound on the database clock
  MaxRejected,    \* bound on rejected receipts
  Nil             \* SQL NULL, and a task list that is no ordering

Roles == {"owner", "collaborator", "service"}
Channels == {"web", "mcp", "internal"}

ASSUME PrincipalAssumption ==
  /\ TypeOf \in [Principal -> {"user", "agent", "service", "system"}]
  /\ BootstrapRole \in [Principal -> Roles \cup {Nil}]
  /\ Nil \notin Principal

ASSUME IdAssumption ==
  /\ Nil \notin PlanId /\ Nil \notin Proposal /\ Nil \notin Decision
  /\ Nil \notin Order /\ Nil \notin Roles

ASSUME BoundAssumption ==
  /\ ApprovalTTL \in Nat \ {0}
  /\ MaxTime \in Nat
  /\ MaxRejected \in Nat

VARIABLES
  stateVersion,  \* programs.state_version
  activePlan,    \* programs.active_plan_version_id
  owner,         \* programs.owner_principal_id, Nil before creation
  allowReorder,  \* programs.auto_change_policy.allow_reorder_tasks
  plans,         \* plan_versions with their tasks
  proposals,     \* state_change_proposals
  approvals,     \* approval_requests
  decisions,     \* human_decisions
  receipts,      \* command_receipts, by idempotency key
  events,        \* domain_events, each with its outbox event
  now            \* clock_timestamp() of the database

program == <<stateVersion, activePlan, owner, allowReorder>>
vars == <<program, plans, proposals, approvals, decisions, receipts, events, now>>

----------------------------------------------------------------------------
(* Rows *)

Content == [order: Order, body: Body]

\* change_target_role, replace_core_project, change_duration and
\* change_rubric each write one field of the body: "edit_plan".
Change == [kind: {"reorder_tasks"}, to: Order \cup {Nil}]
            \cup [kind: {"edit_plan"}, to: Body]
            \cup [kind: {"restore_plan"}, to: PlanId]

\* The fields hashed into diff_hash.
DiffHash == [kind: {"reorder_tasks", "edit_plan", "restore_plan"}, base: PlanId,
             before: Content, after: Content]

Absent == [status |-> "absent"]

PlanRow == [status: {"present"}, no: Nat \ {0}, previous: PlanId \cup {Nil},
            proposal: Proposal \cup {Nil}, decision: Decision \cup {Nil},
            risk: {"bootstrap", "low", "high"}, content: Content,
            restoredFrom: PlanId \cup {Nil}, createdAt: Nat]

ProposalRow == [status: {"pending", "approval_required", "approved", "denied",
                         "expired", "applied"},
                base: PlanId, change: Change, risk: {"low", "high"},
                diff: DiffHash]

ApprovalRow == [status: {"pending", "approved", "denied", "expired", "consumed"},
                base: PlanId, diff: DiffHash, expires: Nat]

DecisionRow == [status: {"present"}, proposal: Proposal, base: PlanId,
                diff: DiffHash, verdict: {"approve", "deny"}, by: Principal,
                decidedAt: Nat, expires: Nat]

ReceiptRow == [status: {"committed", "rejected"}, version: Nat]

EventType == {"program.created", "state.proposal.submitted",
              "human.decision.recorded", "plan.version.created",
              "plan.version.compensated", "approval.expired"}

EventRow == [version: Nat \ {0}, type: EventType, command: Key]

Exists(row) == row.status # "absent"

\* uuid4() for a new row, and the unused idempotency key of a new request.
HasFresh(rows) == \E i \in DOMAIN rows : ~Exists(rows[i])
Fresh(rows) == CHOOSE i \in DOMAIN rows : ~Exists(rows[i])

----------------------------------------------------------------------------
(* Authorization *)

Created == owner # Nil

\* The channel and principal type each command accepts.
Entrypoint(command, channel, type) ==
  CASE command \in {"program.create", "human_decision.record"} ->
         channel = "web" /\ type = "user"
    [] command = "approval.expire" ->
         channel = "internal" /\ type \in {"service", "system"}
    [] OTHER -> \/ channel = "web" /\ type = "user"
                \/ channel = "mcp" /\ type = "agent"
                \/ channel = "internal" /\ type = "service"

\* The creator is the owner; every other bootstrap member keeps its role.
RoleOf(who) == IF who = owner THEN "owner" ELSE BootstrapRole[who]

\* Mutant: every member may record a decision.
IssuersOfAnyRole(command) ==
  {who \in Principal :
     /\ \E channel \in Channels : Entrypoint(command, channel, TypeOf[who])
     /\ Created
     /\ RoleOf(who) # Nil}

\* The principals that may issue a command through some channel.  Only a
\* decision and a creation record who issued them.
Issuers(command) ==
  {who \in Principal :
     /\ \E channel \in Channels : Entrypoint(command, channel, TypeOf[who])
     /\ Created
     /\ RoleOf(who) # Nil
     /\ command = "human_decision.record" => RoleOf(who) = "owner"}

----------------------------------------------------------------------------
(* Changes to a plan *)

\* Mutant: a restore brings back the body but keeps the current order.
ApplyChangeRestoringBody(base, change) ==
  CASE change.kind = "reorder_tasks" -> [base EXCEPT !.order = change.to]
    [] change.kind = "edit_plan"     -> [base EXCEPT !.body = change.to]
    [] change.kind = "restore_plan"  -> [base EXCEPT !.body = plans[change.to].content.body]

ApplyChange(base, change) ==
  CASE change.kind = "reorder_tasks" -> [base EXCEPT !.order = change.to]
    [] change.kind = "edit_plan"     -> [base EXCEPT !.body = change.to]
    [] change.kind = "restore_plan"  -> plans[change.to].content

\* A reordering names every task exactly once; a restored plan exists.
Applicable(change) ==
  /\ change.kind = "reorder_tasks" => change.to # Nil
  /\ change.kind = "restore_plan" => Exists(plans[change.to])

Diff(base, change) ==
  [kind |-> change.kind, base |-> base, before |-> plans[base].content,
   after |-> ApplyChange(plans[base].content, change)]

IsLow(change) == change.kind = "reorder_tasks" /\ allowReorder

----------------------------------------------------------------------------
(* The end of a command *)

\* Mutant: the event is stamped with the version before the command.
CommitStampingEarly(type) ==
  LET k == Fresh(receipts)
      v == stateVersion + 1
  IN /\ stateVersion' = v
     /\ receipts' = [receipts EXCEPT ![k] = [status |-> "committed", version |-> v]]
     /\ events' = events \cup {[version |-> v - 1, type |-> type, command |-> k]}

\* commit_state_change: the version moves by one, the event and its outbox
\* row are written and the receipt is finalized, all in the transaction.
Commit(type) ==
  LET k == Fresh(receipts)
      v == stateVersion + 1
  IN /\ stateVersion' = v
     /\ receipts' = [receipts EXCEPT ![k] = [status |-> "committed", version |-> v]]
     /\ events' = events \cup {[version |-> v, type |-> type, command |-> k]}

\* Mutant: the rejected receipt is left unfinalized.
RejectLeavingProcessing ==
  /\ receipts' = [receipts EXCEPT ![Fresh(receipts)] =
                    [status |-> "processing", version |-> stateVersion]]
  /\ UNCHANGED <<program, plans, proposals, approvals, decisions, events, now>>

\* reject_reserved_command: only the receipt is kept.
Reject ==
  /\ Cardinality({k \in Key : receipts[k].status = "rejected"}) < MaxRejected
  /\ receipts' = [receipts EXCEPT ![Fresh(receipts)] =
                    [status |-> "rejected", version |-> stateVersion]]
  /\ UNCHANGED <<program, plans, proposals, approvals, decisions, events, now>>

\* reserve_command_receipt on a key that is already bound: the stored result
\* is replayed, or the reuse is refused.  Nothing is written either way.
AnswerFromReceipt(k) == Exists(receipts[k]) /\ UNCHANGED vars

----------------------------------------------------------------------------
(* Commands *)

\* A second creation violates the primary key of programs and rolls back.
CreateProgram(who, policy, content) ==
  /\ \E channel \in Channels : Entrypoint("program.create", channel, TypeOf[who])
  /\ ~Created
  /\ HasFresh(receipts) /\ HasFresh(plans)
  /\ LET l == Fresh(plans)
     IN /\ plans' = [plans EXCEPT ![l] =
                       [status |-> "present", no |-> 1, previous |-> Nil,
                        proposal |-> Nil, decision |-> Nil, risk |-> "bootstrap",
                        content |-> content, restoredFrom |-> Nil, createdAt |-> now]]
        /\ activePlan' = l
  /\ owner' = who
  /\ allowReorder' = policy
  /\ Commit("program.created")
  /\ UNCHANGED <<proposals, approvals, decisions, now>>

\* A client sends any ids, and the current version or a wrong one (to
\* lock_program all wrong versions are alike).
Versions == {stateVersion, stateVersion + 1}

SubmitAllowed(expected, base, change) ==
  /\ expected = stateVersion
  /\ base = activePlan
  /\ Applicable(change)

Submit(base, change) ==
  /\ HasFresh(proposals)
  /\ LET p == Fresh(proposals)
     IN /\ proposals' = [proposals EXCEPT ![p] =
             [status |-> IF IsLow(change) THEN "pending" ELSE "approval_required",
              base |-> base, change |-> change,
              risk |-> IF IsLow(change) THEN "low" ELSE "high",
              diff |-> Diff(base, change)]]
        /\ approvals' = IF IsLow(change) THEN approvals
             ELSE [approvals EXCEPT ![p] =
                     [status |-> "pending", base |-> base,
                      diff |-> Diff(base, change), expires |-> now + ApprovalTTL]]
  /\ Commit("state.proposal.submitted")
  /\ UNCHANGED <<activePlan, owner, allowReorder, plans, decisions, now>>

SubmitProposal ==
  /\ Issuers("state.proposal.submit") # {}
  /\ HasFresh(receipts)
  /\ \E expected \in Versions, base \in PlanId, change \in Change :
       IF SubmitAllowed(expected, base, change) THEN Submit(base, change) ELSE Reject

\* Mutant: the owner may decide again until the proposal is applied.
DecideAgainAllowed(expected, p) ==
  /\ expected = stateVersion
  /\ approvals[p].status \in {"pending", "approved", "denied"}
  /\ now < approvals[p].expires

DecideAllowed(expected, p) ==
  /\ expected = stateVersion
  /\ approvals[p].status = "pending"
  /\ now < approvals[p].expires
  /\ proposals[p].status = "approval_required"

Decide(who, p, verdict) ==
  /\ HasFresh(decisions)
  /\ decisions' = [decisions EXCEPT ![Fresh(decisions)] =
       [status |-> "present", proposal |-> p, base |-> approvals[p].base,
        diff |-> approvals[p].diff, verdict |-> verdict, by |-> who,
        decidedAt |-> now, expires |-> approvals[p].expires]]
  /\ LET outcome == IF verdict = "approve" THEN "approved" ELSE "denied"
     IN /\ approvals' = [approvals EXCEPT ![p].status = outcome]
        /\ proposals' = [proposals EXCEPT ![p].status = outcome]
  /\ Commit("human.decision.recorded")
  /\ UNCHANGED <<activePlan, owner, allowReorder, plans, now>>

RecordHumanDecision ==
  /\ HasFresh(receipts)
  /\ \E who \in Issuers("human_decision.record"), expected \in Versions,
        p \in Proposal, verdict \in {"approve", "deny"} :
       IF DecideAllowed(expected, p) THEN Decide(who, p, verdict) ELSE Reject

\* A HumanDecision authorises p if it approves exactly p's change to exactly
\* p's base, is not expired, and its approval has not been consumed.
DecisionAuthorises(d, p) ==
  /\ d # Nil
  /\ Exists(decisions[d])
  /\ decisions[d].verdict = "approve"
  /\ decisions[d].proposal = p
  /\ decisions[d].base = proposals[p].base
  /\ decisions[d].diff = proposals[p].diff
  /\ now < decisions[d].expires
  /\ approvals[decisions[d].proposal].status = "approved"

\* Mutant: the active plan is not compared with the base.
ApplyAllowedOnAnyPlan(expected, base, p, d) ==
  /\ expected = stateVersion
  /\ Exists(proposals[p])
  /\ proposals[p].status # "applied"
  /\ proposals[p].base = base
  /\ IF proposals[p].risk = "high" THEN DecisionAuthorises(d, p)
                                  ELSE d = Nil /\ allowReorder

\* Mutant: the active plan is compared with the base by content.
ApplyAllowedOnSameContent(expected, base, p, d) ==
  /\ expected = stateVersion
  /\ Exists(proposals[p])
  /\ proposals[p].status # "applied"
  /\ proposals[p].base = base
  /\ plans[activePlan].content = plans[base].content
  /\ IF proposals[p].risk = "high" THEN DecisionAuthorises(d, p)
                                  ELSE d = Nil /\ allowReorder

ApplyAllowed(expected, base, p, d) ==
  /\ expected = stateVersion
  /\ Exists(proposals[p])
  /\ proposals[p].status # "applied"
  /\ proposals[p].base = base
  /\ activePlan = base
  /\ Applicable(proposals[p].change)
  /\ proposals[p].diff = Diff(base, proposals[p].change)
  /\ IF proposals[p].risk = "high" THEN DecisionAuthorises(d, p)
                                  ELSE d = Nil /\ allowReorder

\* The status update_proposal_status compares with; a mismatch rolls back.
ApplyExpectedStatus(p) == IF proposals[p].risk = "high" THEN "approved" ELSE "pending"

Apply(base, p, d) ==
  /\ proposals[p].status = ApplyExpectedStatus(p)
  /\ HasFresh(plans)
  /\ LET l == Fresh(plans)
         change == proposals[p].change
         isRestore == change.kind = "restore_plan"
     IN /\ plans' = [plans EXCEPT ![l] =
             [status |-> "present", no |-> plans[base].no + 1,
              previous |-> base, proposal |-> p, decision |-> d,
              risk |-> proposals[p].risk,
              content |-> ApplyChange(plans[base].content, change),
              restoredFrom |-> IF isRestore THEN change.to ELSE Nil,
              createdAt |-> now]]
        /\ activePlan' = l
        /\ Commit(IF isRestore THEN "plan.version.compensated"
                                ELSE "plan.version.created")
  /\ proposals' = [proposals EXCEPT ![p].status = "applied"]
  /\ approvals' = IF d = Nil THEN approvals
       ELSE [approvals EXCEPT ![decisions[d].proposal].status = "consumed"]
  /\ UNCHANGED <<owner, allowReorder, decisions, now>>

ApplyProposal ==
  /\ Issuers("state.proposal.apply") # {}
  /\ HasFresh(receipts)
  /\ \E expected \in Versions, base \in PlanId, p \in Proposal,
        d \in Decision \cup {Nil} :
       IF ApplyAllowed(expected, base, p, d) THEN Apply(base, p, d) ELSE Reject

\* Mutant: an approved request may expire too.
ExpireApprovedAllowed(expected, p) ==
  /\ expected = stateVersion
  /\ approvals[p].status \in {"pending", "approved"}
  /\ now >= approvals[p].expires

ExpireAllowed(expected, p) ==
  /\ expected = stateVersion
  /\ approvals[p].status = "pending"
  /\ now >= approvals[p].expires

Expire(p) ==
  /\ proposals[p].status = "approval_required"
  /\ approvals' = [approvals EXCEPT ![p].status = "expired"]
  /\ proposals' = [proposals EXCEPT ![p].status = "expired"]
  /\ Commit("approval.expired")
  /\ UNCHANGED <<activePlan, owner, allowReorder, plans, decisions, now>>

ExpireApproval ==
  /\ Issuers("approval.expire") # {}
  /\ HasFresh(receipts)
  /\ \E expected \in Versions, p \in Proposal :
       IF ExpireAllowed(expected, p) THEN Expire(p) ELSE Reject

\* The database clock.
Tick == /\ now < MaxTime
        /\ now' = now + 1
        /\ UNCHANGED <<program, plans, proposals, approvals, decisions, receipts, events>>

----------------------------------------------------------------------------
Init ==
  /\ stateVersion = 0
  /\ activePlan = Nil
  /\ owner = Nil
  /\ allowReorder = FALSE
  /\ plans = [l \in PlanId |-> Absent]
  /\ proposals = [p \in Proposal |-> Absent]
  /\ approvals = [p \in Proposal |-> Absent]
  /\ decisions = [d \in Decision |-> Absent]
  /\ receipts = [k \in Key |-> Absent]
  /\ events = {}
  /\ now = 0

Next ==
  \/ \E who \in Principal, policy \in BOOLEAN, content \in Content :
       CreateProgram(who, policy, content)
  \/ SubmitProposal
  \/ RecordHumanDecision
  \/ ApplyProposal
  \/ ExpireApproval
  \/ \E k \in Key : AnswerFromReceipt(k)
  \/ Tick

Spec == Init /\ [][Next]_vars

----------------------------------------------------------------------------
(* Properties *)

TypeOK ==
  /\ stateVersion \in Nat
  /\ activePlan \in PlanId \cup {Nil}
  /\ owner \in Principal \cup {Nil}
  /\ allowReorder \in BOOLEAN
  /\ plans \in [PlanId -> PlanRow \cup {Absent}]
  /\ proposals \in [Proposal -> ProposalRow \cup {Absent}]
  /\ approvals \in [Proposal -> ApprovalRow \cup {Absent}]
  /\ decisions \in [Decision -> DecisionRow \cup {Absent}]
  /\ receipts \in [Key -> ReceiptRow \cup {Absent}]
  /\ events \subseteq EventRow
  /\ now \in Nat

\* The plans of a Program form one line: numbered from 1 without gap or
\* duplicate, each one based on the plan that was active when it was applied,
\* the active plan last.  No applied change is lost or overtaken, whatever
\* proposals competed for the same base (_apply_proposal).
LinearHistory ==
  /\ Created <=> activePlan # Nil
  /\ Created => Exists(plans[activePlan])
  /\ \A l \in PlanId : Exists(plans[l]) =>
       /\ Created
       /\ plans[l].no <= plans[activePlan].no
       /\ \A m \in PlanId : Exists(plans[m]) /\ plans[m].no = plans[l].no => m = l
       /\ IF plans[l].previous = Nil
          THEN plans[l].no = 1
          ELSE /\ Exists(plans[plans[l].previous])
               /\ plans[l].no = plans[plans[l].previous].no + 1

\* A decision d stands behind plan l if a user with the owner role approved,
\* before the approval expired, exactly the change from l's predecessor to l,
\* and l was created before that deadline too.
StandsBehind(d, l) ==
  /\ Exists(decisions[d])
  /\ decisions[d].verdict = "approve"
  /\ RoleOf(decisions[d].by) = "owner" /\ TypeOf[decisions[d].by] = "user"
  /\ decisions[d].proposal = plans[l].proposal
  /\ decisions[d].diff.base = plans[l].previous
  /\ decisions[d].diff.before = plans[plans[l].previous].content
  /\ decisions[d].diff.after = plans[l].content
  /\ decisions[d].decidedAt <= plans[l].createdAt
  /\ plans[l].createdAt < decisions[d].expires

\* Nothing but the order of the tasks ever changes without such a decision,
\* and the order only without one if the owner's policy allowed it at
\* creation: the promise of the approval flow as a whole (_submit_proposal,
\* _record_human_decision, _apply_proposal).
OwnerControlsPlan ==
  \A l \in PlanId : Exists(plans[l]) /\ plans[l].previous # Nil =>
    \/ \E d \in Decision : StandsBehind(d, l)
    \/ /\ allowReorder
       /\ plans[l].content.body = plans[plans[l].previous].content.body

\* An approval is spent at most once: no two plans come from one proposal or
\* one decision, an approval is consumed exactly when a plan came from its
\* proposal, and no approval ever has two decisions (_apply_proposal,
\* _record_human_decision).
ApprovalSpentOnce ==
  /\ \A l, m \in PlanId :
       /\ Exists(plans[l]) /\ Exists(plans[m]) /\ l # m
       /\ plans[l].proposal # Nil
       => /\ plans[l].proposal # plans[m].proposal
          /\ plans[l].decision # Nil => plans[l].decision # plans[m].decision
  /\ \A p \in Proposal :
       (approvals[p].status = "consumed") <=>
         \E l \in PlanId : /\ Exists(plans[l])
                           /\ plans[l].proposal = p
                           /\ plans[l].risk = "high"
  /\ \A c, d \in Decision :
       Exists(decisions[c]) /\ Exists(decisions[d])
         /\ decisions[c].proposal = decisions[d].proposal => c = d

\* Once the checks of a command have passed, its compare-and-set cannot fail:
\* the TRANSACTION_ABORTED of _cas_status is unreachable, because the status
\* of a proposal always follows the status of its approval.
ChecksImplyCas ==
  \A p \in Proposal :
    /\ ExpireAllowed(stateVersion, p) => proposals[p].status = "approval_required"
    /\ \A d \in Decision \cup {Nil} :
         ApplyAllowed(stateVersion, activePlan, p, d)
           => proposals[p].status = ApplyExpectedStatus(p)

\* Every version of the Program has exactly one event, written by exactly one
\* committed command, and every committed command moved the version once
\* (commit_state_change).
OneCommandPerVersion ==
  /\ \A v \in 1..stateVersion : \E e \in events : e.version = v
  /\ \A e \in events :
       /\ e.version <= stateVersion
       /\ receipts[e.command] = [status |-> "committed", version |-> e.version]
       /\ \A f \in events : f.version = e.version \/ f.command = e.command => f = e
  /\ \A k \in Key : receipts[k].status = "committed"
       => \E e \in events : e.command = k

\* A restored plan is a new version with exactly the content of its target,
\* applied with a decision of the owner whatever the policy (restore_plan in
\* _apply_change and _submit_proposal).
RestoreIsExact ==
  \A l \in PlanId : Exists(plans[l]) /\ plans[l].restoredFrom # Nil =>
    /\ Exists(plans[plans[l].restoredFrom])
    /\ plans[l].content = plans[plans[l].restoredFrom].content
    /\ plans[plans[l].restoredFrom].no < plans[l].no
    /\ plans[l].risk = "high"

\* A proposal whose base is no longer the active plan is dead for good, even
\* if a later restore_plan brings the very same content back: a restored plan
\* is a new version (_apply_proposal).
StaleProposalStaysDead ==
  [][\A p \in Proposal :
       /\ Exists(proposals[p])
       /\ proposals[p].base # activePlan
       => (proposals[p].status = "applied") = (proposals'[p].status = "applied")]_vars

\* Final statuses are final, and recorded plans, decisions, events and receipts
\* are never rewritten.
Settled(status) == status \in {"denied", "expired", "applied", "consumed"}

HistoryKept ==
  [][/\ \A p \in Proposal :
          /\ Settled(proposals[p].status) => proposals'[p] = proposals[p]
          /\ Settled(approvals[p].status) => approvals'[p] = approvals[p]
     /\ \A l \in PlanId : Exists(plans[l]) => plans'[l] = plans[l]
     /\ \A d \in Decision : Exists(decisions[d]) => decisions'[d] = decisions[d]
     /\ \A k \in Key : Exists(receipts[k]) => receipts'[k] = receipts[k]
     /\ events \subseteq events']_vars

----------------------------------------------------------------------------
(* Refinement *)

\* The plan in place n of the history, and how many there are.
PlanAt(n) == CHOOSE l \in PlanId : Exists(plans[l]) /\ plans[l].no = n
Plans == IF Created THEN plans[activePlan].no ELSE 0

\* An approval given and not consumed is an open mandate for the plan it was
\* asked for.
MandateOf(p) ==
  IF approvals[p].status \in {"approved", "consumed"}
  THEN [state |-> IF approvals[p].status = "approved" THEN "open" ELSE "spent",
        at |-> plans[approvals[p].base].no,
        to |-> approvals[p].diff.after,
        until |-> approvals[p].expires]
  ELSE [state |-> "none"]

Mandated == INSTANCE MandatedPlan WITH
  Lifetime <- ApprovalTTL,
  line <- [n \in 1..Plans |-> plans[PlanAt(n)].content],
  mandate <- [p \in Proposal |-> MandateOf(p)],
  reorders <- allowReorder

\* To an owner who sees only plans, approvals and the time, every command is the
\* founding of the line, one mandate given, one mandate spent on the very plan it
\* was given for, one permitted reordering, or nothing: versions, receipts,
\* competing proposals, expiries and restores leave no other trace.
PlanIsMandated == Mandated!Spec

=============================================================================
