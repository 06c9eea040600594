--------------------------- MODULE EvidenceIngest ---------------------------
(***************************************************************************)
(* Evidence ingest jobs of one Program                                     *)
(* (src/src/awakening/state/m3/service.py over state/m3/database.py).      *)
(*                                                                         *)
(* A user or agent creates a job; the outbox tells the ingestion services, *)
(* any of which may claim it on the strength of that event, and finalizes  *)
(* it with a receipt or rejects it.  Services are told more than once, act *)
(* on what they read earlier and may die holding a claim, so a command     *)
(* comes with any event, job version and claim that ever existed.  Each is *)
(* one step (CommandTransactions); one that fails a check writes only its  *)
(* rejected receipt and is left out, but what a command wrote before it    *)
(* failed is committed with the rejection.                                 *)
(***************************************************************************)
EXTENDS Naturals, Sequences, FiniteSets

CONSTANTS
  Job,      \* job ids, in place of uuid4
  Content,  \* uploaded contents, up to sha256
  NoClaim   \* the NULL claim_id of a job

\* derive_claim_id, derive_receipt_id and derive_evidence_item_id hash their
\* arguments: ids are equal when the arguments are.
ClaimId(j, e) == <<j, e>>
ClaimIds == Job \X (Nat \ {0})

ASSUME IngestAssumption == NoClaim \notin ClaimIds

VARIABLES
  jobs,      \* evidence_ingest_jobs
  receipts,  \* evidence_ingestion_receipts
  items,     \* evidence_items
  events     \* the outbox: the event of every committed command, in order

ingest == <<jobs, receipts, items, events>>

JobRow ==
  [status : {"absent", "created", "claimed", "finalized", "rejected"},
   version : 0..3, claim : ClaimIds \cup {NoClaim}]

Receipt == [job : Job, claim : ClaimIds, content : Content]

Event ==
  [type : {"requested", "claimed", "item.created", "rejected"}, job : Job, version : 1..3]

Absent == [status |-> "absent", version |-> 0, claim |-> NoClaim]

----------------------------------------------------------------------------

\* The WHERE clause of every job update.
CanMove(j, from, v) == jobs[j].status = from /\ jobs[j].version = v

\* Mutant: the event reports the version the command expected.
MoveReportingOldVersion(j, to, claim, type) ==
  /\ jobs' = [jobs EXCEPT ![j] = [status |-> to, version |-> @.version + 1, claim |-> claim]]
  /\ events' = Append(events, [type |-> type, job |-> j, version |-> jobs[j].version])

\* A job moves on, with one more version and one event that reports it.
Move(j, to, claim, type) ==
  /\ jobs' = [jobs EXCEPT ![j] = [status |-> to, version |-> @.version + 1, claim |-> claim]]
  /\ events' = Append(events, [type |-> type, job |-> j, version |-> jobs[j].version + 1])

CreateIngestJob(j) ==
  /\ jobs[j] = Absent
  /\ Move(j, "created", NoClaim, "requested")
  /\ UNCHANGED <<receipts, items>>

\* Mutant: the request of any job will do.
RequestedForAnyJob(j, e, v) ==
  e \in DOMAIN events /\ events[e].type = "requested" /\ events[e].version = v

\* get_committed_ingest_request: event e asks for job j at version v.
Requested(j, e, v) ==
  e \in DOMAIN events /\ events[e] = [type |-> "requested", job |-> j, version |-> v]

ClaimIngestJob(j, e, v) ==
  /\ Requested(j, e, v)
  /\ CanMove(j, "created", v)
  /\ Move(j, "claimed", ClaimId(j, e), "claimed")
  /\ UNCHANGED <<receipts, items>>

\* Mutant: the version is left to the update that follows.
ClaimedInAnyVersion(j, v, claim) == jobs[j].status = "claimed" /\ jobs[j].claim = claim

\* _require_claimed_job and the claim binding of receipt and rejection.
Claimed(j, v, claim) ==
  jobs[j].status = "claimed" /\ jobs[j].version = v /\ jobs[j].claim = claim

\* register_receipt_and_item_if_absent: a second receipt of a job must be the
\* one it has, or the transaction is rolled back.
Registrable(r) == \A s \in receipts : s.job = r.job => s = r /\ r \in items

\* The receipt and the item are written before the job is updated; if the
\* update finds nothing, the rejection is committed with both in place.
FinalizeIngestJob(j, v, claim, content) ==
  LET r == [job |-> j, claim |-> claim, content |-> content]
  IN /\ Claimed(j, v, claim)
     /\ Registrable(r)
     /\ receipts' = receipts \cup {r}
     /\ items' = items \cup {r}
     /\ IF CanMove(j, "claimed", v)
        THEN Move(j, "finalized", claim, "item.created")
        ELSE UNCHANGED <<jobs, events>>

RejectIngestJob(j, v, claim) ==
  /\ Claimed(j, v, claim)
  /\ CanMove(j, "claimed", v)
  /\ Move(j, "rejected", claim, "rejected")
  /\ UNCHANGED <<receipts, items>>

IngestInit ==
  /\ jobs = [j \in Job |-> Absent]
  /\ receipts = {} /\ items = {}
  /\ events = <<>>

\* The claims and events a service may have heard of.
Known == {ClaimId(j, e) : j \in Job, e \in DOMAIN events}

IngestNext ==
  \E j \in Job :
    \/ CreateIngestJob(j)
    \/ \E v \in 1..3 :
         \/ \E e \in DOMAIN events : ClaimIngestJob(j, e, v)
         \/ \E claim \in Known :
              \/ \E content \in Content : FinalizeIngestJob(j, v, claim, content)
              \/ RejectIngestJob(j, v, claim)

IngestSpec == IngestInit /\ [][IngestNext]_ingest

----------------------------------------------------------------------------
(* Properties *)

IngestTypeOK ==
  /\ jobs \in [Job -> JobRow]
  /\ receipts \subseteq Receipt
  /\ items \subseteq Receipt
  /\ events \in Seq(Event)

\* Evidence exists exactly for the finalized jobs, one item with its receipt
\* each, under the claim the job was finalized with: no failed or repeated
\* finalization leaves any behind (the writes of _finalize_ingest_job before
\* its last check).
EvidenceBacked ==
  /\ receipts = items
  /\ \A r \in items : jobs[r.job].status = "finalized" /\ jobs[r.job].claim = r.claim
  /\ \A r, s \in items : r.job = s.job => r = s
  /\ \A j \in Job : jobs[j].status = "finalized" => \E r \in items : r.job = j

\* The claim a job carries is the one of the event that requested that very
\* job, so that no event ever moves two jobs (the join of
\* get_committed_ingest_request).
ClaimsFollowRequests ==
  \A j \in Job :
    /\ jobs[j].claim # NoClaim <=> jobs[j].status \in {"claimed", "finalized", "rejected"}
    /\ jobs[j].claim # NoClaim =>
         \E e \in DOMAIN events : /\ jobs[j].claim = ClaimId(j, e)
                                  /\ events[e].job = j /\ events[e].type = "requested"

StatusAfter(type) ==
  CASE type = "requested" -> "created" [] type = "claimed" -> "claimed"
    [] type = "item.created" -> "finalized" [] type = "rejected" -> "rejected"

\* Whoever reads the outbox in order knows the jobs: the events of a job carry
\* the versions 1, 2, ... once each, in order, and the last one gives its
\* version and status.
OutboxTellsJobs ==
  /\ \A e, f \in DOMAIN events :
       events[e].job = events[f].job /\ e < f => events[e].version < events[f].version
  /\ \A j \in Job :
       /\ \A v \in 1..jobs[j].version :
            \E e \in DOMAIN events : events[e].job = j /\ events[e].version = v
       /\ \A e \in DOMAIN events : events[e].job = j =>
            /\ events[e].version <= jobs[j].version
            /\ events[e].version = jobs[j].version
                 => StatusAfter(events[e].type) = jobs[j].status

\* A verdict is final, a claim is never taken over, and evidence is kept.
VerdictsAreFinal ==
  [][/\ \A j \in Job :
          /\ jobs[j].status \in {"finalized", "rejected"} => jobs'[j] = jobs[j]
          /\ jobs[j].claim # NoClaim => jobs'[j].claim = jobs[j].claim
     /\ receipts \subseteq receipts' /\ items \subseteq items']_ingest

=============================================================================
