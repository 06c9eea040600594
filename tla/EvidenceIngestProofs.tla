------------------------ MODULE EvidenceIngestProofs ------------------------
(***************************************************************************)
(* Evidence, claims and outbox agree with the jobs, for any number of jobs *)
(* and contents.  The inductive invariant adds the version that goes with  *)
(* each status: it is why the check of a finalization and the update after *)
(* it cannot disagree.                                                     *)
(***************************************************************************)
EXTENDS EvidenceIngest, TLAPS

VersionOf(status) ==
  CASE status = "absent" -> 0 [] status = "created" -> 1 [] status = "claimed" -> 2
    [] status = "finalized" -> 3 [] status = "rejected" -> 3

VersionsGoWithStatus == \A j \in Job : jobs[j].version = VersionOf(jobs[j].status)

JInv ==
  /\ IngestTypeOK
  /\ VersionsGoWithStatus
  /\ EvidenceBacked
  /\ ClaimsFollowRequests
  /\ OutboxTellsJobs

\* One job moving from one status to the next, with its event: what the four
\* commands have in common.
Moves(j, from, to, claim, type) ==
  /\ jobs[j].status = from
  /\ jobs' = [jobs EXCEPT ![j] =
       [status |-> to, version |-> jobs[j].version + 1, claim |-> claim]]
  /\ events' = Append(events, [type |-> type, job |-> j, version |-> jobs[j].version + 1])

NextStatus ==
  {<<"absent", "created", "requested">>, <<"created", "claimed", "claimed">>,
   <<"claimed", "finalized", "item.created">>, <<"claimed", "rejected", "rejected">>}

\* Appending an event moves none of the earlier ones.
LEMMA AppendOne ==
  ASSUME IngestTypeOK, NEW e, events' = Append(events, e)
  PROVE  /\ DOMAIN events' = 1..(Len(events) + 1)
         /\ DOMAIN events = 1..Len(events)
         /\ Len(events) \in Nat
         /\ \A n \in 1..Len(events) : events'[n] = events[n]
         /\ events'[Len(events) + 1] = e
BY DEF IngestTypeOK

\* A transition of a job keeps the types and the version of each status.
LEMMA MoveKeepsTypes ==
  ASSUME JInv, NEW j \in Job, NEW claim \in ClaimIds \cup {NoClaim},
         NEW from, NEW to, NEW type, <<from, to, type>> \in NextStatus,
         Moves(j, from, to, claim, type)
  PROVE  /\ jobs' \in [Job -> JobRow] /\ events' \in Seq(Event)
         /\ VersionsGoWithStatus'
<1>1. /\ jobs[j].version + 1 = VersionOf(to) /\ VersionOf(to) \in 1..3
      /\ to \in {"created", "claimed", "finalized", "rejected"}
      /\ type \in {"requested", "claimed", "item.created", "rejected"}
  BY DEF Moves, NextStatus, JInv, VersionsGoWithStatus, VersionOf
<1>2. jobs' \in [Job -> JobRow]
  BY <1>1 DEF Moves, JInv, IngestTypeOK, JobRow
<1>3. events' \in Seq(Event)
  BY <1>1 DEF Moves, JInv, IngestTypeOK, Event
<1>4. VersionsGoWithStatus'
  BY <1>1 DEF Moves, JInv, IngestTypeOK, JobRow, VersionsGoWithStatus
<1> QED BY <1>2, <1>3, <1>4

\* A transition and its event keep the outbox true.
LEMMA MoveKeepsOutbox ==
  ASSUME JInv, NEW j \in Job, NEW claim,
         NEW from, NEW to, NEW type, <<from, to, type>> \in NextStatus,
         Moves(j, from, to, claim, type)
  PROVE  OutboxTellsJobs'
<1> DEFINE n == Len(events) + 1
           new == [type |-> type, job |-> j, version |-> jobs[j].version + 1]
<1>1. /\ DOMAIN events' = 1..n /\ DOMAIN events = 1..Len(events) /\ n \in Nat
      /\ \A m \in 1..Len(events) : events'[m] = events[m]
      /\ events'[n] = new
      /\ \A m \in DOMAIN events : events[m].version \in 1..3 /\ events[m].job \in Job
  <2>1. IngestTypeOK /\ events' = Append(events, new)
    BY DEF JInv, Moves
  <2>2. \A m \in DOMAIN events : events[m] \in Event
    BY <2>1 DEF IngestTypeOK
  <2>3. \A m \in DOMAIN events : events[m].version \in 1..3 /\ events[m].job \in Job
    BY <2>2 DEF Event
  <2> HIDE DEF new
  <2> QED BY <2>1, <2>3, AppendOne
<1>2. /\ \A i \in Job \ {j} : jobs'[i] = jobs[i]
      /\ jobs'[j].version = jobs[j].version + 1 /\ jobs'[j].status = to
      /\ \A i \in Job : jobs[i].version \in 0..3
      /\ StatusAfter(type) = to
  BY DEF Moves, JInv, IngestTypeOK, JobRow, NextStatus, StatusAfter
<1>3. new.job = j /\ new.version = jobs[j].version + 1 /\ new.type = type
  OBVIOUS
<1> HIDE DEF new
<1>4. ASSUME NEW e \in DOMAIN events', NEW f \in DOMAIN events',
             events'[e].job = events'[f].job, e < f
      PROVE  events'[e].version < events'[f].version
  <2>1. CASE f = n
    BY <1>1, <1>2, <1>3, <1>4, <2>1 DEF JInv, OutboxTellsJobs
  <2>2. CASE f # n
    BY <1>1, <1>4, <2>2 DEF JInv, OutboxTellsJobs
  <2> QED BY <2>1, <2>2
<1>5. ASSUME NEW i \in Job, NEW v \in 1..jobs'[i].version
      PROVE  \E e \in DOMAIN events' : events'[e].job = i /\ events'[e].version = v
  <2>1. CASE i = j /\ v = jobs'[j].version
    BY <1>1, <1>2, <1>3, <2>1
  <2>2. CASE ~(i = j /\ v = jobs'[j].version)
    <3>1. v \in 1..jobs[i].version
      BY <1>2, <1>5, <2>2
    <3>2. PICK e \in DOMAIN events : events[e].job = i /\ events[e].version = v
      BY <3>1 DEF JInv, OutboxTellsJobs
    <3> QED BY <1>1, <3>2
  <2> QED BY <2>1, <2>2
<1>6. ASSUME NEW i \in Job, NEW e \in DOMAIN events', events'[e].job = i
      PROVE  /\ events'[e].version <= jobs'[i].version
             /\ events'[e].version = jobs'[i].version
                  => StatusAfter(events'[e].type) = jobs'[i].status
  <2>1. CASE e = n
    BY <1>1, <1>2, <1>3, <1>6, <2>1
  <2>2. CASE e # n
    <3>1. e \in DOMAIN events /\ events'[e] = events[e]
      BY <1>1, <2>2
    <3>2. /\ events[e].version <= jobs[i].version
          /\ events[e].version = jobs[i].version => StatusAfter(events[e].type) = jobs[i].status
      BY <1>6, <3>1 DEF JInv, OutboxTellsJobs
    <3> QED BY <1>1, <1>2, <3>1, <3>2
  <2> QED BY <2>1, <2>2
<1> QED BY <1>4, <1>5, <1>6 DEF OutboxTellsJobs

\* A transition that follows the claim rules keeps every claim backed by a request.
LEMMA MoveKeepsClaims ==
  ASSUME JInv, NEW j \in Job, NEW claim,
         NEW from, NEW to, NEW type, <<from, to, type>> \in NextStatus,
         Moves(j, from, to, claim, type),
         to = "created" => claim = NoClaim,
         to \in {"finalized", "rejected"} => claim = jobs[j].claim,
         to = "claimed" => \E e \in DOMAIN events : claim = ClaimId(j, e) /\ Requested(j, e, 1)
  PROVE  ClaimsFollowRequests'
<1>1. /\ DOMAIN events \subseteq DOMAIN events'
      /\ \A e \in DOMAIN events : events'[e] = events[e] /\ e \in Nat \ {0}
  BY AppendOne DEF Moves, JInv
<1>2. /\ \A i \in Job \ {j} : jobs'[i] = jobs[i]
      /\ jobs'[j].claim = claim /\ jobs'[j].status = to
  BY DEF Moves, JInv, IngestTypeOK
<1>3. ASSUME NEW i \in Job
      PROVE  /\ jobs'[i].claim # NoClaim
                  <=> jobs'[i].status \in {"claimed", "finalized", "rejected"}
             /\ jobs'[i].claim # NoClaim =>
                  \E e \in DOMAIN events' : /\ jobs'[i].claim = ClaimId(i, e)
                                              /\ events'[e].job = i
                                              /\ events'[e].type = "requested"
  <2>1. CASE i # j
    BY <1>1, <1>2, <2>1 DEF JInv, ClaimsFollowRequests, Requested
  <2>2. CASE i = j /\ to = "created"
    BY <1>2, <2>2
  <2>3. CASE i = j /\ to = "claimed"
    <3>1. PICK e \in DOMAIN events : claim = ClaimId(j, e) /\ Requested(j, e, 1)
      BY <2>3
    <3>2. claim # NoClaim
      BY <1>1, <3>1, IngestAssumption DEF ClaimId, ClaimIds
    <3> QED BY <1>1, <1>2, <2>3, <3>1, <3>2 DEF Requested
  <2>4. CASE i = j /\ to \in {"finalized", "rejected"}
    <3>1. jobs[j].status = "claimed"
      BY <2>4 DEF Moves, NextStatus
    <3> QED BY <1>1, <1>2, <2>4, <3>1 DEF JInv, ClaimsFollowRequests, Requested
  <2> QED BY <2>1, <2>2, <2>3, <2>4 DEF NextStatus
<1> QED BY <1>3 DEF ClaimsFollowRequests

----------------------------------------------------------------------------
(* The commands *)

\* Creating a job keeps the invariant.
LEMMA CreateKeepsInv ==
  ASSUME JInv, NEW j \in Job, CreateIngestJob(j)
  PROVE  JInv'
<1>1. Moves(j, "absent", "created", NoClaim, "requested")
  BY DEF CreateIngestJob, Move, Moves, Absent
<1>2. <<"absent", "created", "requested">> \in NextStatus
  BY DEF NextStatus
<1>3. IngestTypeOK' /\ VersionsGoWithStatus'
  BY <1>1, <1>2, MoveKeepsTypes DEF CreateIngestJob, JInv, IngestTypeOK
<1>4. OutboxTellsJobs' /\ ClaimsFollowRequests'
  BY <1>1, <1>2, MoveKeepsOutbox, MoveKeepsClaims
<1>5. EvidenceBacked'
  BY <1>1 DEF CreateIngestJob, Moves, JInv, IngestTypeOK, Receipt, EvidenceBacked
<1> QED BY <1>3, <1>4, <1>5 DEF JInv

\* Claiming a job keeps the invariant.
LEMMA ClaimKeepsInv ==
  ASSUME JInv, NEW j \in Job, NEW e \in DOMAIN events, NEW v \in 1..3, ClaimIngestJob(j, e, v)
  PROVE  JInv'
<1>0. v = 1 /\ ClaimId(j, e) \in ClaimIds
  BY DEF ClaimIngestJob, CanMove, JInv, VersionsGoWithStatus, VersionOf, IngestTypeOK,
         ClaimId, ClaimIds
<1>1. Moves(j, "created", "claimed", ClaimId(j, e), "claimed")
  BY DEF ClaimIngestJob, CanMove, Move, Moves
<1>2. <<"created", "claimed", "claimed">> \in NextStatus
  BY DEF NextStatus
<1>3. IngestTypeOK' /\ VersionsGoWithStatus'
  BY <1>0, <1>1, <1>2, MoveKeepsTypes DEF ClaimIngestJob, JInv, IngestTypeOK
<1>4. Requested(j, e, 1)
  BY <1>0 DEF ClaimIngestJob
<1>5. OutboxTellsJobs' /\ ClaimsFollowRequests'
  BY <1>1, <1>2, <1>4, MoveKeepsOutbox, MoveKeepsClaims
<1>6. EvidenceBacked'
  BY <1>1 DEF ClaimIngestJob, Moves, JInv, IngestTypeOK, Receipt, EvidenceBacked
<1> QED BY <1>3, <1>5, <1>6 DEF JInv

\* The check and the update of a finalization agree, so that the receipt and
\* the item never stay behind without it.
LEMMA FinalizeKeepsInv ==
  ASSUME JInv, NEW j \in Job, NEW v \in 1..3, NEW claim \in Known, NEW content \in Content,
         FinalizeIngestJob(j, v, claim, content)
  PROVE  JInv'
<1> DEFINE r == [job |-> j, claim |-> claim, content |-> content]
<1>0. claim \in ClaimIds /\ jobs[j].claim = claim /\ jobs[j].status = "claimed"
  BY DEF FinalizeIngestJob, Claimed, Known, ClaimId, ClaimIds, JInv, IngestTypeOK
<1>1. Moves(j, "claimed", "finalized", claim, "item.created")
  BY DEF FinalizeIngestJob, Claimed, CanMove, Move, Moves
<1>2. <<"claimed", "finalized", "item.created">> \in NextStatus
  BY DEF NextStatus
<1>3. r \in Receipt /\ r.job = j /\ r.claim = claim
  BY <1>0 DEF Receipt
<1>4. receipts' = receipts \cup {r} /\ items' = items \cup {r}
  BY DEF FinalizeIngestJob
<1> HIDE DEF r
<1>5. IngestTypeOK' /\ VersionsGoWithStatus'
  BY <1>0, <1>1, <1>2, <1>3, <1>4, MoveKeepsTypes DEF JInv, IngestTypeOK
<1>6. OutboxTellsJobs' /\ ClaimsFollowRequests'
  BY <1>0, <1>1, <1>2, MoveKeepsOutbox, MoveKeepsClaims
<1>7. /\ \A i \in Job \ {j} : jobs'[i] = jobs[i]
      /\ jobs'[j].status = "finalized" /\ jobs'[j].claim = claim
      /\ \A s \in items : s.job \in Job \ {j}
  BY <1>0, <1>1 DEF Moves, JInv, IngestTypeOK, Receipt, EvidenceBacked
<1>8. EvidenceBacked'
  BY <1>3, <1>4, <1>7 DEF JInv, EvidenceBacked
<1> QED BY <1>5, <1>6, <1>8 DEF JInv

\* Rejecting a job keeps the invariant.
LEMMA RejectKeepsInv ==
  ASSUME JInv, NEW j \in Job, NEW v \in 1..3, NEW claim \in Known, RejectIngestJob(j, v, claim)
  PROVE  JInv'
<1>0. claim \in ClaimIds /\ jobs[j].claim = claim /\ jobs[j].status = "claimed"
  BY DEF RejectIngestJob, Claimed, Known, ClaimId, ClaimIds, JInv, IngestTypeOK
<1>1. Moves(j, "claimed", "rejected", claim, "rejected")
  BY DEF RejectIngestJob, Claimed, CanMove, Move, Moves
<1>2. <<"claimed", "rejected", "rejected">> \in NextStatus
  BY DEF NextStatus
<1>3. IngestTypeOK' /\ VersionsGoWithStatus'
  BY <1>0, <1>1, <1>2, MoveKeepsTypes DEF RejectIngestJob, JInv, IngestTypeOK
<1>4. OutboxTellsJobs' /\ ClaimsFollowRequests'
  BY <1>0, <1>1, <1>2, MoveKeepsOutbox, MoveKeepsClaims
<1>5. EvidenceBacked'
  BY <1>0, <1>1 DEF RejectIngestJob, Moves, JInv, IngestTypeOK, Receipt, EvidenceBacked
<1> QED BY <1>3, <1>4, <1>5 DEF JInv

\* The inductive invariant of the four job commands always holds.
THEOREM JInvHolds == IngestSpec => []JInv
<1>1. IngestInit => JInv
  <2> SUFFICES ASSUME IngestInit PROVE JInv
    OBVIOUS
  <2>1. IngestTypeOK
    BY DEF IngestInit, IngestTypeOK, Absent, JobRow
  <2>2. VersionsGoWithStatus /\ EvidenceBacked /\ ClaimsFollowRequests
    BY DEF IngestInit, Absent, VersionsGoWithStatus, VersionOf, EvidenceBacked,
           ClaimsFollowRequests
  <2>3. OutboxTellsJobs
    BY DEF IngestInit, Absent, OutboxTellsJobs
  <2> QED BY <2>1, <2>2, <2>3 DEF JInv
<1>2. JInv /\ [IngestNext]_ingest => JInv'
  <2> SUFFICES ASSUME JInv, [IngestNext]_ingest PROVE JInv'
    OBVIOUS
  <2>1. CASE IngestNext
    BY <2>1, CreateKeepsInv, ClaimKeepsInv, FinalizeKeepsInv, RejectKeepsInv DEF IngestNext
  <2>2. CASE UNCHANGED ingest
    BY <2>2 DEF ingest, JInv, IngestTypeOK, VersionsGoWithStatus, EvidenceBacked,
                ClaimsFollowRequests, Requested, OutboxTellsJobs
  <2> QED BY <2>1, <2>2
<1> QED BY <1>1, <1>2, PTL DEF IngestSpec

\* Jobs, evidence and outbox are well formed in every reachable state.
THEOREM IngestTypeCorrect == IngestSpec => []IngestTypeOK
BY JInvHolds, PTL DEF JInv

\* Evidence exists exactly for the finalized jobs, whatever fails or is
\* repeated.
THEOREM EvidenceIsBacked == IngestSpec => []EvidenceBacked
BY JInvHolds, PTL DEF JInv

\* Every claim goes back to the request of its own job.
THEOREM ClaimsAlwaysFollowRequests == IngestSpec => []ClaimsFollowRequests
BY JInvHolds, PTL DEF JInv

\* The outbox, read in order, tells the status of every job.
THEOREM OutboxAlwaysTellsJobs == IngestSpec => []OutboxTellsJobs
BY JInvHolds, PTL DEF JInv

\* A verdict is final, a claim is never taken over and evidence is kept.
THEOREM VerdictsStayFinal == IngestSpec => VerdictsAreFinal
<1> DEFINE Final == /\ \A j \in Job :
                         /\ jobs[j].status \in {"finalized", "rejected"} => jobs'[j] = jobs[j]
                         /\ jobs[j].claim # NoClaim => jobs'[j].claim = jobs[j].claim
                    /\ receipts \subseteq receipts' /\ items \subseteq items'
<1>1. JInv /\ [IngestNext]_ingest => [Final]_ingest
  <2> SUFFICES ASSUME JInv, NEW j \in Job, 
                      \/ CreateIngestJob(j)
                      \/ \E v \in 1..3, e \in DOMAIN events : ClaimIngestJob(j, e, v)
                      \/ \E v \in 1..3, claim \in Known, content \in Content :
                           FinalizeIngestJob(j, v, claim, content)
                      \/ \E v \in 1..3, claim \in Known : RejectIngestJob(j, v, claim)
               PROVE  Final
    BY DEF IngestNext
  <2>1. /\ receipts \subseteq receipts' /\ items \subseteq items'
        /\ \A i \in Job \ {j} : jobs'[i] = jobs[i]
    BY DEF CreateIngestJob, ClaimIngestJob, FinalizeIngestJob, RejectIngestJob, Move, JInv,
           IngestTypeOK
  <2>2. /\ jobs[j].status \notin {"finalized", "rejected"}
        /\ jobs[j].claim # NoClaim => jobs'[j].claim = jobs[j].claim
    <3>0. jobs \in [Job -> JobRow]
      BY DEF JInv, IngestTypeOK
    <3>1. CASE CreateIngestJob(j)
      BY <3>1 DEF CreateIngestJob, Absent
    <3>2. CASE \E v \in 1..3, e \in DOMAIN events : ClaimIngestJob(j, e, v)
      BY <3>2 DEF ClaimIngestJob, CanMove, JInv, ClaimsFollowRequests
    <3>3. CASE \E v \in 1..3, claim \in Known, content \in Content :
                 FinalizeIngestJob(j, v, claim, content)
      BY <3>0, <3>3 DEF FinalizeIngestJob, Claimed, Move
    <3>4. CASE \E v \in 1..3, claim \in Known : RejectIngestJob(j, v, claim)
      BY <3>0, <3>4 DEF RejectIngestJob, Claimed, Move
    <3> QED BY <3>1, <3>2, <3>3, <3>4
  <2> QED BY <2>1, <2>2
<1> QED BY <1>1, JInvHolds, PTL DEF IngestSpec, VerdictsAreFinal

=============================================================================
