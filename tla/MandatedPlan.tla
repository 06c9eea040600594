---------------------------- MODULE MandatedPlan ----------------------------
(***************************************************************************)
(* What the State Service promises the owner of a Program about its plan,  *)
(* whatever commands, principals and proposals compete: the plans form one *)
(* line, which only grows; it grows by a mandate - the owner's approval of *)
(* exactly this change to exactly the plan in force, used once and within  *)
(* its lifetime - or, if the owner chose so at creation, by a reordering   *)
(* of the tasks.                                                           *)
(*                                                                         *)
(* StateService implements this specification (Mandated there).            *)
(***************************************************************************)
EXTENDS Naturals, Sequences

CONSTANTS
  Proposal,  \* proposed changes
  Content,   \* contents of a plan
  Order,     \* orderings of its tasks
  Lifetime   \* how long a mandate lasts at most

VARIABLES
  line,      \* the contents of the plans, the one in force last
  mandate,   \* proposal -> the owner's mandate for it
  reorders,  \* whether the owner lets tasks be reordered
  now        \* the time

mandated == <<line, mandate, reorders, now>>

NoMandate == [state |-> "none"]

Init ==
  /\ line = <<>>
  /\ mandate = [p \in Proposal |-> NoMandate]
  /\ reorders = FALSE
  /\ now = 0

\* The first plan, and the owner's policy.
Found(content, policy) ==
  /\ line = <<>>
  /\ line' = <<content>>
  /\ reorders' = policy
  /\ UNCHANGED <<mandate, now>>

\* The owner lets the plan at one place become another one, until a deadline.
Allow(p, at, to, until) ==
  /\ mandate[p] = NoMandate
  /\ mandate' = [mandate EXCEPT ![p] =
       [state |-> "open", at |-> at, to |-> to, until |-> until]]
  /\ UNCHANGED <<line, reorders, now>>

\* A mandate is spent on the plan it was given for.
Enact(p) ==
  /\ mandate[p].state = "open"
  /\ mandate[p].at = Len(line)
  /\ now < mandate[p].until
  /\ line' = Append(line, mandate[p].to)
  /\ mandate' = [mandate EXCEPT ![p].state = "spent"]
  /\ UNCHANGED <<reorders, now>>

\* The tasks are put in another order.
Reorder(order) ==
  /\ line # <<>> /\ reorders
  /\ line' = Append(line, [line[Len(line)] EXCEPT !.order = order])
  /\ UNCHANGED <<mandate, reorders, now>>

Pass == now' = now + 1 /\ UNCHANGED <<line, mandate, reorders>>

Next ==
  \/ \E content \in Content, policy \in BOOLEAN : Found(content, policy)
  \/ \E p \in Proposal, at \in 1..Len(line), to \in Content,
        until \in (now + 1)..(now + Lifetime) : Allow(p, at, to, until)
  \/ \E p \in Proposal : Enact(p)
  \/ \E order \in Order : Reorder(order)
  \/ Pass

Spec == Init /\ [][Next]_mandated

=============================================================================
