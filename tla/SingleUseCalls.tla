---------------------------- MODULE SingleUseCalls ----------------------------
(***************************************************************************)
(* What the Model Gateway promises about a model call, whatever becomes of *)
(* the requests, threads and processes that carry it: a call is admitted   *)
(* or refused once, spends once, is charged once - what it consumed, or    *)
(* its maxima when that is unknown - and closes with a receipt, without    *)
(* which no answer is delivered.  A call may stop at any point of this     *)
(* life; it never goes back.                                               *)
(*                                                                         *)
(* ModelGateway implements this specification (SingleUse there).           *)
(***************************************************************************)
EXTENDS Naturals

CONSTANTS
  Call,    \* model calls
  Amount,  \* amounts of tokens and money
  Zero,    \* nothing
  Usage,   \* what the provider may consume for a call
  MaxOf    \* call -> the maxima of its reservation

VARIABLES
  phase,     \* call -> how far it has come
  requests,  \* call -> how many requests it made to the provider
  consumed,  \* call -> what the provider has consumed for it
  charged,   \* call -> what the budget was charged for it
  delivered  \* calls whose answer the caller has

singleUse == <<phase, requests, consumed, charged, delivered>>

Phase == {"idle", "refused", "open", "spent", "presumed", "charged", "closed"}

TypeOK ==
  /\ phase \in [Call -> Phase]
  /\ requests \in [Call -> 0..1]
  /\ consumed \in [Call -> Amount]
  /\ charged \in [Call -> Amount]
  /\ delivered \subseteq Call

Init ==
  /\ phase = [c \in Call |-> "idle"]
  /\ requests = [c \in Call |-> 0]
  /\ consumed = [c \in Call |-> Zero]
  /\ charged = [c \in Call |-> Zero]
  /\ delivered = {}

Goes(c, from, to) == phase[c] = from /\ phase' = [phase EXCEPT ![c] = to]

\* The budget has room for the call, or it is refused for good.
Admit(c) ==
  /\ Goes(c, "idle", "open") \/ Goes(c, "idle", "refused")
  /\ UNCHANGED <<requests, consumed, charged, delivered>>

\* The one request of the call reaches the provider.
Spend(c, u) ==
  /\ Goes(c, "open", "spent")
  /\ requests' = [requests EXCEPT ![c] = 1]
  /\ consumed' = [consumed EXCEPT ![c] = u]
  /\ UNCHANGED <<charged, delivered>>

\* The charge: what was consumed, or the maxima.
Charge(c) ==
  /\ \/ Goes(c, "spent", "charged") /\ charged' = [charged EXCEPT ![c] = consumed[c]]
     \/ Goes(c, "spent", "presumed") /\ charged' = [charged EXCEPT ![c] = MaxOf[c]]
  /\ UNCHANGED <<requests, consumed, delivered>>

\* The receipt, which the caller may or may not live to see.
Close(c) ==
  /\ Goes(c, "charged", "closed")
  /\ delivered' \in {delivered, delivered \cup {c}}
  /\ UNCHANGED <<requests, consumed, charged>>

Next ==
  \E c \in Call : \/ Admit(c)
                  \/ \E u \in Usage : Spend(c, u)
                  \/ Charge(c)
                  \/ Close(c)

Spec == Init /\ [][Next]_singleUse

=============================================================================
