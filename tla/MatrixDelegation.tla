-------------------------- MODULE MatrixDelegation --------------------------
(***************************************************************************)
(* How the control plane asks a Worker and hears its answer                *)
(* (src/src/awakening/orchestration/m4/matrix_delegation.py and the helper *)
(* script it runs in the Manager container).  A chain, one invocation of   *)
(* the control plane, posts one request to the room of each Worker and     *)
(* polls that room for a reply.  A room is shared by every chain that ever *)
(* asked its Worker, and a reply may come after the chain gave up.         *)
(*                                                                         *)
(* A call of the port runs the helper under a time limit.  The limit ends  *)
(* the call and not the helper, which runs in a container: a request may   *)
(* still be posted for a call that has failed.                             *)
(***************************************************************************)
EXTENDS Integers, Sequences

CONSTANTS
  Run,         \* bundles prepared for a run, each with its own reservations
  Worker,      \* the Workers, each with a room of its own
  RunBound,    \* the Workers whose output repeats an identifier of the run
  Chain,       \* invocations of the control plane
  MaxVersion,  \* bound on the versions of the Program
  Nil

Version == 0 .. MaxVersion
Bundle == [run : Run, version : Version]

ASSUME DelegationAssumption ==
  /\ RunBound \subseteq Worker
  /\ MaxVersion \in Nat
  /\ Nil \notin Chain \cup Run \cup Bundle

\* A request of a chain, or a reply of the Worker to the request of a chain.
\* good: the text satisfies the output contract of the Worker; related: the
\* event names the request it replies to; at: the version of the Program when
\* the event was posted, which only the properties read.
Event == [kind : {"request", "reply"}, chain : Chain, good : BOOLEAN,
          related : BOOLEAN, at : Version]

VARIABLES
  version,  \* the version of the Program
  port,     \* chain -> the bundle its delegation port was built from, or Nil
  room,     \* Worker -> the events of its room, in order
  helper,   \* chain, Worker -> the step of the dispatching helper
  sent,     \* chain, Worker -> the place of the request in the room, or 0
  cursor,   \* chain, Worker -> the last event seen by the helper that waits
  call,     \* chain, Worker -> the step of the call of the port
  answer,   \* chain, Worker -> the place of the accepted reply, or 0
  work,     \* chain, Worker -> what the Worker has done about the request
  called    \* the reservations, run and Worker, the provider was called with

delegation == <<version, port, room, helper, sent, cursor, call, answer, work, called>>

Ended == {"answered", "failed"}

Post(c, w, kind, good, related) ==
  room' = [room EXCEPT ![w] = Append(@,
    [kind |-> kind, chain |-> c, good |-> good, related |-> related, at |-> version])]

----------------------------------------------------------------------------
(* The control plane *)

\* A thread of the chain runs the helper, which takes a sync token.  What came
\* between the token and the request is older than the request and never a
\* candidate, so the cursor is set where the request is posted.
Dispatch(c, w) ==
  /\ port[c] # Nil
  /\ call[c][w] = "idle"
  /\ call' = [call EXCEPT ![c][w] = "dispatching"]
  /\ helper' = [helper EXCEPT ![c][w] = "baselined"]
  /\ UNCHANGED <<version, port, room, sent, cursor, answer, work, called>>

\* The request is in the room, whether or not the call still waits for its
\* delivery id; if it does, the call goes on to wait for the reply.
Send(c, w) ==
  /\ helper[c][w] = "baselined"
  /\ helper' = [helper EXCEPT ![c][w] = "sent"]
  /\ sent' = [sent EXCEPT ![c][w] = Len(room[w]) + 1]
  /\ call' = [call EXCEPT ![c][w] = IF @ = "dispatching" THEN "awaiting" ELSE @]
  /\ cursor' = [cursor EXCEPT ![c][w] = Len(room[w]) + 1]
  /\ Post(c, w, "request", TRUE, TRUE)
  /\ UNCHANGED <<version, port, answer, work, called>>

\* Mutant: only the dispatch has a time limit.
DispatchFails(c, w) ==
  /\ call[c][w] = "dispatching"
  /\ call' = [call EXCEPT ![c][w] = "failed"]
  /\ UNCHANGED <<version, port, room, helper, sent, cursor, answer, work, called>>

\* The helper fails or its time limit ends the call; it is never repeated.
CallFails(c, w) ==
  /\ call[c][w] \in {"dispatching", "awaiting"}
  /\ call' = [call EXCEPT ![c][w] = "failed"]
  /\ UNCHANGED <<version, port, room, helper, sent, cursor, answer, work, called>>

\* An event of the Worker, later than the request, that names it or none.
Candidate(c, w, i) ==
  /\ room[w][i].kind = "reply"
  /\ i > sent[c][w]
  /\ room[w][i].related => room[w][i].chain = c

\* Mutant: of several valid candidates the first one counts.
FirstValid(c, w) ==
  LET valid == {i \in (cursor[c][w] + 1) .. Len(room[w]) :
                  Candidate(c, w, i) /\ room[w][i].good}
  IN  {i \in valid : \A j \in valid : i <= j}

\* The candidates of one poll that satisfy the output contract.
Valid(c, w) ==
  {i \in (cursor[c][w] + 1) .. Len(room[w]) : Candidate(c, w, i) /\ room[w][i].good}

\* Mutant: the output is not compared with the package.
AnyOutput(w, a, b) == TRUE

\* The output repeats what the package of the Worker says of the run: the
\* version, and for some Workers an identifier of the run, which has one version.
SameBinding(w, a, b) ==
  /\ a.version = b.version
  /\ w \in RunBound => a.run = b.run

\* One poll: no valid reply, go on from here; one, take it if it is bound to
\* this package; several, or one of another package, give up.
AwaitResponse(c, w) ==
  /\ call[c][w] = "awaiting"
  /\ cursor[c][w] < Len(room[w])
  /\ cursor' = [cursor EXCEPT ![c][w] = Len(room[w])]
  /\ \/ Valid(c, w) = {} /\ UNCHANGED <<call, answer>>
     \/ \E i \in Valid(c, w) :
          /\ Valid(c, w) = {i}
          /\ SameBinding(w, port[room[w][i].chain], port[c])
          /\ call' = [call EXCEPT ![c][w] = "answered"]
          /\ answer' = [answer EXCEPT ![c][w] = i]
     \/ /\ Valid(c, w) # {}
        /\ \A i \in Valid(c, w) :
             Valid(c, w) # {i} \/ ~SameBinding(w, port[room[w][i].chain], port[c])
        /\ call' = [call EXCEPT ![c][w] = "failed"]
        /\ UNCHANGED answer
  /\ UNCHANGED <<version, port, room, helper, sent, work, called>>

----------------------------------------------------------------------------
(* The Workers and the gateway, outside this code *)

\* The Worker asks the gateway, which calls the provider at most once for a
\* reservation (ModelGateway); without the call there is no good output.
Work(c, w) ==
  /\ sent[c][w] # 0
  /\ work[c][w] = "none"
  /\ \/ /\ <<port[c].run, w>> \notin called
        /\ called' = called \cup {<<port[c].run, w>>}
        /\ \E output \in {"good", "bad"} : work' = [work EXCEPT ![c][w] = output]
     \/ work' = [work EXCEPT ![c][w] = "bad"] /\ UNCHANGED called
  /\ UNCHANGED <<version, port, room, helper, sent, cursor, call, answer>>

\* The Worker posts what it has, naming the request or not.
Reply(c, w) ==
  /\ work[c][w] \in {"good", "bad"}
  /\ work' = [work EXCEPT ![c][w] = "replied"]
  /\ \E related \in BOOLEAN : Post(c, w, "reply", work[c][w] = "good", related)
  /\ UNCHANGED <<version, port, helper, sent, cursor, call, answer, called>>

----------------------------------------------------------------------------

PerCall(S) == [Chain -> [Worker -> S]]

DelegationInit ==
  /\ version = 0
  /\ port = [c \in Chain |-> Nil]
  /\ room = [w \in Worker |-> <<>>]
  /\ helper = [c \in Chain |-> [w \in Worker |-> "none"]]
  /\ sent = [c \in Chain |-> [w \in Worker |-> 0]]
  /\ cursor = [c \in Chain |-> [w \in Worker |-> 0]]
  /\ call = [c \in Chain |-> [w \in Worker |-> "idle"]]
  /\ answer = [c \in Chain |-> [w \in Worker |-> 0]]
  /\ work = [c \in Chain |-> [w \in Worker |-> "none"]]
  /\ called = {}

DelegationNext(c, w) ==
  \/ Dispatch(c, w)
  \/ Send(c, w)
  \/ CallFails(c, w)
  \/ AwaitResponse(c, w)
  \/ Work(c, w)
  \/ Reply(c, w)

DelegationTypeOK ==
  /\ version \in Version
  /\ port \in [Chain -> Bundle \cup {Nil}]
  /\ room \in [Worker -> Seq(Event)]
  /\ helper \in PerCall({"none", "baselined", "sent"})
  /\ sent \in PerCall(Nat)
  /\ cursor \in PerCall(Nat)
  /\ call \in PerCall({"idle", "dispatching", "awaiting"} \cup Ended)
  /\ answer \in PerCall(Nat)
  /\ work \in PerCall({"none", "good", "bad", "replied"})
  /\ called \subseteq Run \X Worker

=============================================================================
