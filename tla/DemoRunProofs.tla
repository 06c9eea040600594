--------------------------- MODULE DemoRunProofs ----------------------------
(***************************************************************************)
(* Proofs about DemoRun for any number of runs, Workers and chains.  The   *)
(* argument: what a chain relies on never goes away (StepFacts), so a reply *)
(* keeps what it was accepted for; its version lies between the version of *)
(* the package it was written for and that of the Program, and the second  *)
(* reading closes the gap.  A poll starts where the one before has ended,  *)
(* and only after one that found nothing valid (ReadInv).                  *)
(***************************************************************************)
EXTENDS DemoRun, TLAPS

\* A chain past "loaded" has a run, and its port holds the bundle of that run.
ChainPort(c) ==
  /\ pc[c] \in {"loaded", "running", "collected"} => target[c] \in Run
  /\ pc[c] \in {"running", "collected"} => port[c] # Nil
  /\ target[c] # Nil => pc[c] # "new" /\ prep[target[c]] = "checked"
  /\ port[c] # Nil =>
       /\ port[c] = [run |-> target[c], version |-> prepared[target[c]]]
       /\ target[c] \in Run
       /\ port[c].version <= version
  /\ \A w \in Worker :
       /\ helper[c][w] # "none" => port[c] # Nil
       /\ sent[c][w] # 0 => port[c] # Nil
       /\ work[c][w] # "none" => port[c] # Nil
       /\ call[c][w] \in {"dispatching", "awaiting", "answered"} => port[c] # Nil

\* What is prepared was read from the Program, and is final once it is published.
PortInv ==
  /\ \A r \in config : prep[r] = "checked"
  /\ \A r \in Run : prep[r] # "none" => prepared[r] <= version
  /\ \A c \in Chain : ChainPort(c)

\* Every event was posted for the package of a chain, and a good output has
\* cost a call of the provider.
RoomInv ==
  \A w \in Worker :
    /\ \A i \in 1 .. Len(room[w]) : LET e == room[w][i] IN
         /\ port[e.chain] # Nil
         /\ port[e.chain].version <= e.at /\ e.at <= version
         /\ (e.kind = "reply" /\ e.good) => <<port[e.chain].run, w>> \in called
    /\ \A c \in Chain : work[c][w] = "good" => <<port[c].run, w>> \in called

\* What an accepted reply was checked for.
Accepted(c, w) ==
  /\ answer[c][w] \in 1 .. Len(room[w])
  /\ Answer(c, w).kind = "reply" /\ Answer(c, w).good
  /\ Answer(c, w).related => Answer(c, w).chain = c
  /\ SameBinding(w, port[Answer(c, w).chain], port[c])

AnswerInv == \A c \in Chain, w \in Worker : call[c][w] = "answered" => Accepted(c, w)

\* A chain that completes has only answers of the version of its bundle.
Current(c) ==
  /\ port[c] # Nil
  /\ \A w \in Worker : call[c][w] = "answered" /\ Answer(c, w).at = port[c].version

DraftInv ==
  /\ \A c \in Chain : draft[c] = "completed" => Current(c)
  /\ \A r \in Run : result[r] # Nil =>
       /\ target[result[r].chain] = r
       /\ result[r].status = draft[result[r].chain]
       /\ pc[result[r].chain] = "done"

\* What a helper has read is in the room, and no valid reply among it is lost.
ReadInv ==
  \A c \in Chain, w \in Worker :
    call[c][w] \in {"awaiting", "answered"} =>
      /\ helper[c][w] = "sent"
      /\ cursor[c][w] <= Len(room[w])
      /\ ValidSoFar(c, w) = IF call[c][w] = "awaiting" THEN {} ELSE {answer[c][w]}

IInv == DemoTypeOK /\ PortInv /\ RoomInv /\ AnswerInv /\ DraftInv /\ ReadInv

----------------------------------------------------------------------------
(* Type correctness *)

\* What is posted is an event of a chain.
LEMMA PostType ==
  ASSUME DemoTypeOK, NEW c \in Chain, NEW w \in Worker,
         \E kind \in {"request", "reply"}, good \in BOOLEAN, related \in BOOLEAN :
           Post(c, w, kind, good, related)
  PROVE  room' \in [Worker -> Seq(Event)]
<1> PICK kind \in {"request", "reply"}, good \in BOOLEAN, related \in BOOLEAN :
      Post(c, w, kind, good, related)
  OBVIOUS
<1> DEFINE e == [kind |-> kind, chain |-> c, good |-> good, related |-> related, at |-> version]
<1>1. e \in Event
  BY DEF DemoTypeOK, DelegationTypeOK, Event
<1>2. room \in [Worker -> Seq(Event)] /\ Append(room[w], e) \in Seq(Event)
  BY <1>1 DEF DemoTypeOK, DelegationTypeOK
<1>3. room' = [room EXCEPT ![w] = Append(room[w], e)]
  BY DEF Post
<1> HIDE DEF e
<1> QED
  BY <1>2, <1>3

\* The initial state is well typed.
LEMMA TypeInit == Init => DemoTypeOK
  BY DelegationAssumption DEF Init, DelegationInit, DemoTypeOK, DelegationTypeOK, PerCall,
     Version, Ended

\* A step keeps the types; the run of a port is typed because of ChainPort.
LEMMA TypeStep == DemoTypeOK /\ PortInv /\ [Next]_vars => DemoTypeOK'
<1> SUFFICES ASSUME DemoTypeOK, PortInv, [Next]_vars PROVE DemoTypeOK'
  OBVIOUS
<1> USE DEF DemoTypeOK, DelegationTypeOK, PerCall, Version, Bundle,
        Result, Ended, delegation, bundles, chains
<1>1. ASSUME NEW r \in Run, StartPrepare(r)
      PROVE  DemoTypeOK'
  BY <1>1 DEF StartPrepare
<1>2. ASSUME NEW r \in Run, CheckUnchanged(r)
      PROVE  DemoTypeOK'
  BY <1>2 DEF CheckUnchanged
<1>3. ASSUME NEW r \in Run, NEW w \in Worker, PublishPackage(r, w)
      PROVE  DemoTypeOK'
  BY <1>3 DEF PublishPackage
<1>4. ASSUME NEW r \in Run, PublishConfig(r)
      PROVE  DemoTypeOK'
  BY <1>4 DEF PublishConfig
<1>5. ASSUME NEW c \in Chain, NEW r \in Run, LoadBundle(c, r)
      PROVE  DemoTypeOK'
  BY <1>5 DEF LoadBundle
<1>6. ASSUME NEW c \in Chain, ReadBefore(c)
      PROVE  DemoTypeOK'
  <2>1. target[c] \in Run /\ prepared[target[c]] \in Version
    BY <1>6 DEF ReadBefore, PortInv, ChainPort
  <2>2. port' \in [Chain -> Bundle \cup {Nil}]
    <3>1. UNCHANGED port
          \/ port' = [port EXCEPT ![c] = [run |-> target[c], version |-> prepared[target[c]]]]
      BY <1>6 DEF ReadBefore
    <3>2. ASSUME NEW b \in Bundle, port' = [port EXCEPT ![c] = b]
          PROVE  port' \in [Chain -> Bundle \cup {Nil}]
      BY <3>2
    <3>3. [run |-> target[c], version |-> prepared[target[c]]] \in Bundle
      BY <2>1
    <3>4. CASE UNCHANGED port
      BY <3>4
    <3> QED
      BY <3>1, <3>2, <3>3, <3>4
  <2> QED
    BY <1>6, <2>2 DEF ReadBefore
<1>7. ASSUME NEW c \in Chain, Collect(c)
      PROVE  DemoTypeOK'
  BY <1>7 DEF Collect, AllAnswered
<1>8. ASSUME NEW c \in Chain, CreateResult(c)
      PROVE  DemoTypeOK'
  BY <1>8 DEF CreateResult
<1>9. ASSUME NEW c \in Chain, Crash(c)
      PROVE  DemoTypeOK'
  BY <1>9 DEF Crash
<1>10. ASSUME BusinessCommand
      PROVE  DemoTypeOK'
  <2>1. version' \in Version
    BY <1>10, DelegationAssumption DEF BusinessCommand
  <2> QED
    BY <1>10, <2>1 DEF BusinessCommand
<1>11. ASSUME NEW c \in Chain, NEW w \in Worker, Dispatch(c, w), UNCHANGED <<bundles, chains>>
      PROVE  DemoTypeOK'
  BY <1>11 DEF Dispatch
<1>12. ASSUME NEW c \in Chain, NEW w \in Worker, Send(c, w), UNCHANGED <<bundles, chains>>
      PROVE  DemoTypeOK'
  <2>1. room' \in [Worker -> Seq(Event)]
    <3>1. Post(c, w, "request", TRUE, TRUE)
      BY <1>12 DEF Send
    <3>2. \E kind \in {"request", "reply"}, good \in BOOLEAN, related \in BOOLEAN :
            Post(c, w, kind, good, related)
      BY <3>1
    <3> QED
      BY <3>2, PostType
  <2>2. sent' \in PerCall(Nat) /\ cursor' \in PerCall(Nat)
    BY <1>12 DEF Send
  <2>3. helper' \in PerCall({"none", "baselined", "sent"})
        /\ call' \in PerCall({"idle", "dispatching", "awaiting"} \cup Ended)
    BY <1>12 DEF Send
  <2> QED
    BY <1>12, <2>1, <2>2, <2>3 DEF Send
<1>13. ASSUME NEW c \in Chain, NEW w \in Worker, CallFails(c, w), UNCHANGED <<bundles, chains>>
      PROVE  DemoTypeOK'
  BY <1>13 DEF CallFails
<1>14. ASSUME NEW c \in Chain, NEW w \in Worker, AwaitResponse(c, w), UNCHANGED <<bundles, chains>>
      PROVE  DemoTypeOK'
  <2>1. cursor' \in PerCall(Nat)
    BY <1>14 DEF AwaitResponse
  <2>2. Valid(c, w) \subseteq Nat
    BY DEF Valid
  <2>5. UNCHANGED answer \/ \E i \in Nat : answer' = [answer EXCEPT ![c][w] = i]
    BY <1>14, <2>2 DEF AwaitResponse
  <2>6. UNCHANGED call \/ \E v \in Ended : call' = [call EXCEPT ![c][w] = v]
    BY <1>14 DEF AwaitResponse
  <2>3. answer' \in PerCall(Nat)
    <3>1. CASE UNCHANGED answer
      BY <3>1
    <3>2. ASSUME NEW i \in Nat, answer' = [answer EXCEPT ![c][w] = i]
          PROVE  answer' \in PerCall(Nat)
      BY <3>2
    <3> QED
      BY <2>5, <3>1, <3>2
  <2>4. call' \in PerCall({"idle", "dispatching", "awaiting"} \cup Ended)
    <3>1. CASE UNCHANGED call
      BY <3>1
    <3>2. ASSUME NEW v \in Ended, call' = [call EXCEPT ![c][w] = v]
          PROVE  call' \in PerCall({"idle", "dispatching", "awaiting"} \cup Ended)
      BY <3>2
    <3> QED
      BY <2>6, <3>1, <3>2
  <2> QED
    BY <1>14, <2>1, <2>3, <2>4 DEF AwaitResponse
<1>15. ASSUME NEW c \in Chain, NEW w \in Worker, Work(c, w), UNCHANGED <<bundles, chains>>
      PROVE  DemoTypeOK'
  <2>1. port[c].run \in Run
    BY <1>15 DEF Work, PortInv, ChainPort
  <2>2. called' \subseteq Run \X Worker
    BY <1>15, <2>1 DEF Work
  <2>4. \E v \in {"good", "bad"} : work' = [work EXCEPT ![c][w] = v]
    BY <1>15 DEF Work
  <2>3. work' \in PerCall({"none", "good", "bad", "replied"})
    BY <2>4
  <2> QED
    BY <1>15, <2>2, <2>3 DEF Work
<1>16. ASSUME NEW c \in Chain, NEW w \in Worker, Reply(c, w), UNCHANGED <<bundles, chains>>
      PROVE  DemoTypeOK'
  <2>3. \E kind \in {"request", "reply"}, good \in BOOLEAN, related \in BOOLEAN :
          Post(c, w, kind, good, related)
    BY <1>16 DEF Reply
  <2>1. room' \in [Worker -> Seq(Event)]
    BY <2>3, PostType
  <2>2. work' \in PerCall({"none", "good", "bad", "replied"})
    BY <1>16 DEF Reply
  <2> QED
    BY <1>16, <2>1, <2>2 DEF Reply
<1>17. ASSUME UNCHANGED vars
      PROVE  DemoTypeOK'
  BY <1>17 DEF vars
<1> QED
  BY <1>1, <1>2, <1>3, <1>4, <1>5, <1>6, <1>7, <1>8, <1>9, <1>10, <1>11, <1>12, <1>13, <1>14, <1>15, <1>16, <1>17 DEF Next, PrepareNext, ChainNext, CallNext, DelegationNext

----------------------------------------------------------------------------
(* What a step keeps *)

RoomKept ==
  \A v \in Worker :
    /\ Len(room[v]) <= Len(room'[v])
    /\ \A i \in 1 .. Len(room[v]) : room'[v][i] = room[v][i]

\* Versions and rooms grow; ports, targets, published versions and accepted
\* replies do not change.
Kept ==
  /\ version <= version' /\ called \subseteq called'
  /\ \A d \in Chain : port[d] # Nil => port'[d] = port[d]
  /\ \A d \in Chain : target[d] # Nil => target'[d] = target[d]
  /\ \A s \in Run : prep[s] # "none" => prep'[s] # "none" /\ prepared'[s] = prepared[s]
  /\ \A s \in Run : prep[s] = "checked" => prep'[s] = "checked"
  /\ RoomKept
  /\ \A d \in Chain, v \in Worker : call[d][v] = "answered" =>
        call'[d][v] = "answered" /\ answer'[d][v] = answer[d][v]

\* Posting appends one event to the room of the Worker.
LEMMA PostAppends ==
  ASSUME DemoTypeOK, NEW c \in Chain, NEW w \in Worker, NEW e \in Event,
         room' = [room EXCEPT ![w] = Append(@, e)]
  PROVE  /\ RoomKept
         /\ Len(room'[w]) = Len(room[w]) + 1 /\ room'[w][Len(room[w]) + 1] = e
         /\ \A v \in Worker \ {w} : room'[v] = room[v]
<1>1. room \in [Worker -> Seq(Event)]
  BY DEF DemoTypeOK, DelegationTypeOK
<1>2. room'[w] = Append(room[w], e) /\ \A v \in Worker \ {w} : room'[v] = room[v]
  BY <1>1
<1>3. /\ Len(Append(room[w], e)) = Len(room[w]) + 1
      /\ Append(room[w], e)[Len(room[w]) + 1] = e
      /\ \A i \in 1 .. Len(room[w]) : Append(room[w], e)[i] = room[w][i]
      /\ Len(room[w]) \in Nat
  BY <1>1
<1>4. \A v \in Worker : Len(room[v]) \in Nat
  BY <1>1
<1> QED
  BY <1>2, <1>3, <1>4 DEF RoomKept

\* The event that a Send or a Reply posts.
Posted(c, kind, good, related) ==
  [kind |-> kind, chain |-> c, good |-> good, related |-> related, at |-> version]

\* A step posts nothing, or one event for a chain that has a port.
LEMMA RoomStepCases ==
  ASSUME DemoTypeOK, PortInv, Next
  PROVE  \/ UNCHANGED room
         \/ \E c \in Chain, w \in Worker, e \in Event :
              /\ room' = [room EXCEPT ![w] = Append(@, e)]
              /\ port[c] # Nil /\ e.chain = c /\ e.at = version /\ UNCHANGED version
              /\ e.kind = "reply" => (e.good => work[c][w] = "good")
<1> USE DEF delegation, bundles, chains
<1>1. ASSUME NEW c \in Chain, NEW w \in Worker, Send(c, w)
      PROVE  \E e \in Event :
              /\ room' = [room EXCEPT ![w] = Append(@, e)]
              /\ port[c] # Nil /\ e.chain = c /\ e.at = version /\ UNCHANGED version
              /\ e.kind = "reply" => (e.good => work[c][w] = "good")
  <2> DEFINE e == Posted(c, "request", TRUE, TRUE)
  <2>1. e \in Event /\ e.chain = c /\ e.at = version /\ e.kind = "request"
    BY DEF Posted, Event, DemoTypeOK, DelegationTypeOK
  <2>2. room' = [room EXCEPT ![w] = Append(@, e)] /\ port[c] # Nil /\ UNCHANGED version
    BY <1>1 DEF Send, Post, Posted, PortInv, ChainPort
  <2> HIDE DEF e
  <2> QED
    BY <2>1, <2>2
<1>2. ASSUME NEW c \in Chain, NEW w \in Worker, Reply(c, w)
      PROVE  \E e \in Event :
              /\ room' = [room EXCEPT ![w] = Append(@, e)]
              /\ port[c] # Nil /\ e.chain = c /\ e.at = version /\ UNCHANGED version
              /\ e.kind = "reply" => (e.good => work[c][w] = "good")
  <2>1. \E related \in BOOLEAN :
          room' = [room EXCEPT ![w] = Append(@, Posted(c, "reply", work[c][w] = "good", related))]
    BY <1>2 DEF Reply, Post, Posted
  <2>2. PICK related \in BOOLEAN :
          room' = [room EXCEPT ![w] = Append(@, Posted(c, "reply", work[c][w] = "good", related))]
    BY <2>1
  <2> DEFINE e == Posted(c, "reply", work[c][w] = "good", related)
  <2>3. e \in Event /\ e.chain = c /\ e.at = version /\ (e.good => work[c][w] = "good")
    BY DEF Posted, Event, DemoTypeOK, DelegationTypeOK
  <2>4. room' = [room EXCEPT ![w] = Append(@, e)] /\ port[c] # Nil /\ UNCHANGED version
    BY <1>2, <2>2 DEF Reply, PortInv, ChainPort
  <2> HIDE DEF e
  <2> QED
    BY <2>3, <2>4
<1>3. ASSUME NEW r \in Run, PrepareNext(r)
      PROVE  UNCHANGED room
  BY <1>3 DEF PrepareNext, StartPrepare, CheckUnchanged, PublishPackage, PublishConfig
<1>4. ASSUME NEW c \in Chain, ChainNext(c)
      PROVE  UNCHANGED room
  BY <1>4 DEF ChainNext, LoadBundle, ReadBefore, Collect, CreateResult, Crash
<1>5. ASSUME BusinessCommand
      PROVE  UNCHANGED room
  BY <1>5 DEF BusinessCommand
<1>6. ASSUME NEW c \in Chain, NEW w \in Worker,
             Dispatch(c, w) \/ CallFails(c, w) \/ AwaitResponse(c, w) \/ Work(c, w)
      PROVE  UNCHANGED room
  BY <1>6 DEF Dispatch, CallFails, AwaitResponse, Work
<1> QED
  BY <1>1, <1>2, <1>3, <1>4, <1>5, <1>6 DEF Next, CallNext, DelegationNext

\* A step never takes back what a chain relies on.
LEMMA StepKeeps == DemoTypeOK /\ PortInv /\ [Next]_vars => Kept
<1> SUFFICES ASSUME DemoTypeOK, PortInv, [Next]_vars PROVE Kept
  OBVIOUS
<1>0. RoomKept
  <2>1. \A v \in Worker : Len(room[v]) \in Nat
    BY DEF DemoTypeOK, DelegationTypeOK
  <2>2. CASE UNCHANGED room
    BY <2>1, <2>2 DEF RoomKept
  <2>3. CASE ~UNCHANGED room
    <3>1. PICK c \in Chain, w \in Worker, e \in Event : room' = [room EXCEPT ![w] = Append(@, e)]
      BY <2>3, RoomStepCases DEF vars, delegation
    <3> QED
      BY <3>1, PostAppends
  <2> QED
    BY <2>2, <2>3
<1> DEFINE Rest ==
      /\ version <= version' /\ called \subseteq called'
      /\ \A d \in Chain : port[d] # Nil => port'[d] = port[d]
      /\ \A d \in Chain : target[d] # Nil => target'[d] = target[d]
      /\ \A s \in Run : prep[s] # "none" => prep'[s] # "none" /\ prepared'[s] = prepared[s]
      /\ \A s \in Run : prep[s] = "checked" => prep'[s] = "checked"
      /\ \A d \in Chain, v \in Worker : call[d][v] = "answered" =>
            call'[d][v] = "answered" /\ answer'[d][v] = answer[d][v]
<1>a. version \in Int /\ MaxVersion \in Int
  BY DelegationAssumption DEF DemoTypeOK, DelegationTypeOK, Version
<1>b. /\ port \in [Chain -> Bundle \cup {Nil}] /\ target \in [Chain -> Run \cup {Nil}]
      /\ prep \in [Run -> {"none", "read", "checked"}] /\ prepared \in [Run -> Version]
      /\ \A d \in Chain : DOMAIN call[d] = Worker /\ DOMAIN answer[d] = Worker
      /\ DOMAIN call = Chain /\ DOMAIN answer = Chain
  BY DEF DemoTypeOK, DelegationTypeOK, PerCall
<1> USE DEF delegation, bundles, chains
<1>1. ASSUME NEW r \in Run, StartPrepare(r)
      PROVE  Rest
  BY <1>1, <1>a, <1>b DEF StartPrepare
<1>2. ASSUME NEW r \in Run, CheckUnchanged(r)
      PROVE  Rest
  BY <1>2, <1>a, <1>b DEF CheckUnchanged
<1>3. ASSUME NEW r \in Run, NEW w \in Worker, PublishPackage(r, w)
      PROVE  Rest
  BY <1>3, <1>a, <1>b DEF PublishPackage
<1>4. ASSUME NEW r \in Run, PublishConfig(r)
      PROVE  Rest
  BY <1>4, <1>a, <1>b DEF PublishConfig
<1>5. ASSUME NEW c \in Chain, NEW r \in Run, LoadBundle(c, r)
      PROVE  Rest
  <2>1. target[c] = Nil
    BY <1>5 DEF LoadBundle, PortInv, ChainPort
  <2> QED
    BY <1>5, <1>a, <1>b, <2>1 DEF LoadBundle
<1>6. ASSUME NEW c \in Chain, ReadBefore(c)
      PROVE  Rest
  <2>1. port[c] # Nil => port[c] = [run |-> target[c], version |-> prepared[target[c]]]
    BY DEF PortInv, ChainPort
  <2>2. UNCHANGED port \/ port' = [port EXCEPT ![c] = [run |-> target[c], version |-> prepared[target[c]]]]
    BY <1>6 DEF ReadBefore
  <2>3. \A d \in Chain : port[d] # Nil => port'[d] = port[d]
    BY <1>b, <2>1, <2>2
  <2> QED
    BY <1>6, <1>a, <2>3 DEF ReadBefore
<1>7. ASSUME NEW c \in Chain, Collect(c)
      PROVE  Rest
  BY <1>7, <1>a, <1>b DEF Collect, AllAnswered
<1>8. ASSUME NEW c \in Chain, CreateResult(c)
      PROVE  Rest
  BY <1>8, <1>a, <1>b DEF CreateResult
<1>9. ASSUME NEW c \in Chain, Crash(c)
      PROVE  Rest
  BY <1>9, <1>a, <1>b DEF Crash, Ended
<1>10. ASSUME BusinessCommand
      PROVE  Rest
  BY <1>10, <1>a, <1>b DEF BusinessCommand
<1>11. ASSUME NEW c \in Chain, NEW w \in Worker, Dispatch(c, w), UNCHANGED <<bundles, chains>>
      PROVE  Rest
  BY <1>11, <1>a, <1>b DEF Dispatch
<1>12. ASSUME NEW c \in Chain, NEW w \in Worker, Send(c, w), UNCHANGED <<bundles, chains>>
      PROVE  Rest
  BY <1>12, <1>a, <1>b DEF Send, Post
<1>13. ASSUME NEW c \in Chain, NEW w \in Worker, CallFails(c, w), UNCHANGED <<bundles, chains>>
      PROVE  Rest
  BY <1>13, <1>a, <1>b DEF CallFails
<1>14. ASSUME NEW c \in Chain, NEW w \in Worker, AwaitResponse(c, w), UNCHANGED <<bundles, chains>>
      PROVE  Rest
  BY <1>14, <1>a, <1>b DEF AwaitResponse
<1>15. ASSUME NEW c \in Chain, NEW w \in Worker, Work(c, w), UNCHANGED <<bundles, chains>>
      PROVE  Rest
  BY <1>15, <1>a, <1>b DEF Work
<1>16. ASSUME NEW c \in Chain, NEW w \in Worker, Reply(c, w), UNCHANGED <<bundles, chains>>
      PROVE  Rest
  BY <1>16, <1>a, <1>b DEF Reply, Post
<1>17. ASSUME UNCHANGED vars
      PROVE  Rest
  BY <1>17, <1>a, <1>b DEF vars
<1>c. Rest
  BY <1>1, <1>2, <1>3, <1>4, <1>5, <1>6, <1>7, <1>8, <1>9, <1>10, <1>11, <1>12, <1>13, <1>14, <1>15, <1>16, <1>17 DEF Next, PrepareNext, ChainNext, CallNext, DelegationNext
<1> QED
  BY <1>0, <1>c DEF Kept

----------------------------------------------------------------------------
(* The invariant is inductive *)

\* The initial state satisfies the invariant.
LEMMA InvInit == Init => IInv
<1> SUFFICES ASSUME Init PROVE IInv
  OBVIOUS
<1>1. DemoTypeOK
  BY TypeInit
<1>2. PortInv
  BY DEF Init, DelegationInit, PortInv, ChainPort
<1>3. RoomInv
  BY DEF Init, DelegationInit, RoomInv
<1>4. AnswerInv
  BY DEF Init, DelegationInit, AnswerInv
<1>5. DraftInv
  BY DEF Init, DelegationInit, DraftInv
<1>6. ReadInv
  BY DEF Init, DelegationInit, ReadInv
<1> QED
  BY <1>1, <1>2, <1>3, <1>4, <1>5, <1>6 DEF IInv

\* A chain takes the run of a published bundle and the port of its version.
LEMMA PortStep == DemoTypeOK /\ PortInv /\ [Next]_vars => PortInv'
<1> SUFFICES ASSUME DemoTypeOK, PortInv, [Next]_vars PROVE PortInv'
  OBVIOUS
<1> USE DEF DemoTypeOK, DelegationTypeOK, PerCall, Version, PortInv, ChainPort,
        delegation, bundles, chains
<1>1. ASSUME NEW r \in Run, StartPrepare(r)
      PROVE  PortInv'
  BY <1>1, DelegationAssumption DEF StartPrepare
<1>2. ASSUME NEW r \in Run, CheckUnchanged(r)
      PROVE  PortInv'
  BY <1>2 DEF CheckUnchanged
<1>3. ASSUME NEW r \in Run, NEW w \in Worker, PublishPackage(r, w)
      PROVE  PortInv'
  BY <1>3 DEF PublishPackage
<1>4. ASSUME NEW r \in Run, PublishConfig(r)
      PROVE  PortInv'
  BY <1>4 DEF PublishConfig
<1>5. ASSUME NEW c \in Chain, NEW r \in Run, LoadBundle(c, r)
      PROVE  PortInv'
  BY <1>5, DelegationAssumption DEF LoadBundle
<1>6. ASSUME NEW c \in Chain, ReadBefore(c)
      PROVE  PortInv'
  <2>1. target[c] \in Run /\ prep[target[c]] = "checked"
    BY <1>6, DelegationAssumption DEF ReadBefore
  <2>2. prepared[target[c]] <= version
    BY <2>1
  <2>3. \A d \in Chain : ChainPort(d)'
    <3>1. ASSUME NEW d \in Chain, d # c PROVE ChainPort(d)'
      BY <1>6, <3>1 DEF ReadBefore
    <3>2. ChainPort(c)'
      <4>1. CASE version = prepared[target[c]]
        <5>1. /\ pc'[c] = "running" /\ UNCHANGED <<target, prep, prepared, version>>
              /\ port'[c] = [run |-> target[c], version |-> prepared[target[c]]]
          BY <1>6, <4>1 DEF ReadBefore
        <5>2. port'[c].version = prepared[target[c]] /\ port'[c] # Nil
          BY <5>1, <2>1, DelegationAssumption DEF Bundle
        <5> QED
          BY <1>6, <2>1, <2>2, <5>1, <5>2 DEF ReadBefore
      <4>2. CASE version # prepared[target[c]]
        BY <1>6, <4>2, <2>1 DEF ReadBefore
      <4> QED
        BY <4>1, <4>2
    <3> HIDE DEF ChainPort
    <3> QED
      BY <3>1, <3>2
  <2> QED
    BY <1>6, <2>3 DEF ReadBefore
<1>7. ASSUME NEW c \in Chain, Collect(c)
      PROVE  PortInv'
  BY <1>7 DEF Collect, AllAnswered
<1>8. ASSUME NEW c \in Chain, CreateResult(c)
      PROVE  PortInv'
  BY <1>8 DEF CreateResult
<1>9. ASSUME NEW c \in Chain, Crash(c)
      PROVE  PortInv'
  BY <1>9 DEF Crash
<1>10. ASSUME BusinessCommand
      PROVE  PortInv'
  BY <1>10 DEF BusinessCommand
<1>11. ASSUME NEW c \in Chain, NEW w \in Worker, Dispatch(c, w), UNCHANGED <<bundles, chains>>
      PROVE  PortInv'
  BY <1>11 DEF Dispatch
<1>12. ASSUME NEW c \in Chain, NEW w \in Worker, Send(c, w), UNCHANGED <<bundles, chains>>
      PROVE  PortInv'
  <2>1. port[c] # Nil
    BY <1>12 DEF Send
  <2>2. UNCHANGED <<version, port, work>>
    BY <1>12 DEF Send
  <2>3. \A d \in Chain, v \in Worker :
          /\ helper'[d][v] # "none" => port[d] # Nil
          /\ sent'[d][v] # 0 => port[d] # Nil
          /\ call'[d][v] \in {"dispatching", "awaiting", "answered"} => port[d] # Nil
    BY <1>12, <2>1 DEF Send
  <2> QED
    BY <1>12, <2>2, <2>3
<1>13. ASSUME NEW c \in Chain, NEW w \in Worker, CallFails(c, w), UNCHANGED <<bundles, chains>>
      PROVE  PortInv'
  BY <1>13 DEF CallFails
<1>14. ASSUME NEW c \in Chain, NEW w \in Worker, AwaitResponse(c, w), UNCHANGED <<bundles, chains>>
      PROVE  PortInv'
  BY <1>14 DEF AwaitResponse
<1>15. ASSUME NEW c \in Chain, NEW w \in Worker, Work(c, w), UNCHANGED <<bundles, chains>>
      PROVE  PortInv'
  <2>1. port[c] # Nil /\ \E s \in {"good", "bad"} : work' = [work EXCEPT ![c][w] = s]
    BY <1>15 DEF Work
  <2>2. \A d \in Chain, v \in Worker : work'[d][v] # "none" => port[d] # Nil
    BY <2>1
  <2> QED
    BY <1>15, <2>2 DEF Work
<1>16. ASSUME NEW c \in Chain, NEW w \in Worker, Reply(c, w), UNCHANGED <<bundles, chains>>
      PROVE  PortInv'
  BY <1>16 DEF Reply, Post
<1>17. ASSUME UNCHANGED vars
      PROVE  PortInv'
  BY <1>17 DEF vars
<1> QED
  BY <1>1, <1>2, <1>3, <1>4, <1>5, <1>6, <1>7, <1>8, <1>9, <1>10, <1>11, <1>12, <1>13, <1>14, <1>15, <1>16, <1>17 DEF Next, PrepareNext, ChainNext, CallNext, DelegationNext

\* The Program's version bounds what was posted, and a good output is paid for.
LEMMA RoomStep == DemoTypeOK /\ PortInv /\ RoomInv /\ [Next]_vars => RoomInv'
<1> SUFFICES ASSUME DemoTypeOK, PortInv, RoomInv, [Next]_vars PROVE RoomInv'
  OBVIOUS
<1> DEFINE Fine(e, v) ==
      /\ port[e.chain] # Nil
      /\ port[e.chain].version <= e.at /\ e.at <= version
      /\ (e.kind = "reply" /\ e.good) => <<port[e.chain].run, v>> \in called
<1>1. Kept
  BY StepKeeps
<1>2. /\ version \in Int /\ version' \in Int
      /\ room \in [Worker -> Seq(Event)] /\ port \in [Chain -> Bundle \cup {Nil}]
  BY TypeStep DEF DemoTypeOK, DelegationTypeOK, Version
<1>3. ASSUME NEW v \in Worker, NEW e \in Event, Fine(e, v)
      PROVE  Fine(e, v)'
  <2>1. e.chain \in Chain /\ e.at \in Int
    BY DEF Event, Version
  <2>2. port'[e.chain] = port[e.chain]
    BY <1>1, <1>3, <2>1 DEF Kept
  <2> QED
    BY <1>1, <1>2, <1>3, <2>1, <2>2 DEF Kept
<1>4. ASSUME NEW v \in Worker, NEW i \in 1 .. Len(room[v])
      PROVE  room[v][i] \in Event /\ Fine(room[v][i], v) /\ room'[v][i] = room[v][i]
  <2>1. room[v][i] \in Event
    BY <1>2
  <2> QED
    BY <1>1, <2>1 DEF RoomInv, Kept, RoomKept
<1>5. ASSUME NEW v \in Worker, NEW i \in 1 .. Len(room'[v])
      PROVE  Fine(room[v][i], v)'
  <2>1. CASE i \in 1 .. Len(room[v])
    <3>1. PICK e \in Event : e = room[v][i]
      BY <1>4, <2>1
    <3>2. Fine(e, v) /\ room'[v][i] = e
      BY <1>4, <2>1, <3>1
    <3>3. Fine(e, v)'
      BY <1>3, <3>2
    <3> QED
      BY <3>2, <3>3
  <2>2. CASE i \notin 1 .. Len(room[v])
    <3>1. ~UNCHANGED room
      BY <2>2
    <3>2. PICK c \in Chain, w \in Worker, e \in Event :
            /\ room' = [room EXCEPT ![w] = Append(@, e)]
            /\ port[c] # Nil /\ e.chain = c /\ e.at = version /\ UNCHANGED version
            /\ e.kind = "reply" => (e.good => work[c][w] = "good")
      BY <3>1, RoomStepCases DEF vars, delegation
    <3>3. v = w /\ room'[v][i] = e
      <4>1. /\ Len(room'[w]) = Len(room[w]) + 1 /\ room'[w][Len(room[w]) + 1] = e
            /\ \A u \in Worker \ {w} : room'[u] = room[u]
        BY <3>2, PostAppends
      <4>2. v = w
        BY <2>2, <4>1
      <4>3. Len(room[w]) \in Nat
        BY <1>2
      <4>4. i = Len(room[w]) + 1
        BY <2>2, <4>1, <4>2, <4>3
      <4> QED
        BY <4>1, <4>2, <4>4
    <3>4. port[c].version <= version
      BY <3>2 DEF PortInv, ChainPort
    <3>5. work[c][w] = "good" => <<port[c].run, w>> \in called
      BY DEF RoomInv
    <3>6. Fine(e, w)
      BY <1>2, <3>2, <3>4, <3>5
    <3>7. Fine(e, w)'
      BY <1>3, <3>6
    <3> QED
      BY <3>3, <3>7
  <2> QED
    BY <2>1, <2>2
<1>6. ASSUME NEW v \in Worker, NEW d \in Chain, work'[d][v] = "good"
      PROVE  <<port'[d].run, v>> \in called'
  <2>1. CASE work[d][v] = "good"
    BY <1>1, <2>1 DEF RoomInv, Kept, PortInv, ChainPort
  <2>2. CASE work[d][v] # "good"
    <3>1. PICK c \in Chain, w \in Worker : Work(c, w) \/ Reply(c, w)
      <4>1. ASSUME UNCHANGED work PROVE FALSE
        BY <1>6, <2>2, <4>1
      <4> QED
        BY <4>1 DEF Next, PrepareNext, ChainNext, CallNext, DelegationNext, StartPrepare,
           CheckUnchanged, PublishPackage, PublishConfig, LoadBundle, ReadBefore, Collect,
           CreateResult, Crash, BusinessCommand, Dispatch, Send, CallFails, AwaitResponse,
           vars, delegation
    <3>2. work \in PerCall({"none", "good", "bad", "replied"})
      BY DEF DemoTypeOK, DelegationTypeOK
    <3>3. Work(c, w) /\ c = d /\ w = v
      BY <1>6, <2>2, <3>1, <3>2 DEF Work, Reply, PerCall
    <3> QED
      BY <1>6, <3>2, <3>3 DEF Work, PerCall
  <2> QED
    BY <2>1, <2>2
<1> QED
  BY <1>5, <1>6 DEF RoomInv

\* What a reply was accepted for remains true, and a poll checks it.
LEMMA AnswerStep ==
  DemoTypeOK /\ PortInv /\ RoomInv /\ AnswerInv /\ [Next]_vars => AnswerInv'
<1> SUFFICES ASSUME DemoTypeOK, PortInv, RoomInv, AnswerInv, [Next]_vars,
                    NEW d \in Chain, NEW v \in Worker, call'[d][v] = "answered"
             PROVE  Accepted(d, v)'
  BY DEF AnswerInv
<1>1. Kept
  BY StepKeeps
<1>2. /\ room \in [Worker -> Seq(Event)]
      /\ call \in PerCall({"idle", "dispatching", "awaiting"} \cup Ended)
      /\ answer \in PerCall(Nat) /\ sent \in PerCall(Nat) /\ cursor \in PerCall(Nat)
  BY DEF DemoTypeOK, DelegationTypeOK
<1>3. CASE call[d][v] = "answered"
  <2>1. Accepted(d, v)
    BY <1>3 DEF AnswerInv
  <2>2. answer'[d][v] = answer[d][v] /\ answer[d][v] \in 1 .. Len(room'[v])
        /\ room'[v][answer[d][v]] = room[v][answer[d][v]]
    <3>1. Len(room[v]) \in Nat /\ Len(room'[v]) \in Nat
      BY <1>2, TypeStep DEF DemoTypeOK, DelegationTypeOK
    <3> QED
      BY <1>1, <1>3, <2>1, <3>1 DEF Kept, RoomKept, Accepted
  <2>3. Answer(d, v)' = Answer(d, v)
    BY <2>2 DEF Answer
  <2>4. Answer(d, v) \in Event
    BY <1>2, <2>1 DEF Accepted, Answer
  <2>5. port'[d] = port[d] /\ port'[Answer(d, v).chain] = port[Answer(d, v).chain]
    <3>1. port[d] # Nil
      BY <1>3 DEF PortInv, ChainPort
    <3>2. port[Answer(d, v).chain] # Nil /\ Answer(d, v).chain \in Chain
      BY <2>1, <2>4 DEF RoomInv, Accepted, Answer, Event
    <3> QED
      BY <1>1, <3>1, <3>2 DEF Kept
  <2> QED
    BY <2>1, <2>2, <2>3, <2>5 DEF Accepted, SameBinding
<1>4. CASE call[d][v] # "answered"
  <2>1. PICK c \in Chain, w \in Worker : AwaitResponse(c, w)
    <3>1. ~UNCHANGED call
      BY <1>4
    <3>2. ASSUME NEW c \in Chain, NEW w \in Worker,
                 Dispatch(c, w) \/ Send(c, w) \/ CallFails(c, w)
          PROVE  FALSE
      <4>1. \E s \in {"dispatching", "awaiting", "failed", call[c][w]} :
              call' = [call EXCEPT ![c][w] = s]
        BY <1>2, <3>2 DEF Dispatch, Send, CallFails
      <4> QED
        BY <1>2, <1>4, <4>1 DEF PerCall
    <3>3. ASSUME NEW c \in Chain, Crash(c) PROVE FALSE
      BY <1>2, <1>4, <3>3 DEF Crash, PerCall, Ended
    <3> QED
      BY <3>1, <3>2, <3>3 DEF Next, PrepareNext, ChainNext, CallNext, DelegationNext,
         StartPrepare, CheckUnchanged, PublishPackage, PublishConfig, LoadBundle, ReadBefore,
         Collect, CreateResult, BusinessCommand, Work, Reply, vars, delegation
  <2>2. PICK i \in Valid(d, v) :
          /\ SameBinding(v, port[room[v][i].chain], port[d])
          /\ answer'[d][v] = i /\ UNCHANGED <<room, port>>
    BY <1>2, <1>4, <2>1 DEF AwaitResponse, PerCall
  <2>3. i \in 1 .. Len(room[v]) /\ Candidate(d, v, i) /\ room[v][i].good
    <3>1. cursor[d][v] \in Nat /\ Len(room[v]) \in Nat
      BY <1>2 DEF PerCall
    <3> QED
      BY <2>2, <3>1 DEF Valid
  <2> QED
    BY <2>2, <2>3 DEF Accepted, Answer, Candidate, SameBinding
<1> QED
  BY <1>3, <1>4

\* Once a chain has an answer of every Worker for its version, it keeps them.
LEMMA CurrentKept ==
  ASSUME DemoTypeOK, PortInv, AnswerInv, [Next]_vars, NEW c \in Chain, Current(c)
  PROVE  Current(c)'
<1>1. Kept
  BY StepKeeps
<1>2. ASSUME NEW w \in Worker
      PROVE  call'[c][w] = "answered" /\ Answer(c, w)' = Answer(c, w)
  <2>1. answer[c][w] \in 1 .. Len(room[w])
    BY DEF Current, AnswerInv, Accepted
  <2> QED
    BY <1>1, <2>1 DEF Current, Kept, RoomKept, Answer
<1>3. port'[c] = port[c]
  BY <1>1 DEF Current, Kept
<1> QED
  BY <1>2, <1>3 DEF Current

\* With the second reading at the version of the bundle, no answer can be of
\* another one.
LEMMA CollectCurrent ==
  ASSUME DemoTypeOK, PortInv, RoomInv, AnswerInv, NEW c \in Chain,
         pc[c] = "running", AllAnswered(c), version = port[c].version
  PROVE  Current(c)
<1>1. port[c] # Nil
  BY DEF PortInv, ChainPort
<1>2. ASSUME NEW w \in Worker
      PROVE  Answer(c, w).at = port[c].version
  <2>1. Accepted(c, w)
    BY DEF AllAnswered, AnswerInv
  <2>2. room[w] \in Seq(Event) /\ version \in Int
    BY DEF DemoTypeOK, DelegationTypeOK, Version
  <2>3. Answer(c, w) \in Event
    BY <2>1, <2>2 DEF Accepted, Answer
  <2>4. Answer(c, w).at \in Int
    BY <2>3 DEF Event, Version
  <2>5. port[Answer(c, w).chain].version <= Answer(c, w).at /\ Answer(c, w).at <= version
    BY <2>1 DEF RoomInv, Accepted, Answer
  <2>6. port[Answer(c, w).chain].version = version
    BY <2>1 DEF Accepted, SameBinding
  <2> QED
    BY <2>2, <2>4, <2>5, <2>6
<1> QED
  BY <1>1, <1>2 DEF Current, AllAnswered

\* A result is what its chain published, and a chain publishes once.
LEMMA DraftStep ==
  DemoTypeOK /\ PortInv /\ RoomInv /\ AnswerInv /\ DraftInv /\ [Next]_vars => DraftInv'
<1> SUFFICES ASSUME DemoTypeOK, PortInv, RoomInv, AnswerInv, DraftInv, [Next]_vars
             PROVE  DraftInv'
  OBVIOUS
<1>1. Kept
  BY StepKeeps
<1>2. /\ pc \in [Chain -> {"new", "loaded", "running", "collected", "done"}]
      /\ draft \in [Chain -> {"completed", "failed"}]
      /\ result \in [Run -> Result \cup {Nil}] /\ target \in [Chain -> Run \cup {Nil}]
  BY DEF DemoTypeOK
<1>3. ASSUME NEW c \in Chain, draft'[c] = "completed"
      PROVE  Current(c)'
  <2>1. CASE draft[c] = "completed"
    BY <2>1, CurrentKept DEF DraftInv
  <2>2. CASE draft[c] # "completed"
    <3>1. PICK d \in Chain : Collect(d)
      BY <1>3, <2>2 DEF Next, PrepareNext, ChainNext, CallNext, DelegationNext, StartPrepare,
         CheckUnchanged, PublishPackage, PublishConfig, LoadBundle, ReadBefore, CreateResult,
         Crash, BusinessCommand, vars, chains
    <3>2. d = c /\ pc[c] = "running" /\ AllAnswered(c) /\ version = port[c].version
      BY <1>2, <1>3, <2>2, <3>1 DEF Collect
    <3>3. Current(c)
      BY <3>2, CollectCurrent
    <3> QED
      BY <3>3, CurrentKept
  <2> QED
    BY <2>1, <2>2
<1>4. ASSUME NEW r \in Run, result'[r] # Nil
      PROVE  /\ target'[result'[r].chain] = r
             /\ result'[r].status = draft'[result'[r].chain]
             /\ pc'[result'[r].chain] = "done"
  <2>1. CASE result[r] # Nil
    <3> DEFINE c == result[r].chain
    <3>1. c \in Chain /\ target[c] = r /\ result[r].status = draft[c] /\ pc[c] = "done"
      BY <1>2, <2>1 DEF DraftInv, Result
    <3>2. result'[r] = result[r]
      BY <1>2, <2>1 DEF Next, PrepareNext, ChainNext, CallNext, StartPrepare,
         CheckUnchanged, PublishPackage, PublishConfig, LoadBundle, ReadBefore, Collect,
         CreateResult, Crash, BusinessCommand, vars, chains
    <3>3. pc'[c] = "done" /\ draft'[c] = draft[c]
      BY <1>2, <3>1 DEF Next, PrepareNext, ChainNext, CallNext, StartPrepare,
         CheckUnchanged, PublishPackage, PublishConfig, LoadBundle, ReadBefore, Collect,
         CreateResult, Crash, BusinessCommand, vars, chains
    <3>4. target'[c] = target[c]
      BY <1>1, <3>1, DelegationAssumption DEF Kept
    <3> QED
      BY <3>1, <3>2, <3>3, <3>4
  <2>2. CASE result[r] = Nil
    <3>1. PICK c \in Chain : CreateResult(c)
      BY <1>4, <2>2 DEF Next, PrepareNext, ChainNext, CallNext, StartPrepare,
         CheckUnchanged, PublishPackage, PublishConfig, LoadBundle, ReadBefore, Collect,
         Crash, BusinessCommand, vars, chains
    <3>2. target[c] = r /\ result'[r] = [chain |-> c, status |-> draft[c]]
      BY <1>2, <1>4, <2>2, <3>1 DEF CreateResult
    <3> QED
      BY <1>2, <3>1, <3>2 DEF CreateResult
  <2> QED
    BY <2>1, <2>2
<1> QED
  BY <1>3, <1>4 DEF DraftInv

\* Only the request and the polls of a call change what it has read.
LEMMA CallMoves ==
  ASSUME DemoTypeOK, [Next]_vars, NEW d \in Chain, NEW v \in Worker,
         call'[d][v] \in {"awaiting", "answered"}
  PROVE  \/ Send(d, v)
         \/ AwaitResponse(d, v)
         \/ /\ call'[d][v] = call[d][v] /\ sent'[d][v] = sent[d][v]
            /\ cursor'[d][v] = cursor[d][v] /\ answer'[d][v] = answer[d][v]
            /\ helper[d][v] = "sent" => helper'[d][v] = "sent"
<1> DEFINE Same == /\ call'[d][v] = call[d][v] /\ sent'[d][v] = sent[d][v]
                   /\ cursor'[d][v] = cursor[d][v] /\ answer'[d][v] = answer[d][v]
                   /\ helper[d][v] = "sent" => helper'[d][v] = "sent"
<1>1. /\ helper \in PerCall({"none", "baselined", "sent"})
      /\ call \in PerCall({"idle", "dispatching", "awaiting"} \cup Ended)
      /\ sent \in PerCall(Nat) /\ cursor \in PerCall(Nat) /\ answer \in PerCall(Nat)
  BY DEF DemoTypeOK, DelegationTypeOK
<1>2. ASSUME NEW c \in Chain, NEW w \in Worker, Dispatch(c, w)
      PROVE  Same
  BY <1>1, <1>2 DEF Dispatch, PerCall
<1>3. ASSUME NEW c \in Chain, NEW w \in Worker, Send(c, w), c # d \/ w # v
      PROVE  Same
  BY <1>1, <1>3 DEF Send, PerCall
<1>4. ASSUME NEW c \in Chain, NEW w \in Worker, CallFails(c, w)
      PROVE  Same
  BY <1>1, <1>4 DEF CallFails, PerCall
<1>5. ASSUME NEW c \in Chain, NEW w \in Worker, AwaitResponse(c, w), c # d \/ w # v
      PROVE  Same
  BY <1>1, <1>5 DEF AwaitResponse, PerCall
<1>6. ASSUME NEW c \in Chain, Crash(c)
      PROVE  Same
  BY <1>1, <1>6 DEF Crash, PerCall, Ended
<1>7. CASE UNCHANGED <<helper, call, sent, cursor, answer>>
  BY <1>7
<1>8. ASSUME NEW c \in Chain, NEW w \in Worker, Work(c, w) \/ Reply(c, w)
      PROVE  Same
  BY <1>8 DEF Work, Reply
<1> HIDE DEF Same
<1>9. \/ UNCHANGED <<helper, call, sent, cursor, answer>>
      \/ \E c \in Chain : Crash(c)
      \/ \E c \in Chain, w \in Worker : DelegationNext(c, w)
  BY DEF Next, PrepareNext, ChainNext, CallNext, StartPrepare, CheckUnchanged, PublishPackage,
     PublishConfig, LoadBundle, ReadBefore, Collect, CreateResult, BusinessCommand, vars,
     delegation
<1> QED
  BY <1>2, <1>3, <1>4, <1>5, <1>6, <1>7, <1>8, <1>9 DEF DelegationNext, Same

\* A poll adds what it finds valid to what was found before, and goes on only
\* when that is nothing.
LEMMA ReadStep == DemoTypeOK /\ PortInv /\ ReadInv /\ [Next]_vars => ReadInv'
<1> SUFFICES ASSUME DemoTypeOK, PortInv, ReadInv, [Next]_vars, NEW d \in Chain, NEW v \in Worker,
                    call'[d][v] \in {"awaiting", "answered"}
             PROVE  /\ helper'[d][v] = "sent"
                    /\ cursor'[d][v] <= Len(room'[v])
                    /\ ValidSoFar(d, v)' =
                         IF call'[d][v] = "awaiting" THEN {} ELSE {answer'[d][v]}
  BY DEF ReadInv
<1>1. Kept
  BY StepKeeps
<1>2. /\ room \in [Worker -> Seq(Event)]
      /\ Len(room[v]) \in Nat /\ Len(room'[v]) \in Nat
      /\ helper \in PerCall({"none", "baselined", "sent"})
      /\ call \in PerCall({"idle", "dispatching", "awaiting"} \cup Ended)
      /\ sent \in PerCall(Nat) /\ cursor \in PerCall(Nat) /\ answer \in PerCall(Nat)
      /\ sent[d][v] \in Nat /\ cursor[d][v] \in Nat
  <2>1. /\ room \in [Worker -> Seq(Event)] /\ room' \in [Worker -> Seq(Event)]
        /\ helper \in PerCall({"none", "baselined", "sent"})
        /\ call \in PerCall({"idle", "dispatching", "awaiting"} \cup Ended)
        /\ sent \in PerCall(Nat) /\ cursor \in PerCall(Nat) /\ answer \in PerCall(Nat)
    BY TypeStep DEF DemoTypeOK, DelegationTypeOK
  <2>2. room[v] \in Seq(Event) /\ room'[v] \in Seq(Event)
    BY <2>1
  <2>3. sent[d][v] \in Nat /\ cursor[d][v] \in Nat
    BY <2>1 DEF PerCall
  <2> QED
    BY <2>1, <2>2, <2>3
<1>3. CASE Send(d, v)
  <2>1. call[d][v] \notin {"awaiting", "answered"}
    BY <1>3 DEF ReadInv, Send
  <2>2. /\ call'[d][v] = "awaiting" /\ helper'[d][v] = "sent"
        /\ sent'[d][v] = Len(room[v]) + 1 /\ cursor'[d][v] = Len(room[v]) + 1
    BY <1>2, <1>3, <2>1 DEF Send, PerCall
  <2>3. Len(room'[v]) = Len(room[v]) + 1
    BY <1>2, <1>3 DEF Send, Post
  <2>4. ValidSoFar(d, v)' = {}
    BY <1>2, <2>2 DEF ValidSoFar, Candidate
  <2> QED
    BY <1>2, <2>2, <2>3, <2>4
<1>4. CASE AwaitResponse(d, v)
  <2>1. /\ call[d][v] = "awaiting" /\ cursor[d][v] < Len(room[v])
        /\ cursor'[d][v] = Len(room[v])
        /\ UNCHANGED <<room, helper, sent>>
    BY <1>2, <1>4 DEF AwaitResponse, PerCall
  <2>2. ValidSoFar(d, v) = {} /\ helper[d][v] = "sent"
    BY <2>1 DEF ReadInv
  <2>3. ValidSoFar(d, v)' = Valid(d, v)
    <3>1. ASSUME NEW i \in 1 .. Len(room[v]), Candidate(d, v, i), room[v][i].good
          PROVE  i \in (cursor[d][v] + 1) .. Len(room[v])
      BY <1>2, <2>1, <2>2, <3>1 DEF ValidSoFar
    <3>2. \A i : i \in (cursor[d][v] + 1) .. Len(room[v]) => i \in 1 .. Len(room[v])
      BY <1>2
    <3>3. ValidSoFar(d, v)' = {i \in 1 .. Len(room[v]) : Candidate(d, v, i) /\ room[v][i].good}
      BY <2>1 DEF ValidSoFar, Candidate
    <3> QED
      BY <3>1, <3>2, <3>3 DEF Valid
  <2>4. \/ Valid(d, v) = {} /\ call'[d][v] = "awaiting"
        \/ Valid(d, v) = {answer'[d][v]} /\ call'[d][v] = "answered"
    BY <1>2, <1>4, <2>1 DEF AwaitResponse, PerCall
  <2> QED
    BY <1>2, <2>1, <2>2, <2>3, <2>4
<1>5. CASE /\ call'[d][v] = call[d][v] /\ sent'[d][v] = sent[d][v]
           /\ cursor'[d][v] = cursor[d][v] /\ answer'[d][v] = answer[d][v]
           /\ helper[d][v] = "sent" => helper'[d][v] = "sent"
  <2>1. /\ helper[d][v] = "sent" /\ cursor[d][v] <= Len(room[v])
        /\ ValidSoFar(d, v) = IF call[d][v] = "awaiting" THEN {} ELSE {answer[d][v]}
    BY <1>5 DEF ReadInv
  <2>2. Len(room[v]) <= Len(room'[v])
        /\ \A i \in 1 .. cursor[d][v] : room'[v][i] = room[v][i]
    BY <1>1, <1>2, <2>1 DEF Kept, RoomKept
  <2>3. ValidSoFar(d, v)' = ValidSoFar(d, v)
    BY <1>5, <2>2 DEF ValidSoFar, Candidate
  <2> QED
    BY <1>2, <1>5, <2>1, <2>2, <2>3
<1> QED
  BY <1>3, <1>4, <1>5, CallMoves

\* The invariant holds in every reachable state.
THEOREM DemoInvariant == Spec => []IInv
<1>1. IInv /\ [Next]_vars => IInv'
  BY TypeStep, PortStep, RoomStep, AnswerStep, DraftStep, ReadStep DEF IInv
<1> QED
  BY InvInit, <1>1, PTL DEF Spec

----------------------------------------------------------------------------
(* The properties *)

\* Every state is well typed.
THEOREM DemoTypeCorrect == Spec => []DemoTypeOK
<1>1. IInv => DemoTypeOK
  BY DEF IInv
<1> QED
  BY DemoInvariant, <1>1, PTL

\* A completed run has only answers of the version it was prepared for.
THEOREM DemoCurrent == Spec => []CompletedRunIsCurrent
<1>1. IInv => CompletedRunIsCurrent
  <2> SUFFICES ASSUME IInv, NEW r \in Run, result[r] # Nil, result[r].status = "completed",
                      NEW w \in Worker
               PROVE  Answer(result[r].chain, w).at = prepared[r]
    BY DEF CompletedRunIsCurrent
  <2> DEFINE c == result[r].chain
  <2>1. c \in Chain /\ target[c] = r /\ draft[c] = "completed"
    BY DEF IInv, DraftInv, DemoTypeOK, Result
  <2>2. Current(c)
    BY <2>1 DEF IInv, DraftInv
  <2>3. port[c].version = prepared[r]
    <3>1. ChainPort(c) /\ port[c] # Nil
      BY <2>1, <2>2 DEF IInv, PortInv, Current
    <3> QED
      BY <2>1, <3>1 DEF ChainPort
  <2> QED
    BY <2>2, <2>3 DEF Current
<1> QED
  BY DemoInvariant, <1>1, PTL

\* A reply that can be told from those of other runs was bought by this run.
THEOREM DemoAttributed == Spec => []AnswersBelongToTheirRun
<1>1. IInv => AnswersBelongToTheirRun
  <2> SUFFICES ASSUME IInv, NEW c \in Chain, NEW w \in Worker, call[c][w] = "answered",
                      Attributable(c, w)
               PROVE  /\ port[Answer(c, w).chain].run = port[c].run
                      /\ <<port[c].run, w>> \in called
    BY DEF AnswersBelongToTheirRun
  <2>1. Accepted(c, w)
    BY DEF IInv, AnswerInv
  <2>2. port[Answer(c, w).chain].run = port[c].run
    BY <2>1 DEF Accepted, SameBinding, Attributable
  <2>3. <<port[Answer(c, w).chain].run, w>> \in called
    BY <2>1 DEF IInv, RoomInv, Accepted, Answer
  <2> QED
    BY <2>2, <2>3
<1> QED
  BY DemoInvariant, <1>1, PTL

\* Among all that a helper has read, an accepted reply is the only valid one,
\* and a call that waits has seen none.
THEOREM DemoNoReplyPassedOver == Spec => []NoReplyIsPassedOver
<1>1. IInv => NoReplyIsPassedOver
  BY DEF IInv, ReadInv, NoReplyIsPassedOver
<1> QED
  BY DemoInvariant, <1>1, PTL

\* A result is never replaced.
THEOREM DemoResultFinal == Spec => ResultIsFinal
<1>1. IInv /\ [Next]_vars => [\A r \in Run : result[r] # Nil => result'[r] = result[r]]_vars
  <2> SUFFICES ASSUME IInv, Next, NEW r \in Run, result[r] # Nil
               PROVE  result'[r] = result[r]
    OBVIOUS
  <2>1. result \in [Run -> Result \cup {Nil}]
    BY DEF IInv, DemoTypeOK
  <2> QED
    BY <2>1 DEF Next, PrepareNext, ChainNext, CallNext, StartPrepare, CheckUnchanged,
       PublishPackage, PublishConfig, LoadBundle, ReadBefore, Collect, CreateResult, Crash,
       BusinessCommand, chains
<1> QED
  BY DemoInvariant, <1>1, PTL DEF Spec, ResultIsFinal

=============================================================================
