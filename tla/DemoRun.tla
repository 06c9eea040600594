------------------------------ MODULE DemoRun -------------------------------
(***************************************************************************)
(* A run of the in-place demo (src/scripts/demo/                           *)
(* agentteams_in_place_demo.py).  "prepare" writes a bundle for one        *)
(* version of the Program into a fresh directory and publishes its         *)
(* configuration last; "run-chain" loads the bundle, compares the version, *)
(* asks the three Workers at once, reads the version again and creates     *)
(* result.json.  Both are processes that may die between two steps, both   *)
(* may be started again for the same directory, and the Program may be     *)
(* changed by other commands at any time.                                  *)
(***************************************************************************)
EXTENDS MatrixDelegation

VARIABLES
  prep,      \* run -> how far its preparation has come
  prepared,  \* run -> the version of the Program the preparation has read
  packages,  \* run -> the Workers whose package is in the directory
  config,    \* the runs whose configuration is published
  pc,        \* chain -> the step it has reached
  target,    \* chain -> the run it was started for, or Nil
  draft,     \* chain -> the status it is about to publish
  result     \* run -> the chain and status of its result.json, or Nil

bundles == <<prep, prepared, packages, config>>
chains == <<pc, target, draft, result>>
vars == <<delegation, bundles, chains>>

Result == [chain : Chain, status : {"completed", "failed"}]

----------------------------------------------------------------------------
(* prepare *)

\* A directory is created once, a second prepare finds it and stops; then the
\* Program is read.
StartPrepare(r) ==
  /\ prep[r] = "none"
  /\ prep' = [prep EXCEPT ![r] = "read"]
  /\ prepared' = [prepared EXCEPT ![r] = version]
  /\ UNCHANGED <<delegation, packages, config, chains>>

\* The snapshot and three reservations are committed (ModelBudget) and the
\* Program, read again, is at the version of the first reading.
CheckUnchanged(r) ==
  /\ prep[r] = "read"
  /\ version = prepared[r]
  /\ prep' = [prep EXCEPT ![r] = "checked"]
  /\ UNCHANGED <<delegation, prepared, packages, config, chains>>

PublishPackage(r, w) ==
  /\ prep[r] = "checked"
  /\ w \notin packages[r]
  /\ packages' = [packages EXCEPT ![r] = @ \cup {w}]
  /\ UNCHANGED <<delegation, prep, prepared, config, chains>>

\* "Publish the config last.  Its presence is the bundle commit marker."
PublishConfig(r) ==
  /\ prep[r] = "checked"
  /\ packages[r] = Worker
  /\ r \notin config
  /\ config' = config \cup {r}
  /\ UNCHANGED <<delegation, prep, prepared, packages, chains>>

----------------------------------------------------------------------------
(* run-chain *)

\* The directory holds a whole bundle and no result.
LoadBundle(c, r) ==
  /\ pc[c] = "new"
  /\ result[r] = Nil
  /\ r \in config /\ packages[r] = Worker
  /\ pc' = [pc EXCEPT ![c] = "loaded"]
  /\ target' = [target EXCEPT ![c] = r]
  /\ UNCHANGED <<delegation, bundles, draft, result>>

\* The Manager reads the Program; at another version the chain stops here.
ReadBefore(c) ==
  /\ pc[c] = "loaded"
  /\ LET r == target[c] IN
       IF version = prepared[r]
       THEN /\ pc' = [pc EXCEPT ![c] = "running"]
            /\ port' = [port EXCEPT ![c] = [run |-> r, version |-> prepared[r]]]
       ELSE pc' = [pc EXCEPT ![c] = "done"] /\ UNCHANGED port
  /\ UNCHANGED <<version, room, helper, sent, cursor, call, answer, work, called,
                 bundles, target, draft, result>>

AllAnswered(c) == \A w \in Worker : call[c][w] = "answered"

\* Mutant: the version is not read again.
CollectOnly(c) ==
  /\ pc[c] = "running"
  /\ \A w \in Worker : call[c][w] \in Ended
  /\ pc' = [pc EXCEPT ![c] = "collected"]
  /\ draft' = [draft EXCEPT ![c] = IF AllAnswered(c) THEN "completed" ELSE "failed"]
  /\ UNCHANGED <<delegation, bundles, target, result>>

\* All three calls have ended and the Manager reads the Program again.
Collect(c) ==
  /\ pc[c] = "running"
  /\ \A w \in Worker : call[c][w] \in Ended
  /\ pc' = [pc EXCEPT ![c] = "collected"]
  /\ draft' = [draft EXCEPT ![c] =
       IF AllAnswered(c) /\ version = port[c].version THEN "completed" ELSE "failed"]
  /\ UNCHANGED <<delegation, bundles, target, result>>

\* The file is linked into place unless another chain has created it.
CreateResult(c) ==
  /\ pc[c] = "collected"
  /\ pc' = [pc EXCEPT ![c] = "done"]
  /\ result' = [result EXCEPT ![target[c]] =
       IF @ = Nil THEN [chain |-> c, status |-> draft[c]] ELSE @]
  /\ UNCHANGED <<delegation, bundles, target, draft>>

\* The process dies; its helpers, in a container, do not.
Crash(c) ==
  /\ pc[c] \in {"loaded", "running", "collected"}
  /\ pc' = [pc EXCEPT ![c] = "done"]
  /\ call' = [call EXCEPT ![c] =
       [w \in Worker |-> IF @[w] \in Ended THEN @[w] ELSE "failed"]]
  /\ UNCHANGED <<version, port, room, helper, sent, cursor, answer, work, called,
                 bundles, target, draft, result>>

\* A command of another client changes the Program.
BusinessCommand ==
  /\ version < MaxVersion
  /\ version' = version + 1
  /\ UNCHANGED <<port, room, helper, sent, cursor, call, answer, work, called,
                 bundles, chains>>

----------------------------------------------------------------------------

Init ==
  /\ DelegationInit
  /\ prep = [r \in Run |-> "none"]
  /\ prepared = [r \in Run |-> 0]
  /\ packages = [r \in Run |-> {}]
  /\ config = {}
  /\ pc = [c \in Chain |-> "new"]
  /\ target = [c \in Chain |-> Nil]
  /\ draft = [c \in Chain |-> "failed"]
  /\ result = [r \in Run |-> Nil]

PrepareNext(r) ==
  \/ StartPrepare(r)
  \/ CheckUnchanged(r)
  \/ \E w \in Worker : PublishPackage(r, w)
  \/ PublishConfig(r)

ChainNext(c) ==
  \/ \E r \in Run : LoadBundle(c, r)
  \/ ReadBefore(c)
  \/ Collect(c)
  \/ CreateResult(c)
  \/ Crash(c)

CallNext(c, w) == DelegationNext(c, w) /\ UNCHANGED <<bundles, chains>>

Next ==
  \/ \E r \in Run : PrepareNext(r)
  \/ \E c \in Chain : ChainNext(c)
  \/ \E c \in Chain, w \in Worker : CallNext(c, w)
  \/ BusinessCommand

\* A chain that lives takes its steps: its threads start, the time limit of a
\* call expires, and what follows the calls is sequential code.
Fairness ==
  /\ \A c \in Chain : WF_vars(ReadBefore(c) \/ Collect(c) \/ CreateResult(c))
  /\ \A c \in Chain, w \in Worker :
       /\ WF_vars(Dispatch(c, w) /\ UNCHANGED <<bundles, chains>>)
       /\ WF_vars(CallFails(c, w) /\ UNCHANGED <<bundles, chains>>)

Spec == Init /\ [][Next]_vars /\ Fairness

----------------------------------------------------------------------------
(* Properties *)

DemoTypeOK ==
  /\ DelegationTypeOK
  /\ prep \in [Run -> {"none", "read", "checked"}]
  /\ prepared \in [Run -> Version]
  /\ packages \in [Run -> SUBSET Worker]
  /\ config \subseteq Run
  /\ pc \in [Chain -> {"new", "loaded", "running", "collected", "done"}]
  /\ target \in [Chain -> Run \cup {Nil}]
  /\ draft \in [Chain -> {"completed", "failed"}]
  /\ result \in [Run -> Result \cup {Nil}]

Answer(c, w) == room[w][answer[c][w]]

\* The result of a run is written once: of two chains that both found no
\* result and both asked the Workers, the later one changes nothing
\* (_atomic_create after the check at the start of _run_chain).
ResultIsFinal ==
  [][\A r \in Run : result[r] # Nil => result'[r] = result[r]]_vars

\* Every answer of a completed run was given while the Program was at the
\* version the bundle was prepared for, although the Program is never locked
\* during the run (the two readings of _run_chain and the binding of the
\* outputs).
CompletedRunIsCurrent ==
  \A r \in Run : result[r] # Nil =>
    (result[r].status = "completed" =>
       \A w \in Worker : Answer(result[r].chain, w).at = prepared[r])

\* Sure that a reply belongs to the run of the chain that accepted it.
Attributable(c, w) == w \in RunBound \/ Answer(c, w).related

\* An accepted reply that names its request, or whose output names the run,
\* answers a request of the same run, and the provider was called with the
\* reservation that run holds for the Worker (await_response, _parse_worker_output).
AnswersBelongToTheirRun ==
  \A c \in Chain, w \in Worker :
    (call[c][w] = "answered" /\ Attributable(c, w)) =>
       /\ port[Answer(c, w).chain].run = port[c].run
       /\ <<port[c].run, w>> \in called

\* The valid replies to a request, among all that its helper has read.
ValidSoFar(c, w) ==
  {i \in 1 .. cursor[c][w] : Candidate(c, w, i) /\ room[w][i].good}

\* An accepted reply is the only valid one up to where its helper has read, and
\* a call that still waits has passed over none: late replies of other chains,
\* invalid ones and polls that return several of them in any order neither
\* hide a valid reply nor get one picked (the two counts of await_response).
NoReplyIsPassedOver ==
  \A c \in Chain, w \in Worker :
    /\ call[c][w] = "awaiting" => ValidSoFar(c, w) = {}
    /\ call[c][w] = "answered" => ValidSoFar(c, w) = {answer[c][w]}

\* Every accepted reply answers a request of the same run: "The orchestration
\* layer ... correlates input and output by role, run ID, event ID, and hash"
\* (docs/JUDGE_GUIDE.en.md).
EveryAnswerIsCorrelated ==
  \A c \in Chain, w \in Worker :
    call[c][w] = "answered" => port[Answer(c, w).chain].run = port[c].run

\* A chain ends: no lost request, silent Worker or late reply keeps it waiting
\* (the time limits of the helper).
ChainsEnd == \A c \in Chain : pc[c] = "running" ~> pc[c] = "done"

=============================================================================
