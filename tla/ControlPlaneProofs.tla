-------------------------- MODULE ControlPlaneProofs --------------------------
(***************************************************************************)
(* Proofs about ControlPlane for any number of invocations, windows,       *)
(* Workers, chains and routes.  The argument has four parts.  The first    *)
(* package is a lock (PlaceInv): at most one invocation is past it, it     *)
(* owns exactly the packages it created, and a configuration is published  *)
(* by the owner of all of them.  Rows stay fresh while no configuration is *)
(* there (FreshInv), because only the gateway settles them and it serves   *)
(* what is published.  What a chain relies on never goes away (StepKeeps), *)
(* so that the second reading of the Program closes the gap around the     *)
(* answers (ResultInv).  And no helper runs beyond the Worker whose turn   *)
(* it is (OrderInv, RouteInv), or for another version than that of its     *)
(* port (RequestInv).                                                      *)
(***************************************************************************)
EXTENDS ControlPlane, TLAPS

\* How far a chain or a route can have come in Order.
TurnInv ==
  \A c \in Chain :
    /\ pc[c] = "new" => turn[c] = 1
    /\ pc[c] \in {"loading", "loaded", "running"} => turn[c] <= Last
    /\ pc[c] = "routing" => turn[c] <= RouteLength

\* A chain and a route have the port of the bundle they loaded, or none yet.
ChainPort(c) ==
  /\ pc[c] = "new" => seen[c] = Nil /\ asked[c] = Nil
  /\ pc[c] \in {"loading", "loaded", "running", "answered", "compared"} =>
       seen[c] # Nil /\ asked[c] = Nil
  /\ pc[c] = "routing" => seen[c] = Nil /\ port[c] # Nil
  /\ pc[c] \in {"new", "loading", "loaded"} => port[c] = Nil
  /\ pc[c] \in {"running", "answered", "compared"} => port[c] # Nil
  /\ seen[c] # Nil => seen[c].version <= version /\ port[c] \in {Nil, seen[c]}
  /\ port[c] # Nil => port[c].version <= version
  /\ \A w \in Worker :
       /\ helper[c][w] # "none" => port[c] # Nil
       /\ sent[c][w] # 0 => helper[c][w] = "sent"
       /\ helper[c][w] = "none" <=> call[c][w] = "idle"
       /\ work[c][w] # "none" => sent[c][w] # 0
       /\ call[c][w] \in {"awaiting", "answered"} => sent[c][w] # 0

\* What is built from a version was read from the Program.
PortInv ==
  /\ \A p \in Provisioner : read[p] <= version
  /\ config # Nil => config.version <= version
  /\ \A c \in Chain : ChainPort(c)

Inv1 == ControlTypeOK /\ TurnInv /\ PortInv

----------------------------------------------------------------------------
(* Which actions touch which variables *)

\* The steps of the delegation.
LEMMA DelegationCases ==
  ASSUME [Next]_vars
  PROVE  \/ UNCHANGED delegation
         \/ \E c \in Chain : AskNext(c) \/ RouteNext(c)
         \/ \E c \in Chain, w \in Worker :
              (Send(c, w) \/ CallFails(c, w) \/ AwaitResponse(c, w) \/ Work(c, w) \/ Reply(c, w))
              /\ UNCHANGED <<provider, chains>>
         \/ \E c \in Chain : ReadBefore(c) \/ Crash(c) \/ \E v \in Version : ReadSnapshot(c, v)
         \/ BusinessCommand
<1>1. CASE UNCHANGED vars
  BY <1>1 DEF vars, delegation
<1>2. CASE ProvisionNext
  BY <1>2 DEF ProvisionNext, Provision, LoadConfig, AssertAbsent, CommitSnapshot, ReserveNext,
     ConfirmNext, ReadVersion, PublishPackage, PublishConfig, PublishFails, CleanNext, Stops,
     delegation
<1>3. CASE ChainNext
  BY <1>3 DEF ChainNext, RealStep, RouteStep, ReadConfig, LoadPackage, Proceed, Compare,
     CreateResult, AskNext, RouteNext, Dispatch, RouteDelivered, RouteFails, delegation
<1>4. CASE CallNext
  BY <1>4 DEF CallNext, CallStep
<1>5. CASE GatewayNext \/ TakeAway
  BY <1>5 DEF GatewayNext, StartGateway, StopGateway, SettleRow, TakeAway, delegation
<1> QED
  BY <1>1, <1>2, <1>3, <1>4, <1>5 DEF Next

\* The steps of the provisioning.
LEMMA ProviderCases ==
  ASSUME [Next]_vars
  PROVE  \/ UNCHANGED provider
         \/ \E p \in Provisioner : Provision(p) /\ UNCHANGED <<chains, gateway>>
         \/ \E w \in Worker : SettleRow(w)
         \/ TakeAway
<1>1. CASE UNCHANGED vars
  BY <1>1 DEF vars, provider
<1>3. CASE ChainNext
  BY <1>3 DEF ChainNext, RealStep, RouteStep, ReadConfig, LoadPackage, ReadBefore, Proceed,
     Compare, CreateResult, AskNext, Crash, ReadSnapshot, RouteNext, RouteDelivered, RouteFails,
     provider
<1>4. CASE CallNext \/ BusinessCommand
  BY <1>4 DEF CallNext, BusinessCommand, provider
<1>5. CASE StartGateway \/ StopGateway
  BY <1>5 DEF StartGateway, StopGateway, provider
<1> QED
  BY <1>1, <1>3, <1>4, <1>5 DEF Next, ProvisionNext, GatewayNext

\* The steps of the chains and routes.
LEMMA ChainCases ==
  ASSUME [Next]_vars
  PROVE  \/ UNCHANGED chains
         \/ \E c \in Chain : \/ ReadConfig(c) \/ LoadPackage(c) \/ ReadBefore(c) \/ Proceed(c)
                             \/ Compare(c) \/ CreateResult(c) \/ Crash(c) \/ RouteDelivered(c)
                             \/ RouteFails(c) \/ \E v \in Version : ReadSnapshot(c, v)
<1>1. CASE UNCHANGED vars
  BY <1>1 DEF vars, chains
<1>2. CASE ProvisionNext \/ CallNext
  BY <1>2 DEF ProvisionNext, CallNext, chains
<1>3. CASE ChainNext
  BY <1>3 DEF ChainNext, RealStep, RouteStep, AskNext, RouteNext, chains
<1>4. CASE GatewayNext \/ TakeAway \/ BusinessCommand
  BY <1>4 DEF GatewayNext, StartGateway, StopGateway, SettleRow, TakeAway, BusinessCommand, chains
<1> QED
  BY <1>1, <1>2, <1>3, <1>4 DEF Next

\* All steps, as the chains and the delegation see them.
LEMMA ControlCases ==
  ASSUME [Next]_vars
  PROVE  \/ UNCHANGED <<delegation, chains>>
         \/ BusinessCommand
         \/ \E c \in Chain : \/ ReadConfig(c) \/ LoadPackage(c) \/ ReadBefore(c) \/ AskNext(c)
                             \/ Proceed(c) \/ Compare(c) \/ CreateResult(c) \/ Crash(c)
                             \/ \E v \in Version : ReadSnapshot(c, v)
                             \/ RouteNext(c) \/ RouteDelivered(c) \/ RouteFails(c)
         \/ \E c \in Chain, w \in Worker : CallStep(c, w) /\ UNCHANGED <<provider, chains>>
<1>1. CASE UNCHANGED vars
  BY <1>1 DEF vars
<1>2. CASE ProvisionNext
  BY <1>2 DEF ProvisionNext, Provision, LoadConfig, AssertAbsent, CommitSnapshot, ReserveNext,
     ConfirmNext, ReadVersion, PublishPackage, PublishConfig, PublishFails, CleanNext, Stops
<1>3. CASE GatewayNext \/ TakeAway
  BY <1>3 DEF GatewayNext, StartGateway, StopGateway, SettleRow, TakeAway
<1> QED
  BY <1>1, <1>2, <1>3 DEF Next, ChainNext, RealStep, RouteStep, CallNext

----------------------------------------------------------------------------
(* Type correctness *)

\* Order has a Worker at each place, and a place for each Worker.
LEMMA OrderFacts ==
  /\ Last \in Nat /\ Last > 0
  /\ \A i \in 1 .. Last : Order[i] \in Worker
  /\ RouteLength \in 1 .. Last
  BY ProviderAssumption, RouteAssumption DEF Last

\* The initial state is well typed.
LEMMA TypeInit == Init => Inv1
<1> SUFFICES ASSUME Init PROVE Inv1
  OBVIOUS
<1> USE DelegationAssumption, OrderFacts DEF Init, DelegationInit, ProviderInit, ChainInit, Version, Bundle
<1>1. DelegationTypeOK
  BY DEF DelegationTypeOK, PerCall, Ended
<1>2. ProviderTypeOK
  BY DEF ProviderTypeOK, ProvisionerSteps
<1>3. ChainTypeOK
  BY DEF ChainTypeOK
<1>4. TurnInv
  BY DEF TurnInv
<1>5. PortInv
  BY DEF PortInv, ChainPort
<1> QED
  BY <1>1, <1>2, <1>3, <1>4, <1>5 DEF Inv1, ControlTypeOK

\* What is posted is an event of a chain.
LEMMA PostType ==
  ASSUME DelegationTypeOK, NEW c \in Chain, NEW w \in Worker,
         \E kind \in {"request", "reply"}, good \in BOOLEAN, related \in BOOLEAN :
           Post(c, w, kind, good, related)
  PROVE  room' \in [Worker -> Seq(Event)]
<1> PICK kind \in {"request", "reply"}, good \in BOOLEAN, related \in BOOLEAN :
      Post(c, w, kind, good, related)
  OBVIOUS
<1> DEFINE e == [kind |-> kind, chain |-> c, good |-> good, related |-> related, at |-> version]
<1>1. e \in Event
  BY DEF DelegationTypeOK, Event
<1>2. room \in [Worker -> Seq(Event)] /\ Append(room[w], e) \in Seq(Event)
  BY <1>1 DEF DelegationTypeOK
<1>3. room' = [room EXCEPT ![w] = Append(room[w], e)]
  BY DEF Post
<1> HIDE DEF e
<1> QED
  BY <1>2, <1>3

\* A step keeps the types of the delegation.
LEMMA DelegationTypeStep == Inv1 /\ [Next]_vars => DelegationTypeOK'
<1> SUFFICES ASSUME Inv1, [Next]_vars PROVE DelegationTypeOK'
  OBVIOUS
<1>a. DelegationTypeOK
  BY DEF Inv1, ControlTypeOK
<1>b. ASSUME NEW c \in Chain, NEW w \in Worker
      PROVE  /\ sent[c][w] # 0 => port[c] # Nil
             /\ port[c] \in Bundle \cup {Nil}
  BY DEF Inv1, PortInv, ChainPort, ControlTypeOK, DelegationTypeOK
<1> USE DEF DelegationTypeOK, PerCall, Version, Bundle, Ended
<1>1. CASE UNCHANGED delegation
  BY <1>a, <1>1 DEF delegation
<1>2. ASSUME NEW c \in Chain, NEW w \in Worker, Dispatch(c, w)
      PROVE  DelegationTypeOK'
  BY <1>a, <1>2 DEF Dispatch
<1>3. ASSUME NEW c \in Chain, NEW w \in Worker, Send(c, w)
      PROVE  DelegationTypeOK'
  <2>1. room' \in [Worker -> Seq(Event)]
    <3>1. Post(c, w, "request", TRUE, TRUE)
      BY <1>3 DEF Send
    <3> QED
      BY <1>a, <3>1, PostType
  <2>2. sent' \in PerCall(Nat) /\ cursor' \in PerCall(Nat)
    BY <1>a, <1>3 DEF Send
  <2>3. helper' \in PerCall({"none", "baselined", "sent"})
        /\ call' \in PerCall({"idle", "dispatching", "awaiting"} \cup Ended)
    BY <1>a, <1>3 DEF Send
  <2> QED
    BY <1>a, <1>3, <2>1, <2>2, <2>3 DEF Send
<1>4. ASSUME NEW c \in Chain, NEW w \in Worker, CallFails(c, w)
      PROVE  DelegationTypeOK'
  BY <1>a, <1>4 DEF CallFails
<1>5. ASSUME NEW c \in Chain, NEW w \in Worker, AwaitResponse(c, w)
      PROVE  DelegationTypeOK'
  <2>1. cursor' \in PerCall(Nat)
    BY <1>a, <1>5 DEF AwaitResponse
  <2>2. Valid(c, w) \subseteq Nat
    BY <1>a DEF Valid
  <2>3. UNCHANGED answer \/ \E i \in Nat : answer' = [answer EXCEPT ![c][w] = i]
    BY <1>5, <2>2 DEF AwaitResponse
  <2>4. UNCHANGED call \/ \E v \in Ended : call' = [call EXCEPT ![c][w] = v]
    BY <1>5 DEF AwaitResponse
  <2>5. answer' \in PerCall(Nat)
    <3>1. CASE UNCHANGED answer
      BY <1>a, <3>1
    <3>2. ASSUME NEW i \in Nat, answer' = [answer EXCEPT ![c][w] = i]
          PROVE  answer' \in PerCall(Nat)
      BY <1>a, <3>2
    <3> QED
      BY <2>3, <3>1, <3>2
  <2>6. call' \in PerCall({"idle", "dispatching", "awaiting"} \cup Ended)
    <3>1. CASE UNCHANGED call
      BY <1>a, <3>1
    <3>2. ASSUME NEW v \in Ended, call' = [call EXCEPT ![c][w] = v]
          PROVE  call' \in PerCall({"idle", "dispatching", "awaiting"} \cup Ended)
      BY <1>a, <3>2
    <3> QED
      BY <2>4, <3>1, <3>2
  <2> QED
    BY <1>a, <1>5, <2>1, <2>5, <2>6 DEF AwaitResponse
<1>6. ASSUME NEW c \in Chain, NEW w \in Worker, Work(c, w)
      PROVE  DelegationTypeOK'
  <2>1. port[c].run \in Run
    BY <1>b, <1>6 DEF Work
  <2>2. called' \subseteq Run \X Worker
    BY <1>a, <1>6, <2>1 DEF Work
  <2>3. \E v \in {"good", "bad"} : work' = [work EXCEPT ![c][w] = v]
    BY <1>6 DEF Work
  <2>4. work' \in PerCall({"none", "good", "bad", "replied"})
    BY <1>a, <2>3
  <2> QED
    BY <1>a, <1>6, <2>2, <2>4 DEF Work
<1>7. ASSUME NEW c \in Chain, NEW w \in Worker, Reply(c, w)
      PROVE  DelegationTypeOK'
  <2>1. \E kind \in {"request", "reply"}, good \in BOOLEAN, related \in BOOLEAN :
          Post(c, w, kind, good, related)
    BY <1>7 DEF Reply
  <2>2. room' \in [Worker -> Seq(Event)]
    BY <1>a, <2>1, PostType
  <2>3. work' \in PerCall({"none", "good", "bad", "replied"})
    BY <1>a, <1>7 DEF Reply
  <2> QED
    BY <1>a, <1>7, <2>2, <2>3 DEF Reply
<1>8. ASSUME NEW c \in Chain, ReadBefore(c) \/ \E v \in Version : ReadSnapshot(c, v)
      PROVE  DelegationTypeOK'
  <2>1. seen[c] \in Bundle \cup {Nil} /\ config \in Bundle \cup {Nil}
    BY DEF Inv1, ControlTypeOK, ChainTypeOK, ProviderTypeOK
  <2>2. \E b \in Bundle \cup {Nil} : port' = [port EXCEPT ![c] = b] \/ UNCHANGED port
    BY <1>8, <2>1 DEF ReadBefore, ReadSnapshot
  <2>3. port' \in [Chain -> Bundle \cup {Nil}]
    BY <1>a, <2>2
  <2> QED
    BY <1>a, <1>8, <2>3 DEF ReadBefore, ReadSnapshot
<1>9. ASSUME NEW c \in Chain, Crash(c)
      PROVE  DelegationTypeOK'
  BY <1>a, <1>9 DEF Crash
<1>10. CASE BusinessCommand
  <2>1. version' \in Version
    BY <1>a, <1>10, DelegationAssumption DEF BusinessCommand
  <2> QED
    BY <1>a, <1>10, <2>1 DEF BusinessCommand
<1> QED
  <2>1. ASSUME NEW c \in Chain, pc[c] \in {"running", "routing"} PROVE Target(c) \in Worker
    BY <2>1, OrderFacts DEF Inv1, TurnInv, ControlTypeOK, ChainTypeOK, Target
  <2> QED
    BY <1>1, <1>2, <1>3, <1>4, <1>5, <1>6, <1>7, <1>8, <1>9, <1>10, <2>1, DelegationCases
       DEF AskNext, RouteNext

\* A step keeps the types of the provisioning.
LEMMA ProviderTypeStep == Inv1 /\ [Next]_vars => ProviderTypeOK'
<1> SUFFICES ASSUME Inv1, [Next]_vars PROVE ProviderTypeOK'
  OBVIOUS
<1>a. /\ ProviderTypeOK /\ version \in Version /\ 0 \in Version
      /\ \A p \in Provisioner : WindowOf[p] \in Run /\ BundleOf(p) \in Bundle
  BY ProviderAssumption, DelegationAssumption
     DEF Inv1, ControlTypeOK, DelegationTypeOK, ProviderTypeOK, BundleOf, Bundle, Version
<1> HIDE DEF Inv1
<1> USE OrderFacts DEF ProviderTypeOK, ProvisionerSteps, provider, progress, ledger, files,
        Goes, Ends, Advances
<1>1. CASE UNCHANGED provider
  BY <1>a, <1>1
<1>2. ASSUME NEW p \in Provisioner, LoadConfig(p) \/ AssertAbsent(p) \/ CommitSnapshot(p)
      PROVE  ProviderTypeOK'
  BY <1>a, <1>2 DEF LoadConfig, AssertAbsent, CommitSnapshot
<1>3. ASSUME NEW p \in Provisioner, ReserveNext(p)
      PROVE  ProviderTypeOK'
  <2>1. Row(p) \in Run \X Worker
    BY <1>a, <1>3 DEF ReserveNext, Row
  <2> QED
    BY <1>a, <1>3, <2>1 DEF ReserveNext
<1>4. ASSUME NEW p \in Provisioner, ConfirmNext(p) \/ ReadVersion(p)
      PROVE  ProviderTypeOK'
  BY <1>a, <1>4 DEF ConfirmNext, ReadVersion
<1>5. ASSUME NEW p \in Provisioner, PublishPackage(p)
      PROVE  ProviderTypeOK'
  <2>1. file' \in [Worker -> Bundle \cup {Nil}]
    BY <1>a, <1>5 DEF PublishPackage
  <2> QED
    BY <1>a, <1>5, <2>1 DEF PublishPackage
<1>6. ASSUME NEW p \in Provisioner, PublishConfig(p)
      PROVE  ProviderTypeOK'
  BY <1>a, <1>6 DEF PublishConfig
<1>7. ASSUME NEW p \in Provisioner, PublishFails(p) \/ Stops(p)
      PROVE  ProviderTypeOK'
  BY <1>a, <1>7 DEF PublishFails, GoesBack, Stops
<1>8. ASSUME NEW p \in Provisioner, CleanNext(p)
      PROVE  ProviderTypeOK'
  <2>1. file' \in [Worker -> Bundle \cup {Nil}]
    BY <1>a, <1>8 DEF CleanNext
  <2> QED
    BY <1>a, <1>8, <2>1 DEF CleanNext, GoesBack
<1>9. ASSUME NEW w \in Worker, SettleRow(w)
      PROVE  ProviderTypeOK'
  BY <1>a, <1>9 DEF SettleRow
<1>10. CASE TakeAway
  BY <1>a, <1>10 DEF TakeAway
<1> QED
  BY <1>1, <1>2, <1>3, <1>4, <1>5, <1>6, <1>7, <1>8, <1>9, <1>10, ProviderCases DEF Provision

\* A step keeps the types of the chains, and how far they can have come.
LEMMA ChainTypeStep == Inv1 /\ [Next]_vars => ChainTypeOK' /\ TurnInv'
<1> SUFFICES ASSUME Inv1, [Next]_vars PROVE ChainTypeOK' /\ TurnInv'
  OBVIOUS
<1>a. /\ ChainTypeOK /\ TurnInv
      /\ config \in Bundle \cup {Nil}
  BY DEF Inv1, ControlTypeOK, ProviderTypeOK
<1> HIDE DEF Inv1
<1> USE OrderFacts DEF ChainTypeOK, TurnInv, chains, Reaches, Reports
<1>1. CASE UNCHANGED chains
  BY <1>a, <1>1
<1>2. ASSUME NEW c \in Chain, ReadConfig(c) \/ ReadBefore(c) \/ Crash(c) \/ Compare(c)
      PROVE  ChainTypeOK' /\ TurnInv'
  BY <1>a, <1>2 DEF ReadConfig, ReadBefore, Crash, Compare
<1>3. ASSUME NEW c \in Chain, LoadPackage(c)
      PROVE  ChainTypeOK' /\ TurnInv'
  BY <1>a, <1>3 DEF LoadPackage
<1>4. ASSUME NEW c \in Chain, Proceed(c)
      PROVE  ChainTypeOK' /\ TurnInv'
  BY <1>a, <1>4 DEF Proceed
<1>5. ASSUME NEW c \in Chain, CreateResult(c) \/ RouteFails(c)
      PROVE  ChainTypeOK' /\ TurnInv'
  BY <1>a, <1>5 DEF CreateResult, RouteFails
<1>6. ASSUME NEW c \in Chain, RouteDelivered(c)
      PROVE  ChainTypeOK' /\ TurnInv'
  BY <1>a, <1>6 DEF RouteDelivered
<1>7. ASSUME NEW c \in Chain, NEW v \in Version, ReadSnapshot(c, v)
      PROVE  ChainTypeOK' /\ TurnInv'
  BY <1>a, <1>7 DEF ReadSnapshot
<1> QED
  BY <1>1, <1>2, <1>3, <1>4, <1>5, <1>6, <1>7, ChainCases

\* A step keeps the types.
LEMMA TypeStep == Inv1 /\ [Next]_vars => ControlTypeOK'
<1> SUFFICES ASSUME Inv1, [Next]_vars PROVE ControlTypeOK'
  OBVIOUS
<1>1. UNCHANGED gateway \/ StartGateway \/ StopGateway
  BY DEF vars, Next, ProvisionNext, ChainNext, CallNext, GatewayNext, SettleRow, TakeAway,
         BusinessCommand
<1>2. gateway' \in Run \cup {Nil}
  BY <1>1 DEF Inv1, ControlTypeOK, ProviderTypeOK, Bundle, StartGateway, StopGateway
<1> QED
  BY <1>2, DelegationTypeStep, ProviderTypeStep, ChainTypeStep DEF ControlTypeOK

----------------------------------------------------------------------------
(* The ports *)

\* The version of the Program only grows.
LEMMA VersionGrows == Inv1 /\ [Next]_vars => version <= version' /\ version' \in Int
<1> SUFFICES ASSUME Inv1, [Next]_vars PROVE version <= version' /\ version' \in Int
  OBVIOUS
<1>1. version \in Int
  BY DelegationAssumption DEF Inv1, ControlTypeOK, DelegationTypeOK, Version
<1>2. UNCHANGED version \/ version' = version + 1
  <2>1. ASSUME NEW c \in Chain, AskNext(c) \/ RouteNext(c) PROVE UNCHANGED version
    BY <2>1 DEF AskNext, RouteNext, Dispatch
  <2>2. ASSUME NEW c \in Chain, NEW w \in Worker,
               Send(c, w) \/ CallFails(c, w) \/ AwaitResponse(c, w) \/ Work(c, w) \/ Reply(c, w)
        PROVE  UNCHANGED version
    BY <2>2 DEF Send, CallFails, AwaitResponse, Work, Reply
  <2>3. ASSUME NEW c \in Chain, ReadBefore(c) \/ Crash(c) \/ \E v \in Version : ReadSnapshot(c, v)
        PROVE  UNCHANGED version
    BY <2>3 DEF ReadBefore, Crash, ReadSnapshot
  <2>4. UNCHANGED delegation => UNCHANGED version
    BY DEF delegation
  <2>5. BusinessCommand => version' = version + 1
    BY DEF BusinessCommand
  <2> QED
    BY <2>1, <2>2, <2>3, <2>4, <2>5, DelegationCases
<1> QED
  BY <1>1, <1>2

\* What is published was read from the Program.
LEMMA ReadStep ==
  Inv1 /\ [Next]_vars => /\ \A p \in Provisioner : read'[p] <= version'
                         /\ config' # Nil => config'.version <= version'
<1> SUFFICES ASSUME Inv1, [Next]_vars
             PROVE  /\ \A p \in Provisioner : read'[p] <= version'
                    /\ config' # Nil => config'.version <= version'
  OBVIOUS
<1>1. /\ version \in Int /\ version' \in Int /\ 0 <= version /\ version <= version'
      /\ read \in [Provisioner -> Int]
      /\ \A p \in Provisioner : read[p] <= version
      /\ config # Nil => config.version <= version /\ config.version \in Int
  BY VersionGrows, DelegationAssumption
     DEF Inv1, PortInv, ControlTypeOK, DelegationTypeOK, ProviderTypeOK, Version, Bundle
<1>2. CASE UNCHANGED provider
  BY <1>1, <1>2 DEF provider, progress, files
<1>3. ASSUME NEW p \in Provisioner, Provision(p)
      PROVE  /\ \A q \in Provisioner : read'[q] <= version'
             /\ config' # Nil => config'.version <= version'
  <2>1. /\ \E v \in {read[p], version, 0} : read' = [read EXCEPT ![p] = v]
        /\ UNCHANGED config \/ config' = BundleOf(p)
    BY <1>1, <1>3 DEF Provision, LoadConfig, AssertAbsent, CommitSnapshot, ReserveNext,
       ConfirmNext, ReadVersion, PublishPackage, PublishConfig, PublishFails, CleanNext, Stops,
       Ends, GoesBack, files
  <2>2. BundleOf(p).version = read[p]
    BY DEF BundleOf
  <2>3. \A q \in Provisioner : read'[q] <= version'
    BY <1>1, <2>1
  <2>4. config' # Nil => config'.version <= version'
    BY <1>1, <2>1, <2>2
  <2> QED
    BY <2>3, <2>4
<1>4. ASSUME TakeAway \/ \E w \in Worker : SettleRow(w)
      PROVE  UNCHANGED read /\ config' \in {Nil, config}
  BY <1>4 DEF TakeAway, SettleRow, progress, files
<1> QED
  BY <1>1, <1>2, <1>3, <1>4, ProviderCases

\* A chain takes its port from the configuration it has loaded, and a helper
\* runs only for a chain that has a port.
LEMMA ChainPortStep == Inv1 /\ [Next]_vars => \A c \in Chain : ChainPort(c)'
<1> SUFFICES ASSUME Inv1, [Next]_vars PROVE \A c \in Chain : ChainPort(c)'
  OBVIOUS
<1>a. \A c \in Chain : ChainPort(c)
  BY DEF Inv1, PortInv
<1>b. /\ port \in [Chain -> Bundle \cup {Nil}] /\ seen \in [Chain -> Bundle \cup {Nil}]
      /\ asked \in [Chain -> Version \cup {Nil}] /\ DOMAIN pc = Chain
      /\ helper \in PerCall({"none", "baselined", "sent"}) /\ sent \in PerCall(Nat)
      /\ call \in PerCall({"idle", "dispatching", "awaiting"} \cup Ended)
      /\ work \in PerCall({"none", "good", "bad", "replied"})
      /\ version \in Int /\ version' \in Int /\ version <= version'
      /\ \A b \in Bundle : b.version \in Int
      /\ config # Nil => config.version <= version /\ config \in Bundle
      /\ config \in Bundle \cup {Nil}
  BY VersionGrows, DelegationAssumption
     DEF Inv1, PortInv, ControlTypeOK, DelegationTypeOK, ChainTypeOK, ProviderTypeOK, Version, Bundle
<1>c. \A c \in Chain : pc[c] \in {"running", "routing"} => Target(c) \in Worker
  BY OrderFacts DEF Inv1, TurnInv, ControlTypeOK, ChainTypeOK, Target
<1> HIDE DEF Inv1
<1> USE <1>a, <1>b DEF ChainPort, PerCall, Ended, delegation, chains, Reaches, Reports
<1>1. CASE UNCHANGED <<delegation, chains>>
  BY <1>1
<1>2. CASE BusinessCommand
  BY <1>2 DEF BusinessCommand
<1>3. ASSUME NEW c \in Chain, ReadConfig(c)
      PROVE  \A d \in Chain : ChainPort(d)'
  BY <1>3 DEF ReadConfig
<1>4. ASSUME NEW c \in Chain, LoadPackage(c) \/ Proceed(c)
      PROVE  \A d \in Chain : ChainPort(d)'
  BY <1>4 DEF LoadPackage, Proceed
<1>5. ASSUME NEW c \in Chain, ReadBefore(c)
      PROVE  \A d \in Chain : ChainPort(d)'
  BY <1>5 DEF ReadBefore
<1>6. ASSUME NEW c \in Chain, Compare(c) \/ CreateResult(c) \/ RouteDelivered(c) \/ RouteFails(c)
      PROVE  \A d \in Chain : ChainPort(d)'
  BY <1>6 DEF Compare, CreateResult, RouteDelivered, RouteFails
<1>7. ASSUME NEW c \in Chain, Crash(c)
      PROVE  \A d \in Chain : ChainPort(d)'
  BY <1>7 DEF Crash
<1>8. ASSUME NEW c \in Chain, NEW v \in Version, ReadSnapshot(c, v)
      PROVE  \A d \in Chain : ChainPort(d)'
  BY <1>8 DEF ReadSnapshot
<1>9. ASSUME NEW c \in Chain, AskNext(c) \/ RouteNext(c)
      PROVE  \A d \in Chain : ChainPort(d)'
  <2>1. PICK w \in Worker : Dispatch(c, w) /\ UNCHANGED chains
    BY <1>9, <1>c DEF AskNext, RouteNext
  <2>2. /\ port[c] # Nil /\ UNCHANGED <<version, port, sent, work>>
        /\ helper' = [helper EXCEPT ![c][w] = "baselined"]
        /\ call' = [call EXCEPT ![c][w] = "dispatching"]
        /\ call[c][w] = "idle"
    BY <2>1 DEF Dispatch
  <2>3. sent[c][w] = 0
    BY <2>2
  <2>4. ASSUME NEW d \in Chain, NEW v \in Worker
        PROVE  /\ helper'[d][v] # "none" => port[d] # Nil
               /\ sent[d][v] # 0 => helper'[d][v] = "sent"
               /\ helper'[d][v] = "none" <=> call'[d][v] = "idle"
               /\ work[d][v] # "none" => sent[d][v] # 0
               /\ call'[d][v] \in {"awaiting", "answered"} => sent[d][v] # 0
    BY <2>2, <2>3
  <2> QED
    BY <2>1, <2>2, <2>4
<1>10. ASSUME NEW c \in Chain, NEW w \in Worker, Send(c, w), UNCHANGED <<provider, chains>>
      PROVE  \A d \in Chain : ChainPort(d)'
  <2>1. UNCHANGED <<version, port, work>>
    BY <1>10 DEF Send
  <2>2. Len(room[w]) + 1 # 0 /\ port[c] # Nil
    BY <1>10 DEF Send, Inv1, ControlTypeOK, DelegationTypeOK
  <2>3. ASSUME NEW d \in Chain, NEW v \in Worker
        PROVE  /\ helper'[d][v] # "none" => port[d] # Nil
               /\ sent'[d][v] # 0 => helper'[d][v] = "sent"
               /\ helper'[d][v] = "none" <=> call'[d][v] = "idle"
               /\ work[d][v] # "none" => sent'[d][v] # 0
               /\ call'[d][v] \in {"awaiting", "answered"} => sent'[d][v] # 0
    BY <1>10, <2>2 DEF Send
  <2> QED
    BY <1>10, <2>1, <2>3
<1>11. ASSUME NEW c \in Chain, NEW w \in Worker, CallFails(c, w), UNCHANGED <<provider, chains>>
      PROVE  \A d \in Chain : ChainPort(d)'
  BY <1>11 DEF CallFails
<1>12. ASSUME NEW c \in Chain, NEW w \in Worker, AwaitResponse(c, w), UNCHANGED <<provider, chains>>
      PROVE  \A d \in Chain : ChainPort(d)'
  <2>1. call[c][w] = "awaiting" /\ UNCHANGED <<version, port, helper, sent, work>>
    BY <1>12 DEF AwaitResponse
  <2>2. UNCHANGED call \/ \E v \in Ended : call' = [call EXCEPT ![c][w] = v]
    BY <1>12 DEF AwaitResponse
  <2>3. CASE UNCHANGED call
    BY <1>12, <2>1, <2>3
  <2>4. ASSUME NEW s \in Ended, call' = [call EXCEPT ![c][w] = s]
        PROVE  \A d \in Chain : ChainPort(d)'
    BY <1>12, <2>1, <2>4
  <2> QED
    BY <2>2, <2>3, <2>4
<1>13. ASSUME NEW c \in Chain, NEW w \in Worker, Work(c, w), UNCHANGED <<provider, chains>>
      PROVE  \A d \in Chain : ChainPort(d)'
  <2>1. /\ sent[c][w] # 0 /\ UNCHANGED <<version, port, helper, sent, call>>
        /\ \E s \in {"good", "bad"} : work' = [work EXCEPT ![c][w] = s]
    BY <1>13 DEF Work
  <2> QED
    BY <1>13, <2>1
<1>14. ASSUME NEW c \in Chain, NEW w \in Worker, Reply(c, w), UNCHANGED <<provider, chains>>
      PROVE  \A d \in Chain : ChainPort(d)'
  <2>1. /\ work[c][w] # "none" /\ UNCHANGED <<version, port, helper, sent, call>>
        /\ work' = [work EXCEPT ![c][w] = "replied"]
    BY <1>14 DEF Reply
  <2> QED
    BY <1>14, <2>1
<1> HIDE <1>a, <1>b
<1> HIDE DEF ChainPort, PerCall, Ended, delegation, chains, Reaches, Reports
<1> QED
  BY <1>1, <1>2, <1>3, <1>4, <1>5, <1>6, <1>7, <1>8, <1>9, <1>10, <1>11, <1>12, <1>13, <1>14,
     ControlCases DEF CallStep

\* The first invariant is inductive.
LEMMA Inv1Step == Inv1 /\ [Next]_vars => Inv1'
  BY TypeStep, ChainTypeStep, ReadStep, ChainPortStep DEF Inv1, PortInv

----------------------------------------------------------------------------
(* The place of publication *)

\* An invocation that has created a package it may still take back.
Holds(p) == step[p] = "cleaning" \/ (step[p] = "publishing" /\ place[p] > 1)

\* An invocation owns the packages it has created and not yet taken back.
Owns(p) ==
  /\ step[p] = "confirmed" => place[p] = 1
  /\ step[p] = "publishing" => \A i \in 1 .. place[p] - 1 : file[Order[i]] = BundleOf(p)
  /\ step[p] = "cleaning" => \A i \in 1 .. place[p] : file[Order[i]] = BundleOf(p)

PlaceInv ==
  /\ \A p \in Provisioner : Owns(p)
  /\ \A p, q \in Provisioner : Holds(p) /\ Holds(q) => p = q
  /\ config # Nil => /\ \A w \in Worker : file[w] = config
                     /\ \A p \in Provisioner : ~Holds(p)

\* The places whose rows an invocation has found fresh.
Confirmed(p) ==
  {i \in 1 .. Last : \/ step[p] \in {"confirmed", "publishing"}
                     \/ step[p] = "confirming" /\ i < place[p]}

FreshInv ==
  /\ gateway # Nil => config # Nil
  /\ config = Nil =>
       \A p \in Provisioner : \A i \in Confirmed(p) :
         <<WindowOf[p], Order[i]>> \in reserved \ settled

\* While an invocation holds the place, its first package is there.
LEMMA HolderHasFirst ==
  ASSUME Inv1, PlaceInv, NEW p \in Provisioner, Holds(p)
  PROVE  file[Order[1]] # Nil
<1>1. place[p] \in 1 .. Last + 1 /\ BundleOf(p) # Nil
  <2>1. BundleOf(p) \in Bundle
    BY ProviderAssumption
       DEF Inv1, ControlTypeOK, ProviderTypeOK, BundleOf, Bundle
  <2> QED
    BY <2>1, DelegationAssumption DEF Inv1, ControlTypeOK, ProviderTypeOK
<1> QED
  BY <1>1, OrderFacts DEF PlaceInv, Owns, Holds

\* Steps of an invocation before its first package, and the end of one, leave
\* the files and everybody else's claim on them alone.
LEMMA PlaceLeft ==
  ASSUME Inv1, PlaceInv, NEW p \in Provisioner, UNCHANGED files,
         \A q \in Provisioner \ {p} :
           step'[q] = step[q] /\ place'[q] = place[q] /\ read'[q] = read[q],
         Owns(p)', Holds(p)' => Holds(p)
  PROVE  PlaceInv'
<1>1. /\ \A q \in Provisioner : Owns(q)'
      /\ \A q \in Provisioner : Holds(q)' => Holds(q)
  BY DEF PlaceInv, Owns, Holds, BundleOf, files
<1> QED
  BY <1>1 DEF PlaceInv, files

\* A step keeps the ownership of the files.
LEMMA PlaceStep == Inv1 /\ PlaceInv /\ [Next]_vars => PlaceInv'
<1> SUFFICES ASSUME Inv1, PlaceInv, [Next]_vars PROVE PlaceInv'
  OBVIOUS
<1>a. /\ step \in [Provisioner -> ProvisionerSteps]
      /\ place \in [Provisioner -> 1 .. Last + 1]
      /\ \A p \in Provisioner : place[p] = Last + 1 => step[p] = "publishing"
      /\ read \in [Provisioner -> Version] /\ file \in [Worker -> Bundle \cup {Nil}]
      /\ \A p \in Provisioner : BundleOf(p) \in Bundle
      /\ Nil \notin Bundle
  BY ProviderAssumption, DelegationAssumption
     DEF Inv1, ControlTypeOK, ProviderTypeOK, BundleOf, Bundle
<1> HIDE DEF Inv1, PlaceInv
<1>1. CASE UNCHANGED provider
  BY <1>1 DEF provider, progress, files, PlaceInv, Owns, Holds, BundleOf
<1>2. ASSUME NEW p \in Provisioner,
             LoadConfig(p) \/ AssertAbsent(p) \/ CommitSnapshot(p) \/ ReserveNext(p) \/ Stops(p)
      PROVE  PlaceInv'
  <2>1. /\ UNCHANGED files /\ step'[p] \in {"loaded", "clear", "reserving", "confirming", "done"}
        /\ \A q \in Provisioner \ {p} :
             step'[q] = step[q] /\ place'[q] = place[q] /\ read'[q] = read[q]
    BY <1>a, <1>2 DEF LoadConfig, AssertAbsent, CommitSnapshot, ReserveNext, Stops, Goes, Ends,
       Advances
  <2> QED
    BY <2>1, PlaceLeft DEF Owns, Holds
<1>3. ASSUME NEW p \in Provisioner, ConfirmNext(p)
      PROVE  PlaceInv'
  <2>1. /\ UNCHANGED files
        /\ step'[p] \in {"confirming", "done"} \/ (step'[p] = "confirmed" /\ place'[p] = 1)
        /\ \A q \in Provisioner \ {p} :
             step'[q] = step[q] /\ place'[q] = place[q] /\ read'[q] = read[q]
    <3>1. /\ step[p] = "confirming" /\ UNCHANGED files
          /\ (Advances(p, "confirmed") /\ UNCHANGED read) \/ Ends(p)
      BY <1>3 DEF ConfirmNext
    <3>2. CASE Advances(p, "confirmed") /\ UNCHANGED read
      BY <1>a, <3>1, <3>2 DEF Advances, Goes
    <3>3. CASE Ends(p)
      BY <1>a, <3>1, <3>3 DEF Ends, Goes
    <3> QED
      BY <3>1, <3>2, <3>3
  <2> QED
    BY <2>1, PlaceLeft DEF Owns, Holds
<1>4. ASSUME NEW p \in Provisioner, ReadVersion(p)
      PROVE  PlaceInv'
  <2>1. /\ UNCHANGED files /\ step'[p] = "publishing" /\ place'[p] = 1
        /\ \A q \in Provisioner \ {p} :
             step'[q] = step[q] /\ place'[q] = place[q] /\ read'[q] = read[q]
    BY <1>a, <1>4 DEF ReadVersion, Goes, PlaceInv, Owns
  <2> QED
    BY <2>1, PlaceLeft DEF Owns, Holds
<1>5. ASSUME NEW p \in Provisioner, PublishPackage(p)
      PROVE  PlaceInv'
  <2>1. /\ step[p] = "publishing" /\ place[p] \in 1 .. Last /\ file[Order[place[p]]] = Nil
        /\ file' = [file EXCEPT ![Order[place[p]]] = BundleOf(p)]
        /\ place' = [place EXCEPT ![p] = @ + 1]
        /\ UNCHANGED <<step, read, config>>
    BY <1>5 DEF PublishPackage
  <2>2. config = Nil
    BY <1>a, <2>1, OrderFacts DEF PlaceInv
  <2>3. ASSUME NEW q \in Provisioner, Holds(q) PROVE q = p
    <3>1. CASE place[p] = 1
      BY <2>1, <2>3, <3>1, HolderHasFirst
    <3>2. CASE place[p] > 1
      BY <2>1, <2>3, <3>2 DEF PlaceInv, Holds
    <3> QED
      BY <2>1, <3>1, <3>2
  <2>4. ASSUME NEW q \in Provisioner, Holds(q)' PROVE q = p
    BY <1>a, <2>1, <2>3, <2>4 DEF Holds
  <2>5. Owns(p)'
    <3>1. ASSUME NEW i \in 1 .. place[p] PROVE file'[Order[i]] = BundleOf(p)
      <4>1. i = place[p] \/ i \in 1 .. place[p] - 1
        BY <2>1
      <4>2. i \in 1 .. Last
        BY <2>1, OrderFacts
      <4>3. Order[i] \in Worker /\ (Order[i] = Order[place[p]] => i = place[p])
        BY <2>1, <4>2, OrderFacts, ProviderAssumption
      <4> QED
        BY <1>a, <2>1, <4>1, <4>3 DEF PlaceInv, Owns
    <3>2. BundleOf(p)' = BundleOf(p) /\ place'[p] - 1 = place[p]
      BY <1>a, <2>1 DEF BundleOf
    <3> QED
      BY <2>1, <3>1, <3>2 DEF Owns
  <2>6. ASSUME NEW q \in Provisioner, q # p PROVE Owns(q)'
    <3>1. ~Holds(q) /\ place'[q] = place[q] /\ step'[q] = step[q]
      BY <1>a, <2>1, <2>3, <2>6
    <3> QED
      BY <1>a, <3>1 DEF PlaceInv, Owns, Holds
  <2>7. \A q \in Provisioner : Owns(q)'
    BY <2>5, <2>6
  <2>8. config' = Nil
    BY <2>1, <2>2
  <2> QED
    BY <2>4, <2>7, <2>8 DEF PlaceInv
<1>6. ASSUME NEW p \in Provisioner, PublishConfig(p)
      PROVE  PlaceInv'
  <2>1. /\ step[p] = "publishing" /\ place[p] = Last + 1 /\ config' = BundleOf(p)
        /\ UNCHANGED file /\ step'[p] = "done"
        /\ \A q \in Provisioner \ {p} :
             step'[q] = step[q] /\ place'[q] = place[q] /\ read'[q] = read[q]
    BY <1>a, <1>6 DEF PublishConfig, Ends, Goes
  <2>2. \A i \in 1 .. Last : file[Order[i]] = BundleOf(p)
    <3>1. place[p] - 1 = Last
      BY <2>1, OrderFacts
    <3> QED
      BY <2>1, <3>1 DEF PlaceInv, Owns
  <2>3. \A w \in Worker : file[w] = BundleOf(p)
    BY <2>2, ProviderAssumption
  <2>4. Holds(p)
    BY <2>1, OrderFacts DEF Holds
  <2>5. \A q \in Provisioner : ~Holds(q)'
    BY <2>1, <2>4 DEF PlaceInv, Holds
  <2>6. \A q \in Provisioner : Owns(q)'
    BY <2>1 DEF PlaceInv, Owns, BundleOf
  <2> QED
    BY <2>1, <2>3, <2>5, <2>6 DEF PlaceInv
<1>7. ASSUME NEW p \in Provisioner, PublishFails(p)
      PROVE  PlaceInv'
  <2>1. /\ UNCHANGED files /\ step[p] = "publishing"
        /\ \A q \in Provisioner \ {p} :
             step'[q] = step[q] /\ place'[q] = place[q] /\ read'[q] = read[q]
        /\ \/ step'[p] = "done"
           \/ /\ place[p] > 1 /\ step'[p] = "cleaning" /\ place'[p] = place[p] - 1
              /\ read'[p] = read[p]
    BY <1>a, <1>7 DEF PublishFails, GoesBack, Goes, Ends
  <2>2. Owns(p)' /\ (Holds(p)' => Holds(p))
    BY <2>1 DEF PlaceInv, Owns, Holds, BundleOf, files
  <2> QED
    BY <2>1, <2>2, PlaceLeft
<1>8. ASSUME NEW p \in Provisioner, CleanNext(p)
      PROVE  PlaceInv'
  <2>1. /\ step[p] = "cleaning" /\ UNCHANGED config
        /\ file' \in {file, [file EXCEPT ![Order[place[p]]] = Nil]}
        /\ \A q \in Provisioner \ {p} :
             step'[q] = step[q] /\ place'[q] = place[q] /\ read'[q] = read[q]
        /\ \/ step'[p] = "done"
           \/ /\ place[p] > 1 /\ step'[p] = "cleaning" /\ place'[p] = place[p] - 1
              /\ read'[p] = read[p]
    BY <1>a, <1>8 DEF CleanNext, GoesBack, Goes, Ends
  <2>2. Holds(p) /\ config = Nil /\ \A q \in Provisioner : Holds(q) => q = p
    BY <2>1 DEF PlaceInv, Holds
  <2>3. \A q \in Provisioner : Holds(q)' => q = p
    BY <2>1, <2>2 DEF Holds
  <2>4. ASSUME NEW q \in Provisioner, q # p PROVE Owns(q)'
    BY <1>a, <2>1, <2>2, <2>4 DEF PlaceInv, Owns, Holds
  <2>5. Owns(p)'
    <3>1. CASE step'[p] = "done"
      BY <3>1 DEF Owns
    <3>2. CASE step'[p] = "cleaning" /\ place[p] > 1 /\ place'[p] = place[p] - 1 /\ read'[p] = read[p]
      <4>1. ASSUME NEW i \in 1 .. place[p] - 1 PROVE file'[Order[i]] = BundleOf(p)
        <5>1. i \in 1 .. Last /\ place[p] \in 1 .. Last /\ i # place[p] /\ i \in 1 .. place[p]
          BY <1>a, <2>1, OrderFacts
        <5>2. Order[i] # Order[place[p]] /\ Order[i] \in Worker
          BY <5>1, OrderFacts, ProviderAssumption
        <5> QED
          BY <1>a, <2>1, <5>1, <5>2 DEF PlaceInv, Owns
      <4> QED
        BY <3>2, <4>1 DEF Owns, BundleOf
    <3> QED
      BY <2>1, <3>1, <3>2
  <2> QED
    BY <2>1, <2>2, <2>3, <2>4, <2>5 DEF PlaceInv
<1>9. ASSUME NEW w \in Worker, SettleRow(w)
      PROVE  PlaceInv'
  BY <1>9 DEF SettleRow, progress, files, PlaceInv, Owns, Holds, BundleOf
<1>10. CASE TakeAway
  BY <1>10 DEF TakeAway, Quiet, progress, PlaceInv, Owns, Holds
<1> QED
  BY <1>1, <1>2, <1>3, <1>4, <1>5, <1>6, <1>7, <1>8, <1>9, <1>10, ProviderCases DEF Provision

\* A step keeps the rows of an invocation fresh while no configuration is there.
LEMMA FreshStep == Inv1 /\ PlaceInv /\ FreshInv /\ [Next]_vars => FreshInv'
<1> SUFFICES ASSUME Inv1, PlaceInv, FreshInv, [Next]_vars PROVE FreshInv'
  OBVIOUS
<1>a. /\ step \in [Provisioner -> ProvisionerSteps]
      /\ place \in [Provisioner -> 1 .. Last + 1]
      /\ \A p \in Provisioner : BundleOf(p) \in Bundle
      /\ Nil \notin Bundle
  BY ProviderAssumption, DelegationAssumption
     DEF Inv1, ControlTypeOK, ProviderTypeOK, BundleOf, Bundle
<1> HIDE DEF Inv1, PlaceInv
<1> DEFINE Fresh(p) == \A i \in Confirmed(p) : <<WindowOf[p], Order[i]>> \in reserved \ settled
<1>1. ASSUME UNCHANGED gateway, config' \in {config} \cup Bundle,
             NEW p \in Provisioner,
             \A q \in Provisioner \ {p} : step'[q] = step[q] /\ place'[q] = place[q],
             settled' = settled, reserved \subseteq reserved',
             config = Nil => Fresh(p)'
      PROVE  FreshInv'
  <2>1. ASSUME NEW q \in Provisioner, q # p, Fresh(q) PROVE Fresh(q)'
    BY <1>1, <2>1 DEF Confirmed
  <2>2. config' = Nil => config = Nil
    BY <1>a, <1>1
  <2> QED
    BY <1>1, <2>1, <2>2 DEF FreshInv
<1>2. ASSUME UNCHANGED provider, gateway' # Nil => gateway # Nil \/ config # Nil
      PROVE  FreshInv'
  BY <1>2 DEF provider, progress, ledger, files, FreshInv, Confirmed
<1>3. ASSUME NEW p \in Provisioner, Provision(p), UNCHANGED gateway
      PROVE  FreshInv'
  <2> USE DEF ledger, files, Goes, Ends, Advances
  <2>1. CASE LoadConfig(p) \/ AssertAbsent(p) \/ CommitSnapshot(p) \/ Stops(p)
    <3>1. /\ step'[p] \in {"loaded", "clear", "reserving", "done"}
          /\ \A q \in Provisioner \ {p} : step'[q] = step[q] /\ place'[q] = place[q]
          /\ settled' = settled /\ reserved' = reserved /\ config' = config
      BY <1>a, <2>1 DEF LoadConfig, AssertAbsent, CommitSnapshot, Stops
    <3> QED
      BY <1>1, <1>3, <3>1 DEF Confirmed
  <2>2. CASE ReserveNext(p)
    <3>1. /\ step'[p] \in {"reserving", "confirming"}
          /\ step'[p] = "confirming" => place'[p] = 1
          /\ \A q \in Provisioner \ {p} : step'[q] = step[q] /\ place'[q] = place[q]
          /\ settled' = settled /\ reserved \subseteq reserved' /\ config' = config
      BY <1>a, <2>2 DEF ReserveNext
    <3>2. Confirmed(p)' = {}
      BY <3>1 DEF Confirmed
    <3> QED
      BY <1>1, <1>3, <3>1, <3>2
  <2>3. CASE ConfirmNext(p)
    <3>1. /\ UNCHANGED <<reserved, settled, config>>
          /\ step[p] = "confirming"
          /\ \/ Row(p) \in reserved \ settled /\ Advances(p, "confirmed")
             \/ Ends(p)
      BY <2>3 DEF ConfirmNext
    <3>2. CASE Ends(p)
      <4>1. /\ step'[p] = "done"
            /\ \A q \in Provisioner \ {p} : step'[q] = step[q] /\ place'[q] = place[q]
        BY <1>a, <3>2
      <4> QED
        BY <1>1, <1>3, <3>1, <4>1 DEF Confirmed
    <3>3. CASE Row(p) \in reserved \ settled /\ Advances(p, "confirmed")
      <4>1. /\ \A q \in Provisioner \ {p} : step'[q] = step[q] /\ place'[q] = place[q]
            /\ \/ place[p] < Last /\ step'[p] = "confirming" /\ place'[p] = place[p] + 1
               \/ place[p] >= Last /\ step'[p] = "confirmed"
        BY <1>a, <3>1, <3>3, OrderFacts
      <4>2. ASSUME NEW i \in Confirmed(p)' PROVE i = place[p] \/ i \in Confirmed(p)
        <5>1. i \in 1 .. Last /\ place[p] \in 1 .. Last + 1
          BY <1>a, <4>2 DEF Confirmed
        <5>2. i < place[p] \/ i = place[p]
          BY <4>1, <4>2, <5>1, OrderFacts DEF Confirmed
        <5> QED
          BY <3>1, <5>1, <5>2 DEF Confirmed
      <4>3. config = Nil => Fresh(p)'
        BY <3>1, <3>3, <4>2 DEF FreshInv, Row
      <4> QED
        BY <1>1, <1>3, <3>1, <4>1, <4>3
    <3> QED
      BY <3>1, <3>2, <3>3
  <2>4. CASE ReadVersion(p) \/ PublishPackage(p)
    <3>1. /\ step[p] \in {"confirmed", "publishing"} /\ step'[p] = "publishing"
          /\ \A q \in Provisioner \ {p} : step'[q] = step[q] /\ place'[q] = place[q]
          /\ UNCHANGED <<reserved, settled, config>>
      BY <1>a, <2>4 DEF ReadVersion, PublishPackage
    <3>2. Confirmed(p)' = Confirmed(p)
      BY <3>1 DEF Confirmed
    <3> QED
      BY <1>1, <1>3, <3>1, <3>2 DEF FreshInv
  <2>5. CASE PublishConfig(p) \/ PublishFails(p) \/ CleanNext(p)
    <3>1. /\ step'[p] \in {"cleaning", "done"} /\ config' \in {config} \cup Bundle
          /\ \A q \in Provisioner \ {p} : step'[q] = step[q] /\ place'[q] = place[q]
          /\ UNCHANGED <<reserved, settled>>
      BY <1>a, <2>5 DEF PublishConfig, PublishFails, CleanNext, GoesBack
    <3> QED
      BY <1>1, <1>3, <3>1 DEF Confirmed
  <2> QED
    BY <1>3, <2>1, <2>2, <2>3, <2>4, <2>5 DEF Provision
<1>4. ASSUME NEW w \in Worker, SettleRow(w)
      PROVE  FreshInv'
  BY <1>4 DEF SettleRow, progress, files, FreshInv
<1>5. CASE TakeAway
  BY <1>5 DEF TakeAway, Quiet, progress, FreshInv, Confirmed
<1>6. \/ UNCHANGED gateway \/ StopGateway \/ StartGateway
  BY DEF Next, vars, ProvisionNext, ChainNext, CallNext, GatewayNext, SettleRow, TakeAway,
         BusinessCommand
<1>7. gateway' # Nil => gateway # Nil \/ config # Nil
  BY <1>6 DEF StopGateway, StartGateway
<1> QED
  BY <1>2, <1>3, <1>4, <1>5, <1>7, ProviderCases

----------------------------------------------------------------------------
(* What a step keeps *)

RoomKept ==
  \A v \in Worker :
    /\ Len(room[v]) <= Len(room'[v])
    /\ \A i \in 1 .. Len(room[v]) : room'[v][i] = room[v][i]

\* Versions and rooms grow; ports, loaded configurations and accepted replies
\* do not change.
Kept ==
  /\ version <= version' /\ called \subseteq called'
  /\ \A d \in Chain : port[d] # Nil => port'[d] = port[d]
  /\ \A d \in Chain : seen[d] # Nil => seen'[d] = seen[d]
  /\ RoomKept
  /\ \A d \in Chain, v \in Worker : call[d][v] = "answered" =>
        call'[d][v] = "answered" /\ answer'[d][v] = answer[d][v]

\* Posting appends one event to the room of the Worker.
LEMMA PostAppends ==
  ASSUME DelegationTypeOK, NEW c \in Chain, NEW w \in Worker, NEW e \in Event,
         room' = [room EXCEPT ![w] = Append(@, e)]
  PROVE  /\ RoomKept
         /\ Len(room'[w]) = Len(room[w]) + 1 /\ room'[w][Len(room[w]) + 1] = e
         /\ \A v \in Worker \ {w} : room'[v] = room[v]
<1>1. room \in [Worker -> Seq(Event)]
  BY DEF DelegationTypeOK
<1>2. room'[w] = Append(room[w], e) /\ \A v \in Worker \ {w} : room'[v] = room[v]
  BY <1>1
<1>3. /\ Len(Append(room[w], e)) = Len(room[w]) + 1
      /\ Append(room[w], e)[Len(room[w]) + 1] = e
      /\ \A i \in 1 .. Len(room[w]) : Append(room[w], e)[i] = room[w][i]
      /\ Len(room[w]) \in Nat
  BY <1>1
<1>4. \A v \in Worker : Len(room[v]) \in Nat
  BY <1>1
<1> QED
  BY <1>2, <1>3, <1>4 DEF RoomKept

\* The event that a Send or a Reply posts.
Posted(c, kind, good, related) ==
  [kind |-> kind, chain |-> c, good |-> good, related |-> related, at |-> version]

\* A step posts nothing, or one event for a chain that has a port.
LEMMA RoomStepCases ==
  ASSUME Inv1, [Next]_vars
  PROVE  \/ UNCHANGED room
         \/ \E c \in Chain, w \in Worker, e \in Event :
              /\ room' = [room EXCEPT ![w] = Append(@, e)]
              /\ port[c] # Nil /\ e.chain = c /\ e.at = version /\ UNCHANGED version
              /\ e.kind = "reply" => (e.good => work[c][w] = "good")
<1>a. version \in Version
  BY DEF Inv1, ControlTypeOK, DelegationTypeOK
<1>b. ASSUME NEW c \in Chain, NEW w \in Worker,
             helper[c][w] = "baselined" \/ work[c][w] # "none"
      PROVE  port[c] # Nil
  BY <1>b DEF Inv1, PortInv, ChainPort
<1>1. ASSUME NEW c \in Chain, NEW w \in Worker, Send(c, w)
      PROVE  \E e \in Event :
              /\ room' = [room EXCEPT ![w] = Append(@, e)]
              /\ port[c] # Nil /\ e.chain = c /\ e.at = version /\ UNCHANGED version
              /\ e.kind = "reply" => (e.good => work[c][w] = "good")
  <2> DEFINE e == Posted(c, "request", TRUE, TRUE)
  <2>1. e \in Event /\ e.chain = c /\ e.at = version /\ e.kind = "request"
    BY <1>a DEF Posted, Event
  <2>2. room' = [room EXCEPT ![w] = Append(@, e)] /\ port[c] # Nil /\ UNCHANGED version
    BY <1>b, <1>1 DEF Send, Post, Posted
  <2> HIDE DEF e
  <2> QED
    BY <2>1, <2>2
<1>2. ASSUME NEW c \in Chain, NEW w \in Worker, Reply(c, w)
      PROVE  \E e \in Event :
              /\ room' = [room EXCEPT ![w] = Append(@, e)]
              /\ port[c] # Nil /\ e.chain = c /\ e.at = version /\ UNCHANGED version
              /\ e.kind = "reply" => (e.good => work[c][w] = "good")
  <2>1. \E related \in BOOLEAN :
          room' = [room EXCEPT ![w] = Append(@, Posted(c, "reply", work[c][w] = "good", related))]
    BY <1>2 DEF Reply, Post, Posted
  <2>2. PICK related \in BOOLEAN :
          room' = [room EXCEPT ![w] = Append(@, Posted(c, "reply", work[c][w] = "good", related))]
    BY <2>1
  <2> DEFINE e == Posted(c, "reply", work[c][w] = "good", related)
  <2>3. e \in Event /\ e.chain = c /\ e.at = version /\ (e.good => work[c][w] = "good")
    BY <1>a DEF Posted, Event
  <2>4. room' = [room EXCEPT ![w] = Append(@, e)] /\ port[c] # Nil /\ UNCHANGED version
    BY <1>b, <1>2, <2>2 DEF Reply
  <2> HIDE DEF e
  <2> QED
    BY <2>3, <2>4
<1>3. ASSUME NEW c \in Chain, NEW w \in Worker, CallFails(c, w) \/ AwaitResponse(c, w) \/ Work(c, w)
      PROVE  UNCHANGED room
  BY <1>3 DEF CallFails, AwaitResponse, Work
<1>4. ASSUME NEW c \in Chain, AskNext(c) \/ RouteNext(c)
      PROVE  UNCHANGED room
  BY <1>4 DEF AskNext, RouteNext, Dispatch
<1>5. ASSUME NEW c \in Chain, ReadBefore(c) \/ Crash(c) \/ \E v \in Version : ReadSnapshot(c, v)
      PROVE  UNCHANGED room
  BY <1>5 DEF ReadBefore, Crash, ReadSnapshot
<1>6. UNCHANGED delegation \/ BusinessCommand => UNCHANGED room
  BY DEF delegation, BusinessCommand
<1> QED
  BY <1>1, <1>2, <1>3, <1>4, <1>5, <1>6, DelegationCases

\* A step never takes back what a chain relies on.
LEMMA StepKeeps == Inv1 /\ [Next]_vars => Kept
<1> SUFFICES ASSUME Inv1, [Next]_vars PROVE Kept
  OBVIOUS
<1>a. /\ port \in [Chain -> Bundle \cup {Nil}] /\ seen \in [Chain -> Bundle \cup {Nil}]
      /\ call \in PerCall({"idle", "dispatching", "awaiting"} \cup Ended)
      /\ answer \in PerCall(Nat) /\ room \in [Worker -> Seq(Event)] /\ DelegationTypeOK
      /\ \A c \in Chain : /\ pc[c] \in {"new", "loaded"} => port[c] = Nil
                          /\ pc[c] = "new" => seen[c] = Nil
  BY DEF Inv1, ControlTypeOK, DelegationTypeOK, ChainTypeOK, PortInv, ChainPort
<1>b. \A c \in Chain : pc[c] \in {"running", "routing"} => Target(c) \in Worker
  BY OrderFacts DEF Inv1, TurnInv, ControlTypeOK, ChainTypeOK, Target
<1>c. version <= version'
  BY VersionGrows
<1>d. RoomKept
  <2>1. \A v \in Worker : Len(room[v]) \in Nat
    BY <1>a
  <2>2. CASE UNCHANGED room
    BY <2>1, <2>2 DEF RoomKept
  <2>3. CASE ~UNCHANGED room
    <3>1. PICK c \in Chain, w \in Worker, e \in Event : room' = [room EXCEPT ![w] = Append(@, e)]
      BY <2>3, RoomStepCases
    <3> QED
      BY <1>a, <3>1, PostAppends
  <2> QED
    BY <2>2, <2>3
<1> HIDE DEF Inv1
<1> DEFINE Rest ==
      /\ called \subseteq called'
      /\ \A d \in Chain : port[d] # Nil => port'[d] = port[d]
      /\ \A d \in Chain, v \in Worker : call[d][v] = "answered" =>
            call'[d][v] = "answered" /\ answer'[d][v] = answer[d][v]
<1>1. ASSUME NEW c \in Chain, AskNext(c) \/ RouteNext(c)
      PROVE  Rest
  <2>1. PICK w \in Worker : Dispatch(c, w)
    BY <1>1, <1>b DEF AskNext, RouteNext
  <2> QED
    BY <1>a, <2>1 DEF Dispatch, PerCall
<1>2. ASSUME NEW c \in Chain, NEW w \in Worker, Send(c, w)
      PROVE  Rest
  BY <1>a, <1>2 DEF Send, PerCall
<1>3. ASSUME NEW c \in Chain, NEW w \in Worker, CallFails(c, w)
      PROVE  Rest
  BY <1>a, <1>3 DEF CallFails, PerCall
<1>4. ASSUME NEW c \in Chain, NEW w \in Worker, AwaitResponse(c, w)
      PROVE  Rest
  BY <1>a, <1>4 DEF AwaitResponse, PerCall
<1>5. ASSUME NEW c \in Chain, NEW w \in Worker, Work(c, w) \/ Reply(c, w)
      PROVE  Rest
  BY <1>5 DEF Work, Reply
<1>6. ASSUME NEW c \in Chain, ReadBefore(c) \/ \E v \in Version : ReadSnapshot(c, v)
      PROVE  Rest
  <2>1. /\ port[c] = Nil /\ UNCHANGED <<called, call, answer>>
        /\ \A d \in Chain \ {c} : port'[d] = port[d]
    BY <1>a, <1>6 DEF ReadBefore, ReadSnapshot
  <2> QED
    BY <2>1
<1>7. ASSUME NEW c \in Chain, Crash(c)
      PROVE  Rest
  BY <1>a, <1>7 DEF Crash, PerCall, Ended
<1>8. UNCHANGED delegation \/ BusinessCommand => Rest
  BY DEF delegation, BusinessCommand
<1>9. Rest
  BY <1>1, <1>2, <1>3, <1>4, <1>5, <1>6, <1>7, <1>8, DelegationCases
<1>10. \A d \in Chain : seen[d] # Nil => seen'[d] = seen[d]
  BY <1>a, ChainCases DEF chains, ReadConfig, LoadPackage, ReadBefore, Proceed, Compare,
     CreateResult, Crash, RouteDelivered, RouteFails, ReadSnapshot
<1> QED
  BY <1>c, <1>d, <1>9, <1>10 DEF Kept

----------------------------------------------------------------------------
(* Answers and results *)

\* Every event was posted for the port of a chain, and a good output has cost
\* a call of the provider.
RoomInv ==
  \A w \in Worker :
    /\ \A i \in 1 .. Len(room[w]) : LET e == room[w][i] IN
         /\ port[e.chain] # Nil
         /\ port[e.chain].version <= e.at /\ e.at <= version
         /\ (e.kind = "reply" /\ e.good) => <<port[e.chain].run, w>> \in called
    /\ \A c \in Chain : work[c][w] = "good" => <<port[c].run, w>> \in called

\* What an accepted reply was checked for.
Accepted(c, w) ==
  /\ answer[c][w] \in 1 .. Len(room[w])
  /\ Answer(c, w).kind = "reply" /\ Answer(c, w).good
  /\ SameBinding(w, port[Answer(c, w).chain], port[c])

AnswerInv == \A c \in Chain, w \in Worker : call[c][w] = "answered" => Accepted(c, w)

\* A chain has all the answers, each of the version of its bundle.
Current(c) ==
  /\ seen[c] # Nil
  /\ \A w \in Worker : call[c][w] = "answered" /\ Answer(c, w).at = seen[c].version

ResultInv ==
  /\ \A c \in Chain : pc[c] = "compared" => Current(c)
  /\ result # Nil => Current(result)

\* A real chain has asked only Workers whose predecessors have all answered.
OrderInv ==
  \A c \in Chain : seen[c] # Nil =>
    /\ pc[c] = "loaded" => turn[c] = 1
    /\ pc[c] = "running" => \A i \in 1 .. turn[c] - 1 : call[c][Order[i]] = "answered"
    /\ pc[c] \in {"answered", "compared"} => \A w \in Worker : call[c][w] = "answered"
    /\ \A i, j \in 1 .. Last :
         i < j /\ helper[c][Order[j]] # "none" => call[c][Order[i]] = "answered"

\* A route has a helper only for what it has reported and for its target.
RouteInv ==
  \A c \in Chain :
    /\ asked[c] # Nil => seen[c] = Nil
    /\ seen[c] = Nil =>
         /\ \A w \in Reported(c) : sent[c][w] # 0
         /\ \A w \in Worker : helper[c][w] # "none" => w \in Reported(c) \cup {Target(c)}
         /\ outcome[c] = "refused" => \A w \in Worker : helper[c][w] = "none"
         /\ outcome[c] = "routed" => turn[c] = RouteLength + 1
         /\ outcome[c] # "none" => pc[c] = "done"

\* The Program's version bounds what was posted, and a good output is paid for.
LEMMA RoomStep == Inv1 /\ RoomInv /\ [Next]_vars => RoomInv'
<1> SUFFICES ASSUME Inv1, RoomInv, [Next]_vars PROVE RoomInv'
  OBVIOUS
<1> DEFINE Fine(e, v) ==
      /\ port[e.chain] # Nil
      /\ port[e.chain].version <= e.at /\ e.at <= version
      /\ (e.kind = "reply" /\ e.good) => <<port[e.chain].run, v>> \in called
<1>1. Kept
  BY StepKeeps
<1>2. /\ version \in Int /\ version' \in Int /\ DelegationTypeOK
      /\ room \in [Worker -> Seq(Event)] /\ port \in [Chain -> Bundle \cup {Nil}]
      /\ work \in PerCall({"none", "good", "bad", "replied"})
      /\ \A b \in Bundle : b.version \in Int
  BY VersionGrows DEF Inv1, ControlTypeOK, DelegationTypeOK, Version, Bundle
<1>3. ASSUME NEW v \in Worker, NEW e \in Event, Fine(e, v)
      PROVE  Fine(e, v)'
  <2>1. e.chain \in Chain /\ e.at \in Int
    BY DEF Event, Version
  <2>2. port'[e.chain] = port[e.chain]
    BY <1>1, <1>3, <2>1 DEF Kept
  <2> QED
    BY <1>1, <1>2, <1>3, <2>1, <2>2 DEF Kept
<1>4. ASSUME NEW v \in Worker, NEW i \in 1 .. Len(room[v])
      PROVE  room[v][i] \in Event /\ Fine(room[v][i], v) /\ room'[v][i] = room[v][i]
  <2>1. room[v][i] \in Event
    BY <1>2
  <2> QED
    BY <1>1, <2>1 DEF RoomInv, Kept, RoomKept
<1>5. ASSUME NEW v \in Worker, NEW i \in 1 .. Len(room'[v])
      PROVE  Fine(room[v][i], v)'
  <2>1. CASE i \in 1 .. Len(room[v])
    <3>1. PICK e \in Event : e = room[v][i]
      BY <1>4, <2>1
    <3>2. Fine(e, v) /\ room'[v][i] = e
      BY <1>4, <2>1, <3>1
    <3>3. Fine(e, v)'
      BY <1>3, <3>2
    <3> QED
      BY <3>2, <3>3
  <2>2. CASE i \notin 1 .. Len(room[v])
    <3>1. ~UNCHANGED room
      BY <2>2
    <3>2. PICK c \in Chain, w \in Worker, e \in Event :
            /\ room' = [room EXCEPT ![w] = Append(@, e)]
            /\ port[c] # Nil /\ e.chain = c /\ e.at = version /\ UNCHANGED version
            /\ e.kind = "reply" => (e.good => work[c][w] = "good")
      BY <3>1, RoomStepCases
    <3>3. v = w /\ room'[v][i] = e
      <4>1. /\ Len(room'[w]) = Len(room[w]) + 1 /\ room'[w][Len(room[w]) + 1] = e
            /\ \A u \in Worker \ {w} : room'[u] = room[u]
        BY <1>2, <3>2, PostAppends
      <4>2. v = w
        BY <2>2, <4>1
      <4>3. Len(room[w]) \in Nat
        BY <1>2
      <4>4. i = Len(room[w]) + 1
        BY <2>2, <4>1, <4>2, <4>3
      <4> QED
        BY <4>1, <4>2, <4>4
    <3>4. port[c].version <= version
      BY <3>2 DEF Inv1, PortInv, ChainPort
    <3>5. work[c][w] = "good" => <<port[c].run, w>> \in called
      BY DEF RoomInv
    <3>6. Fine(e, w)
      BY <1>2, <3>2, <3>4, <3>5
    <3>7. Fine(e, w)'
      BY <1>3, <3>6
    <3> QED
      BY <3>3, <3>7
  <2> QED
    BY <2>1, <2>2
<1>6. ASSUME NEW v \in Worker, NEW d \in Chain, work'[d][v] = "good"
      PROVE  <<port'[d].run, v>> \in called'
  <2>1. CASE work[d][v] = "good"
    <3>1. port[d] # Nil
      BY <2>1 DEF Inv1, PortInv, ChainPort
    <3> QED
      BY <1>1, <2>1, <3>1 DEF RoomInv, Kept
  <2>2. CASE work[d][v] # "good"
    <3>1. PICK c \in Chain, w \in Worker : Work(c, w) \/ Reply(c, w)
      <4>1. ~UNCHANGED work
        BY <1>6, <2>2
      <4>2. ASSUME NEW c \in Chain, NEW w \in Worker,
                   Send(c, w) \/ CallFails(c, w) \/ AwaitResponse(c, w)
            PROVE  UNCHANGED work
        BY <4>2 DEF Send, CallFails, AwaitResponse
      <4>3. ASSUME NEW c \in Chain, AskNext(c) \/ RouteNext(c)
            PROVE  UNCHANGED work
        BY <4>3 DEF AskNext, RouteNext, Dispatch
      <4>4. ASSUME NEW c \in Chain, ReadBefore(c) \/ Crash(c) \/ \E u \in Version : ReadSnapshot(c, u)
            PROVE  UNCHANGED work
        BY <4>4 DEF ReadBefore, Crash, ReadSnapshot
      <4>5. UNCHANGED delegation \/ BusinessCommand => UNCHANGED work
        BY DEF delegation, BusinessCommand
      <4> QED
        BY <4>1, <4>2, <4>3, <4>4, <4>5, DelegationCases
    <3>2. Work(c, w) /\ c = d /\ w = v
      <4>1. \E s \in {"good", "bad", "replied"} : work' = [work EXCEPT ![c][w] = s]
        BY <3>1 DEF Work, Reply
      <4>2. c = d /\ w = v
        BY <1>2, <1>6, <2>2, <4>1 DEF PerCall
      <4>3. ~Reply(c, w)
        BY <1>2, <1>6, <4>2 DEF Reply, PerCall
      <4> QED
        BY <3>1, <4>2, <4>3
    <3> QED
      BY <1>2, <1>6, <3>2 DEF Work, PerCall
  <2> QED
    BY <2>1, <2>2
<1> QED
  BY <1>5, <1>6 DEF RoomInv

\* Only a poll that takes it makes an answer.
LEMMA NewAnswer ==
  ASSUME Inv1, [Next]_vars, NEW d \in Chain, NEW v \in Worker,
         call'[d][v] = "answered", call[d][v] # "answered"
  PROVE  AwaitResponse(d, v)
<1>1. call \in PerCall({"idle", "dispatching", "awaiting"} \cup Ended)
  BY DEF Inv1, ControlTypeOK, DelegationTypeOK
<1>2. ASSUME NEW c \in Chain, NEW w \in Worker, Dispatch(c, w) \/ Send(c, w) \/ CallFails(c, w)
      PROVE  FALSE
  <2>1. \E s \in {"dispatching", "awaiting", "failed", call[c][w]} :
          call' = [call EXCEPT ![c][w] = s]
    BY <1>1, <1>2 DEF Dispatch, Send, CallFails
  <2> QED
    BY <1>1, <2>1 DEF PerCall
<1>3. ASSUME NEW c \in Chain, Crash(c) PROVE FALSE
  BY <1>1, <1>3 DEF Crash, PerCall, Ended
<1>4. ASSUME NEW c \in Chain, AskNext(c) \/ RouteNext(c) PROVE FALSE
  <2>1. Target(c) \in Worker
    BY <1>4, OrderFacts DEF AskNext, RouteNext, Inv1, TurnInv, ControlTypeOK, ChainTypeOK, Target
  <2> QED
    BY <1>2, <1>4, <2>1 DEF AskNext, RouteNext
<1>5. ASSUME NEW c \in Chain, NEW w \in Worker, Work(c, w) \/ Reply(c, w) PROVE FALSE
  BY <1>5 DEF Work, Reply
<1>6. ASSUME NEW c \in Chain, ReadBefore(c) \/ \E u \in Version : ReadSnapshot(c, u) PROVE FALSE
  BY <1>6 DEF ReadBefore, ReadSnapshot
<1>7. PICK c \in Chain, w \in Worker : AwaitResponse(c, w)
  <2>1. ~(UNCHANGED delegation \/ BusinessCommand)
    BY DEF delegation, BusinessCommand
  <2> QED
    BY <1>2, <1>3, <1>4, <1>5, <1>6, <2>1, DelegationCases
<1>8. UNCHANGED call \/ \E s \in Ended : call' = [call EXCEPT ![c][w] = s]
  BY <1>7 DEF AwaitResponse, Ended
<1>9. c = d /\ w = v
  BY <1>1, <1>8 DEF PerCall
<1> QED
  BY <1>7, <1>9

\* What a reply was accepted for remains true, and a poll checks it.
LEMMA AnswerStep == Inv1 /\ RoomInv /\ AnswerInv /\ [Next]_vars => AnswerInv'
<1> SUFFICES ASSUME Inv1, RoomInv, AnswerInv, [Next]_vars,
                    NEW d \in Chain, NEW v \in Worker, call'[d][v] = "answered"
             PROVE  Accepted(d, v)'
  BY DEF AnswerInv
<1>1. Kept
  BY StepKeeps
<1>2. /\ room \in [Worker -> Seq(Event)] /\ room' \in [Worker -> Seq(Event)]
      /\ answer \in PerCall(Nat) /\ cursor \in PerCall(Nat)
  BY TypeStep DEF Inv1, ControlTypeOK, DelegationTypeOK
<1>3. CASE call[d][v] = "answered"
  <2>1. Accepted(d, v)
    BY <1>3 DEF AnswerInv
  <2>2. answer'[d][v] = answer[d][v] /\ answer[d][v] \in 1 .. Len(room'[v])
        /\ room'[v][answer[d][v]] = room[v][answer[d][v]]
    <3>1. Len(room[v]) \in Nat /\ Len(room'[v]) \in Nat
      BY <1>2
    <3> QED
      BY <1>1, <1>3, <2>1, <3>1 DEF Kept, RoomKept, Accepted
  <2>3. Answer(d, v)' = Answer(d, v)
    BY <2>2 DEF Answer
  <2>4. Answer(d, v) \in Event
    BY <1>2, <2>1 DEF Accepted, Answer
  <2>5. port'[d] = port[d] /\ port'[Answer(d, v).chain] = port[Answer(d, v).chain]
    <3>1. port[d] # Nil
      BY <1>3 DEF Inv1, PortInv, ChainPort
    <3>2. port[Answer(d, v).chain] # Nil /\ Answer(d, v).chain \in Chain
      BY <2>1, <2>4 DEF RoomInv, Accepted, Answer, Event
    <3> QED
      BY <1>1, <3>1, <3>2 DEF Kept
  <2> QED
    BY <2>1, <2>2, <2>3, <2>5 DEF Accepted, SameBinding
<1>4. CASE call[d][v] # "answered"
  <2>1. AwaitResponse(d, v)
    BY <1>4, NewAnswer
  <2>2. PICK i \in Valid(d, v) :
          /\ SameBinding(v, port[room[v][i].chain], port[d])
          /\ answer' = [answer EXCEPT ![d][v] = i] /\ UNCHANGED <<room, port>>
    <3>1. call \in PerCall({"idle", "dispatching", "awaiting"} \cup Ended)
      BY DEF Inv1, ControlTypeOK, DelegationTypeOK
    <3> QED
      BY <1>4, <2>1, <3>1 DEF AwaitResponse, PerCall
  <2>3. i \in 1 .. Len(room[v]) /\ Candidate(d, v, i) /\ room[v][i].good
    <3>1. cursor[d][v] \in Nat /\ Len(room[v]) \in Nat
      BY <1>2 DEF PerCall
    <3> QED
      BY <2>2, <3>1 DEF Valid
  <2>4. answer'[d][v] = i
    BY <1>2, <2>2 DEF PerCall
  <2> QED
    BY <2>2, <2>3, <2>4 DEF Accepted, Answer, Candidate, SameBinding
<1> QED
  BY <1>3, <1>4

\* Once a chain has an answer of every Worker for its version, it keeps them.
LEMMA CurrentKept ==
  ASSUME Inv1, AnswerInv, [Next]_vars, NEW c \in Chain, Current(c)
  PROVE  Current(c)'
<1>1. Kept
  BY StepKeeps
<1>2. ASSUME NEW w \in Worker
      PROVE  call'[c][w] = "answered" /\ Answer(c, w)' = Answer(c, w)
  <2>1. answer[c][w] \in 1 .. Len(room[w])
    BY DEF Current, AnswerInv, Accepted
  <2> QED
    BY <1>1, <2>1 DEF Current, Kept, RoomKept, Answer
<1>3. seen'[c] = seen[c]
  BY <1>1 DEF Current, Kept
<1> QED
  BY <1>2, <1>3 DEF Current

\* With the second reading at the version of the bundle, no answer can be of
\* another one.
LEMMA CompareCurrent ==
  ASSUME Inv1, RoomInv, AnswerInv, OrderInv, NEW c \in Chain,
         pc[c] = "answered", version = seen[c].version
  PROVE  Current(c)
<1>1. seen[c] # Nil /\ port[c] = seen[c]
  BY DEF Inv1, PortInv, ChainPort
<1>2. ASSUME NEW w \in Worker
      PROVE  call[c][w] = "answered" /\ Answer(c, w).at = seen[c].version
  <2>1. call[c][w] = "answered" /\ Accepted(c, w)
    BY <1>1 DEF OrderInv, AnswerInv
  <2>2. room[w] \in Seq(Event) /\ version \in Int
    BY DEF Inv1, ControlTypeOK, DelegationTypeOK, Version
  <2>3. Answer(c, w) \in Event
    BY <2>1, <2>2 DEF Accepted, Answer
  <2>4. Answer(c, w).at \in Int
    BY <2>3 DEF Event, Version
  <2>5. port[Answer(c, w).chain].version <= Answer(c, w).at /\ Answer(c, w).at <= version
    BY <2>1 DEF RoomInv, Accepted, Answer
  <2>6. port[Answer(c, w).chain].version = version
    BY <1>1, <2>1 DEF Accepted, SameBinding
  <2> QED
    BY <2>1, <2>2, <2>4, <2>5, <2>6
<1> QED
  BY <1>1, <1>2 DEF Current

\* A result is created by a chain that has compared.
LEMMA ResultStep ==
  Inv1 /\ RoomInv /\ AnswerInv /\ OrderInv /\ ResultInv /\ [Next]_vars => ResultInv'
<1> SUFFICES ASSUME Inv1, RoomInv, AnswerInv, OrderInv, ResultInv, [Next]_vars PROVE ResultInv'
  OBVIOUS
<1>1. /\ DOMAIN pc = Chain /\ result \in Chain \cup {Nil}
  BY DEF Inv1, ControlTypeOK, ChainTypeOK
<1>2. ASSUME NEW c \in Chain, pc'[c] = "compared"
      PROVE  Current(c)'
  <2>1. CASE pc[c] = "compared"
    BY <2>1, CurrentKept DEF ResultInv
  <2>2. CASE pc[c] # "compared"
    <3>1. pc[c] = "answered" /\ version = seen[c].version
      BY <1>1, <1>2, <2>2, ChainCases DEF chains, ReadConfig, LoadPackage, ReadBefore, Proceed,
         Compare, CreateResult, Crash, RouteDelivered, RouteFails, ReadSnapshot, Reaches, Reports
    <3>2. Current(c)
      BY <3>1, CompareCurrent
    <3> QED
      BY <3>2, CurrentKept
  <2> QED
    BY <2>1, <2>2
<1>3. ASSUME result' # Nil
      PROVE  Current(result)'
  <2>1. result' = result \/ (result = Nil /\ result' \in Chain /\ pc[result'] = "compared")
    BY ChainCases DEF chains, ReadConfig, LoadPackage, ReadBefore, Proceed,
       Compare, CreateResult, Crash, RouteDelivered, RouteFails, ReadSnapshot
  <2>2. result' \in Chain /\ Current(result')
    BY <1>1, <1>3, <2>1 DEF ResultInv
  <2>3. PICK c \in Chain : c = result' /\ Current(c)
    BY <2>2
  <2>4. Current(c)'
    BY <2>3, CurrentKept
  <2> QED
    BY <2>3, <2>4 DEF Current, Answer
<1> QED
  BY <1>2, <1>3 DEF ResultInv

----------------------------------------------------------------------------
(* The order of the requests *)

\* A helper is new only where the chain or the route dispatches to its target.
LEMMA NewHelper ==
  ASSUME Inv1, [Next]_vars, NEW c \in Chain, NEW w \in Worker,
         helper'[c][w] # "none", helper[c][w] = "none"
  PROVE  w = Target(c) /\ (AskNext(c) \/ RouteNext(c))
<1>1. helper \in PerCall({"none", "baselined", "sent"})
  BY DEF Inv1, ControlTypeOK, DelegationTypeOK
<1>2. ASSUME NEW d \in Chain, NEW v \in Worker,
             Send(d, v) \/ CallFails(d, v) \/ AwaitResponse(d, v) \/ Work(d, v) \/ Reply(d, v)
      PROVE  FALSE
  <2>1. UNCHANGED helper \/ (helper[d][v] = "baselined" /\ helper' = [helper EXCEPT ![d][v] = "sent"])
    BY <1>2 DEF Send, CallFails, AwaitResponse, Work, Reply
  <2> QED
    BY <1>1, <2>1 DEF PerCall
<1>3. ASSUME NEW d \in Chain, ReadBefore(d) \/ Crash(d) \/ \E u \in Version : ReadSnapshot(d, u)
      PROVE  FALSE
  BY <1>3 DEF ReadBefore, Crash, ReadSnapshot
<1>4. ~(UNCHANGED delegation \/ BusinessCommand)
  BY DEF delegation, BusinessCommand
<1>5. PICK d \in Chain : AskNext(d) \/ RouteNext(d)
  BY <1>2, <1>3, <1>4, DelegationCases
<1>6. helper' = [helper EXCEPT ![d][Target(d)] = "baselined"]
  BY <1>5 DEF AskNext, RouteNext, Dispatch
<1>7. d = c /\ w = Target(d)
  BY <1>1, <1>6 DEF PerCall
<1> QED
  BY <1>5, <1>7

\* What one chain or route does in a step: nothing, or one of its own actions.
LEMMA ChainMoves ==
  ASSUME Inv1, [Next]_vars, NEW c \in Chain
  PROVE  \/ /\ pc'[c] = pc[c] /\ seen'[c] = seen[c] /\ turn'[c] = turn[c]
            /\ asked'[c] = asked[c] /\ outcome'[c] = outcome[c]
         \/ ReadConfig(c) \/ LoadPackage(c) \/ ReadBefore(c) \/ Proceed(c)
         \/ Compare(c) \/ CreateResult(c) \/ Crash(c) \/ RouteDelivered(c)
         \/ RouteFails(c) \/ \E v \in Version : ReadSnapshot(c, v)
<1>1. ChainTypeOK
  BY DEF Inv1, ControlTypeOK
<1>2. CASE UNCHANGED chains
  BY <1>2 DEF chains
<1>3. ASSUME NEW d \in Chain, d # c,
             \/ ReadConfig(d) \/ LoadPackage(d) \/ ReadBefore(d) \/ Proceed(d)
             \/ Compare(d) \/ CreateResult(d) \/ Crash(d) \/ RouteDelivered(d)
             \/ RouteFails(d) \/ \E v \in Version : ReadSnapshot(d, v)
      PROVE  /\ pc'[c] = pc[c] /\ seen'[c] = seen[c] /\ turn'[c] = turn[c]
             /\ asked'[c] = asked[c] /\ outcome'[c] = outcome[c]
  BY <1>1, <1>3 DEF ReadConfig, LoadPackage, ReadBefore, Proceed, Compare, CreateResult, Crash,
     RouteDelivered, RouteFails, ReadSnapshot, Reaches, Reports, ChainTypeOK
<1> QED
  BY <1>2, <1>3, ChainCases

\* A request, once posted, has been posted.
LEMMA SentKept ==
  ASSUME Inv1, [Next]_vars, NEW c \in Chain, NEW w \in Worker, sent[c][w] # 0
  PROVE  sent'[c][w] # 0
<1>1. sent \in PerCall(Nat) /\ room \in [Worker -> Seq(Event)]
  BY DEF Inv1, ControlTypeOK, DelegationTypeOK
<1>2. UNCHANGED sent \/ \E d \in Chain, v \in Worker : sent' = [sent EXCEPT ![d][v] = Len(room[v]) + 1]
  <2>1. ASSUME NEW d \in Chain, AskNext(d) \/ RouteNext(d) PROVE UNCHANGED sent
    BY <2>1 DEF AskNext, RouteNext, Dispatch
  <2>2. ASSUME NEW d \in Chain, NEW v \in Worker,
               CallFails(d, v) \/ AwaitResponse(d, v) \/ Work(d, v) \/ Reply(d, v)
        PROVE  UNCHANGED sent
    BY <2>2 DEF CallFails, AwaitResponse, Work, Reply
  <2>3. ASSUME NEW d \in Chain, ReadBefore(d) \/ Crash(d) \/ \E u \in Version : ReadSnapshot(d, u)
        PROVE  UNCHANGED sent
    BY <2>3 DEF ReadBefore, Crash, ReadSnapshot
  <2>4. UNCHANGED delegation \/ BusinessCommand => UNCHANGED sent
    BY DEF delegation, BusinessCommand
  <2>5. ASSUME NEW d \in Chain, NEW v \in Worker, Send(d, v)
        PROVE  sent' = [sent EXCEPT ![d][v] = Len(room[v]) + 1]
    BY <2>5 DEF Send
  <2> QED
    BY <2>1, <2>2, <2>3, <2>4, <2>5, DelegationCases
<1>3. \A v \in Worker : Len(room[v]) + 1 # 0
  BY <1>1
<1> QED
  BY <1>1, <1>2, <1>3 DEF PerCall

\* A chain asks the next Worker when the ones before have answered.
LEMMA OrderStep == Inv1 /\ OrderInv /\ [Next]_vars => OrderInv'
<1> SUFFICES ASSUME Inv1, OrderInv, [Next]_vars, NEW c \in Chain, seen'[c] # Nil
             PROVE  /\ pc'[c] = "loaded" => turn'[c] = 1
                    /\ pc'[c] = "running" =>
                         \A i \in 1 .. turn'[c] - 1 : call'[c][Order[i]] = "answered"
                    /\ pc'[c] \in {"answered", "compared"} =>
                         \A w \in Worker : call'[c][w] = "answered"
                    /\ \A i, j \in 1 .. Last :
                         i < j /\ helper'[c][Order[j]] # "none" => call'[c][Order[i]] = "answered"
  BY DEF OrderInv
<1>a. /\ ChainTypeOK /\ DOMAIN pc = Chain /\ DOMAIN turn = Chain
      /\ turn[c] \in 1 .. Last + 1
      /\ pc[c] \in {"loading", "loaded", "running"} => turn[c] <= Last
      /\ Last \in Nat /\ Last > 0 /\ \A i \in 1 .. Last : Order[i] \in Worker
      /\ \A w \in Worker : \E i \in 1 .. Last : Order[i] = w
      /\ \A i, j \in 1 .. Last : Order[i] = Order[j] => i = j
      /\ port[c] = Nil => \A w \in Worker : helper[c][w] = "none"
      /\ pc[c] = "new" => port[c] = Nil
      /\ pc[c] = "loaded" => port[c] = Nil
      /\ pc[c] = "routing" => seen[c] = Nil
  BY OrderFacts, ProviderAssumption
     DEF Inv1, ControlTypeOK, ChainTypeOK, TurnInv, PortInv, ChainPort
<1>b. \A w \in Worker : call[c][w] = "answered" => call'[c][w] = "answered"
  BY StepKeeps DEF Kept
<1>1. CASE seen[c] = Nil
  <2>1. ReadConfig(c)
    BY <1>1, <1>a, ChainMoves DEF LoadPackage, ReadBefore, Proceed, Compare,
       CreateResult, Crash, RouteDelivered, RouteFails, ReadSnapshot
  <2>2. pc'[c] = "loading" /\ \A w \in Worker : helper'[c][w] = "none"
    BY <1>a, <2>1 DEF ReadConfig, Reaches, delegation
  <2> QED
    BY <1>a, <2>2
<1>2. CASE seen[c] # Nil
  <2>a. /\ pc[c] = "loaded" => turn[c] = 1
        /\ pc[c] = "running" => \A i \in 1 .. turn[c] - 1 : call[c][Order[i]] = "answered"
        /\ pc[c] \in {"answered", "compared"} => \A w \in Worker : call[c][w] = "answered"
        /\ \A i, j \in 1 .. Last :
             i < j /\ helper[c][Order[j]] # "none" => call[c][Order[i]] = "answered"
    BY <1>2 DEF OrderInv
  <2>1. ASSUME NEW i \in 1 .. Last, NEW j \in 1 .. Last, i < j, helper'[c][Order[j]] # "none"
        PROVE  call'[c][Order[i]] = "answered"
    <3>1. CASE helper[c][Order[j]] # "none"
      BY <1>a, <1>b, <2>a, <2>1, <3>1
    <3>2. CASE helper[c][Order[j]] = "none"
      <4>1. Order[j] = Target(c) /\ pc[c] = "running"
        BY <1>2, <1>a, <2>1, <3>2, NewHelper DEF AskNext, RouteNext
      <4>2. j = turn[c]
        BY <1>a, <4>1 DEF Target
      <4> QED
        BY <1>a, <1>b, <2>a, <2>1, <4>1, <4>2
    <3> QED
      BY <3>1, <3>2
  <2>2. CASE pc'[c] = pc[c] /\ turn'[c] = turn[c]
    BY <1>a, <1>b, <2>a, <2>1, <2>2
  <2>3. CASE LoadPackage(c)
    BY <1>a, <2>1, <2>3 DEF LoadPackage, Reaches, ChainTypeOK
  <2>4. CASE ReadBefore(c)
    BY <1>a, <2>a, <2>1, <2>4 DEF ReadBefore, Reaches
  <2>5. CASE Proceed(c)
    <3>1. /\ pc[c] = "running" /\ UNCHANGED call /\ turn[c] \in 1 .. Last
          /\ call[c][Target(c)] \in Ended
      BY <1>a, <2>5 DEF Proceed, delegation
    <3>2. CASE call[c][Target(c)] = "failed"
      BY <1>a, <2>1, <2>5, <3>2 DEF Proceed, Reaches
    <3>3. CASE call[c][Target(c)] = "answered"
      <4>1. ASSUME NEW i \in 1 .. turn[c] PROVE call[c][Order[i]] = "answered"
        <5>1. i = turn[c] \/ i \in 1 .. turn[c] - 1
          BY <3>1
        <5> QED
          BY <2>a, <3>1, <3>3, <5>1 DEF Target
      <4>2. /\ turn[c] = Last => pc'[c] = "answered"
            /\ turn[c] # Last => pc'[c] = "running" /\ turn'[c] = turn[c] + 1
        BY <1>a, <2>5, <3>3 DEF Proceed, Reaches
      <4>3. CASE turn[c] = Last
        BY <1>a, <2>1, <3>1, <4>1, <4>2, <4>3
      <4>4. CASE turn[c] # Last
        BY <1>a, <2>1, <3>1, <4>1, <4>2, <4>4
      <4> QED
        BY <4>3, <4>4
    <3> QED
      BY <3>1, <3>2, <3>3 DEF Ended
  <2>6. CASE Compare(c) \/ CreateResult(c) \/ Crash(c) \/ RouteDelivered(c) \/ RouteFails(c)
    <3>1. \/ pc'[c] = "done"
          \/ pc'[c] = "compared" /\ pc[c] = "answered"
      BY <1>2, <1>a, <2>6 DEF Compare, CreateResult, Crash, RouteDelivered, RouteFails, Reaches,
         Reports
    <3> QED
      BY <1>b, <2>a, <2>1, <3>1
  <2>7. ASSUME NEW v \in Version, ReadSnapshot(c, v)
        PROVE  pc'[c] \in {"routing", "done"}
    BY <1>a, <2>7 DEF ReadSnapshot, Reaches, Reports
  <2>8. CASE ReadConfig(c)
    BY <1>a, <2>1, <2>8 DEF ReadConfig, Reaches
  <2> QED
    BY <2>1, <2>2, <2>3, <2>4, <2>5, <2>6, <2>7, <2>8, ChainMoves
<1> QED
  BY <1>1, <1>2

\* A route reports a delivery when it knows of one, and dispatches to its
\* target only while it has reported nothing else.
LEMMA RouteStepKeeps == Inv1 /\ RouteInv /\ [Next]_vars => RouteInv'
<1> SUFFICES ASSUME Inv1, RouteInv, [Next]_vars, NEW c \in Chain
             PROVE  /\ asked'[c] # Nil => seen'[c] = Nil
                    /\ seen'[c] = Nil =>
                         /\ \A w \in Reported(c)' : sent'[c][w] # 0
                         /\ \A w \in Worker : helper'[c][w] # "none" =>
                              w \in Reported(c)' \cup {Target(c)'}
                         /\ outcome'[c] = "refused" => \A w \in Worker : helper'[c][w] = "none"
                         /\ outcome'[c] = "routed" => turn'[c] = RouteLength + 1
                         /\ outcome'[c] # "none" => pc'[c] = "done"
  BY DEF RouteInv
<1>a. /\ ChainTypeOK /\ turn[c] \in 1 .. Last + 1
      /\ pc[c] = "routing" => turn[c] <= RouteLength
      /\ Last \in Nat /\ RouteLength \in 1 .. Last /\ \A i \in 1 .. Last : Order[i] \in Worker
      /\ pc[c] = "new" => /\ seen[c] = Nil /\ asked[c] = Nil
                          /\ \A w \in Worker : helper[c][w] = "none"
      /\ pc[c] \in {"loading", "loaded", "running", "answered", "compared"} => seen[c] # Nil
      /\ \A w \in Worker : call[c][w] = "awaiting" => sent[c][w] # 0
  BY OrderFacts DEF Inv1, ControlTypeOK, ChainTypeOK, TurnInv, PortInv, ChainPort
<1>b. asked[c] # Nil => seen[c] = Nil
  BY DEF RouteInv
<1>1. CASE seen[c] # Nil
  <2>1. seen'[c] = seen[c]
    BY <1>1, StepKeeps DEF Kept
  <2>2. asked'[c] = asked[c]
    BY <1>1, <1>a, ChainMoves DEF ReadConfig, LoadPackage, ReadBefore, Proceed, Compare,
       CreateResult, Crash, RouteDelivered, RouteFails, ReadSnapshot
  <2> QED
    BY <1>1, <1>b, <2>1, <2>2
<1>2. CASE seen[c] = Nil
  <2>a. /\ \A w \in Reported(c) : sent[c][w] # 0
        /\ \A w \in Worker : helper[c][w] # "none" => w \in Reported(c) \cup {Target(c)}
        /\ outcome[c] = "refused" => \A w \in Worker : helper[c][w] = "none"
        /\ outcome[c] = "routed" => turn[c] = RouteLength + 1
        /\ outcome[c] # "none" => pc[c] = "done"
    BY <1>2 DEF RouteInv
  <2>b. Reported(c) \subseteq Worker
    BY <1>a DEF Reported
  <2>c. \A w \in Worker : sent[c][w] # 0 => sent'[c][w] # 0
    BY SentKept
  <2>d. \A w \in Worker : helper'[c][w] # "none" => w \in Reported(c) \cup {Target(c)}
    BY <2>a, NewHelper
  <2>e. pc[c] = "done" => \A w \in Worker : helper'[c][w] # "none" => helper[c][w] # "none"
    BY NewHelper DEF AskNext, RouteNext
  <2>1. ASSUME pc'[c] = pc[c], seen'[c] = seen[c], turn'[c] = turn[c], asked'[c] = asked[c],
               outcome'[c] = outcome[c]
        PROVE  /\ \A w \in Reported(c)' : sent'[c][w] # 0
               /\ \A w \in Worker : helper'[c][w] # "none" =>
                    w \in Reported(c)' \cup {Target(c)'}
               /\ outcome'[c] = "refused" => \A w \in Worker : helper'[c][w] = "none"
               /\ outcome'[c] = "routed" => turn'[c] = RouteLength + 1
               /\ outcome'[c] # "none" => pc'[c] = "done"
               /\ asked'[c] # Nil => seen'[c] = Nil
    <3>1. Reported(c)' = Reported(c) /\ Target(c)' = Target(c)
      BY <2>1 DEF Reported, Target
    <3> QED
      BY <1>b, <2>1, <2>a, <2>b, <2>c, <2>d, <2>e, <3>1
  <2>2. CASE ReadConfig(c)
    BY <1>a, <2>2, DelegationAssumption DEF ReadConfig, ChainTypeOK
  <2>3. ASSUME NEW v \in Version, ReadSnapshot(c, v)
        PROVE  /\ \A w \in Reported(c)' : sent'[c][w] # 0
               /\ \A w \in Worker : helper'[c][w] = "none"
               /\ outcome'[c] # "routed"
               /\ outcome'[c] # "none" => pc'[c] = "done"
               /\ seen'[c] = Nil
    <3>1. /\ turn'[c] = turn[c] /\ UNCHANGED <<helper, sent, seen>> /\ pc[c] = "new"
          /\ \/ outcome'[c] = outcome[c]
             \/ outcome'[c] = "refused" /\ pc'[c] = "done"
      BY <1>a, <2>3 DEF ReadSnapshot, Reports, Reaches, ChainTypeOK
    <3>2. Reported(c)' = Reported(c)
      BY <3>1 DEF Reported
    <3> QED
      BY <1>2, <1>a, <2>a, <3>1, <3>2
  <2>4. CASE RouteDelivered(c)
    <3>1. /\ pc[c] = "routing" /\ call[c][Target(c)] = "awaiting" /\ turn'[c] = turn[c] + 1
          /\ UNCHANGED <<delegation, seen, asked>>
          /\ \/ turn[c] = RouteLength /\ outcome'[c] = "routed" /\ pc'[c] = "done"
             \/ outcome'[c] = outcome[c]
      BY <1>a, <2>4 DEF RouteDelivered, Reports, Reaches, ChainTypeOK
    <3>2. Reported(c)' = Reported(c) \cup {Target(c)}
      <4>1. turn[c] \in 1 .. Last
        BY <1>a, <3>1
      <4>2. turn'[c] - 1 = turn[c]
        BY <3>1, <4>1
      <4>3. \A i \in 1 .. turn[c] : i = turn[c] \/ i \in 1 .. turn[c] - 1
        BY <4>1
      <4>4. \A i \in 1 .. turn[c] - 1 : i \in 1 .. turn[c]
        BY <4>1
      <4>5. Reported(c)' = {Order[i] : i \in 1 .. turn[c]}
        BY <4>2 DEF Reported
      <4> QED
        <5>1. Reported(c) = {Order[i] : i \in 1 .. turn[c] - 1}
          BY DEF Reported
        <5>2. \A w : w \in Reported(c)' <=> w \in Reported(c) \/ w = Target(c)
          BY <4>1, <4>3, <4>4, <4>5, <5>1 DEF Target
        <5> HIDE DEF Reported
        <5> QED
          BY <5>2
    <3>3. Target(c) \in Worker
      BY <1>a, <3>1 DEF Target
    <3>4. outcome[c] = "none"
      BY <1>a, <2>a, <3>1
    <3>5. sent' = sent
      BY <3>1 DEF delegation
    <3> QED
      BY <1>2, <1>a, <1>b, <2>a, <2>b, <2>d, <3>1, <3>2, <3>3, <3>4, <3>5
  <2>5. CASE RouteFails(c) \/ Crash(c)
    <3>1. /\ turn'[c] = turn[c] /\ UNCHANGED <<helper, sent, seen, asked>> /\ pc'[c] = "done"
          /\ outcome'[c] \in {outcome[c], "failed"}
      BY <1>a, <2>5 DEF RouteFails, Crash, Reports, Reaches, ChainTypeOK, delegation
    <3>2. Reported(c)' = Reported(c) /\ Target(c)' = Target(c)
      BY <3>1 DEF Reported, Target
    <3> QED
      BY <1>b, <2>a, <3>1, <3>2
  <2>6. CASE LoadPackage(c) \/ ReadBefore(c) \/ Proceed(c) \/ Compare(c) \/ CreateResult(c)
    BY <1>2, <1>a, <2>6 DEF LoadPackage, ReadBefore, Proceed, Compare, CreateResult
  <2> QED
    BY <2>1, <2>2, <2>3, <2>4, <2>5, <2>6, ChainMoves
<1> QED
  BY <1>1, <1>2

\* A route has helpers only for the version of its port, and where a request
\* is said to be there is one of the chain.
RequestInv ==
  \A c \in Chain, w \in Worker :
    /\ asked[c] # Nil /\ helper[c][w] # "none" => asked[c] = port[c].version
    /\ sent[c][w] # 0 => sent[c][w] \in 1 .. Len(room[w]) /\ room[w][sent[c][w]].chain = c

\* Only the helper that posts a request records its place.
LEMMA SentMoves ==
  ASSUME Inv1, [Next]_vars, NEW c \in Chain, NEW w \in Worker, sent'[c][w] # sent[c][w]
  PROVE  Send(c, w)
<1>1. sent \in PerCall(Nat)
  BY DEF Inv1, ControlTypeOK, DelegationTypeOK
<1>2. ASSUME NEW d \in Chain, AskNext(d) \/ RouteNext(d) PROVE UNCHANGED sent
  BY <1>2 DEF AskNext, RouteNext, Dispatch
<1>3. ASSUME NEW d \in Chain, NEW v \in Worker,
             CallFails(d, v) \/ AwaitResponse(d, v) \/ Work(d, v) \/ Reply(d, v)
      PROVE  UNCHANGED sent
  BY <1>3 DEF CallFails, AwaitResponse, Work, Reply
<1>4. ASSUME NEW d \in Chain, ReadBefore(d) \/ Crash(d) \/ \E u \in Version : ReadSnapshot(d, u)
      PROVE  UNCHANGED sent
  BY <1>4 DEF ReadBefore, Crash, ReadSnapshot
<1>5. UNCHANGED delegation \/ BusinessCommand => UNCHANGED sent
  BY DEF delegation, BusinessCommand
<1>6. ~UNCHANGED sent
  OBVIOUS
<1>7. PICK d \in Chain, v \in Worker : Send(d, v)
  BY <1>2, <1>3, <1>4, <1>5, <1>6, DelegationCases
<1>8. d = c /\ v = w
  BY <1>1, <1>7 DEF Send, PerCall
<1> QED
  BY <1>7, <1>8

\* The port of a route refuses another version than its own, for each target,
\* and nothing changes the version asked for or the port afterwards.
LEMMA RequestStep == Inv1 /\ RequestInv /\ [Next]_vars => RequestInv'
<1> SUFFICES ASSUME Inv1, RequestInv, [Next]_vars, NEW c \in Chain, NEW w \in Worker
             PROVE  /\ (asked'[c] # Nil /\ helper'[c][w] # "none") => asked'[c] = port'[c].version
                    /\ sent'[c][w] # 0 =>
                         sent'[c][w] \in 1 .. Len(room'[w]) /\ room'[w][sent'[c][w]].chain = c
  BY DEF RequestInv
<1>1. Kept
  BY StepKeeps
<1>2. /\ pc[c] = "new" => helper[c][w] = "none"
      /\ pc[c] = "running" => asked[c] = Nil
      /\ helper[c][w] # "none" => port[c] # Nil
      /\ pc[c] = "routing" => port[c] # Nil
  BY DEF Inv1, PortInv, ChainPort
<1>3. ASSUME asked'[c] # Nil, helper'[c][w] # "none"
      PROVE  asked'[c] = port'[c].version
  <2>1. asked'[c] = asked[c]
    <3>1. ASSUME NEW v \in Version, ReadSnapshot(c, v) PROVE FALSE
      BY <1>2, <1>3, <3>1 DEF ReadSnapshot
    <3> QED
      BY <3>1, ChainMoves DEF ReadConfig, LoadPackage, ReadBefore, Proceed, Compare, CreateResult,
         Crash, RouteDelivered, RouteFails
  <2>2. CASE helper[c][w] # "none"
    <3>1. asked[c] = port[c].version
      BY <1>3, <2>1, <2>2 DEF RequestInv
    <3> QED
      BY <1>1, <1>2, <2>1, <2>2, <3>1 DEF Kept
  <2>3. CASE helper[c][w] = "none"
    <3>1. RouteNext(c)
      BY <1>2, <1>3, <2>1, <2>3, NewHelper DEF AskNext
    <3> QED
      BY <1>1, <1>2, <2>1, <3>1 DEF RouteNext, Kept
  <2> QED
    BY <2>2, <2>3
<1>4. ASSUME sent'[c][w] # 0
      PROVE  sent'[c][w] \in 1 .. Len(room'[w]) /\ room'[w][sent'[c][w]].chain = c
  <2>1. /\ Len(room[w]) \in Nat /\ Len(room'[w]) \in Nat
        /\ DelegationTypeOK /\ version \in Version /\ sent \in PerCall(Nat)
    <3>1. room \in [Worker -> Seq(Event)] /\ room' \in [Worker -> Seq(Event)]
      BY DelegationTypeStep DEF Inv1, ControlTypeOK, DelegationTypeOK
    <3>2. room[w] \in Seq(Event) /\ room'[w] \in Seq(Event)
      BY <3>1
    <3> QED
      BY <3>2 DEF Inv1, ControlTypeOK, DelegationTypeOK
  <2>2. CASE sent'[c][w] = sent[c][w]
    BY <1>1, <1>4, <2>1, <2>2 DEF RequestInv, Kept, RoomKept
  <2>3. CASE sent'[c][w] # sent[c][w]
    <3> DEFINE e == Posted(c, "request", TRUE, TRUE)
    <3>1. Send(c, w)
      BY <2>3, SentMoves
    <3>2. e \in Event /\ e.chain = c
      BY <2>1 DEF Posted, Event
    <3>3. room' = [room EXCEPT ![w] = Append(@, e)] /\ sent'[c][w] = Len(room[w]) + 1
      BY <2>1, <3>1 DEF Send, Post, Posted, PerCall
    <3> HIDE DEF e
    <3>4. Len(room'[w]) = Len(room[w]) + 1 /\ room'[w][Len(room[w]) + 1] = e
      BY <2>1, <3>2, <3>3, PostAppends
    <3> QED
      BY <2>1, <3>2, <3>3, <3>4
  <2> QED
    BY <2>2, <2>3
<1> QED
  BY <1>3, <1>4

----------------------------------------------------------------------------
(* The invariant, and the properties *)

IInv == /\ Inv1 /\ PlaceInv /\ FreshInv
        /\ RoomInv /\ AnswerInv /\ OrderInv /\ ResultInv /\ RouteInv /\ RequestInv

\* The initial state satisfies the invariant.
LEMMA InvInit == Init => IInv
<1> SUFFICES ASSUME Init PROVE IInv
  OBVIOUS
<1> USE DEF Init, DelegationInit, ProviderInit, ChainInit
<1>1. Inv1
  BY TypeInit
<1>2. PlaceInv /\ FreshInv
  BY DEF PlaceInv, Owns, Holds, FreshInv, Confirmed
<1>3. RoomInv /\ AnswerInv /\ ResultInv
  BY DEF RoomInv, AnswerInv, ResultInv
<1>4. OrderInv
  BY DEF OrderInv
<1>5. RouteInv
  BY DEF RouteInv, Reported
<1>6. RequestInv
  BY DEF RequestInv
<1> QED
  BY <1>1, <1>2, <1>3, <1>4, <1>5, <1>6 DEF IInv

\* The invariant holds in every reachable state.
THEOREM ControlInvariant == Spec => []IInv
<1>1. IInv /\ [Next]_vars => IInv'
  BY Inv1Step, PlaceStep, FreshStep, RoomStep, AnswerStep, OrderStep, ResultStep, RouteStepKeeps,
     RequestStep DEF IInv
<1> QED
  BY InvInit, <1>1, PTL DEF Spec

\* Every state is well typed.
THEOREM ControlTypeCorrect == Spec => []ControlTypeOK
<1>1. IInv => ControlTypeOK
  BY DEF IInv, Inv1
<1> QED
  BY ControlInvariant, <1>1, PTL

\* A published configuration has its own packages around it, whatever other
\* invocations publish, take back or leave behind.
THEOREM ControlBundleIsOne == Spec => []BundleIsOne
<1>1. IInv => BundleIsOne
  BY DEF IInv, PlaceInv, BundleIsOne
<1> QED
  BY ControlInvariant, <1>1, PTL

\* No configuration is published for a row that was spent.
THEOREM ControlNoSpentBundle == Spec => NoSpentBundle
<1>1. IInv /\ [Next]_vars =>
        [(config = Nil /\ config' # Nil) => Rows(config') \subseteq reserved \ settled]_vars
  <2> SUFFICES ASSUME IInv, [Next]_vars, config = Nil, config' # Nil
               PROVE  Rows(config') \subseteq reserved \ settled
    OBVIOUS
  <2>1. PICK p \in Provisioner : PublishConfig(p)
    BY ProviderCases DEF provider, files, Provision, LoadConfig, AssertAbsent, CommitSnapshot,
       ReserveNext, ConfirmNext, ReadVersion, PublishPackage, PublishFails, CleanNext, Stops,
       SettleRow, TakeAway
  <2>2. step[p] = "publishing" /\ config'.run = WindowOf[p]
    BY <2>1 DEF PublishConfig, BundleOf
  <2>3. \A i \in 1 .. Last : <<WindowOf[p], Order[i]>> \in reserved \ settled
    BY <2>2 DEF IInv, FreshInv, Confirmed
  <2> QED
    BY <2>2, <2>3, ProviderAssumption DEF Rows
<1> QED
  BY ControlInvariant, <1>1, PTL DEF Spec, NoSpentBundle

\* The Workers are asked in order, each when the ones before have answered.
THEOREM ControlAskedInOrder == Spec => []AskedInOrder
<1>1. IInv => AskedInOrder
  <2> SUFFICES ASSUME IInv, NEW c \in Chain, seen[c] # Nil, NEW i \in 1 .. Last,
                      NEW j \in 1 .. Last, i < j, sent[c][Order[j]] # 0
               PROVE  call[c][Order[i]] = "answered"
    BY DEF AskedInOrder, Real
  <2>1. helper[c][Order[j]] # "none"
    BY OrderFacts DEF IInv, Inv1, PortInv, ChainPort
  <2> QED
    BY <2>1 DEF IInv, OrderInv
<1> QED
  BY ControlInvariant, <1>1, PTL

\* A result rests on one bundle, one version of the Program and paid answers.
THEOREM ControlResultIsCurrent == Spec => []ResultIsCurrent
<1>1. IInv => ResultIsCurrent
  <2> SUFFICES ASSUME IInv, result # Nil, NEW w \in Worker
               PROVE  /\ Answer(result, w).at = seen[result].version
                      /\ w \in RunBound => <<seen[result].run, w>> \in called
    BY DEF ResultIsCurrent
  <2>1. result \in Chain /\ Current(result)
    BY DEF IInv, Inv1, ControlTypeOK, ChainTypeOK, ResultInv
  <2>2. Accepted(result, w) /\ port[result] = seen[result]
    <3>1. call[result][w] = "answered"
      BY <2>1 DEF Current
    <3>2. sent[result][w] # 0
      BY <2>1, <3>1 DEF IInv, Inv1, PortInv, ChainPort
    <3>3. port[result] # Nil
      BY <2>1, <3>2 DEF IInv, Inv1, PortInv, ChainPort
    <3> QED
      BY <2>1, <3>1, <3>3 DEF IInv, AnswerInv, Inv1, PortInv, ChainPort, Current
  <2>3. w \in RunBound => port[Answer(result, w).chain].run = seen[result].run
    BY <2>2 DEF Accepted, SameBinding
  <2>4. <<port[Answer(result, w).chain].run, w>> \in called
    BY <2>2 DEF IInv, RoomInv, Accepted, Answer
  <2> QED
    BY <2>1, <2>3, <2>4 DEF Current
<1> QED
  BY ControlInvariant, <1>1, PTL

\* A route reports its deliveries, all but at most the one that failed.
THEOREM ControlRouteReports == Spec => []RouteReportsDeliveries
<1>1. IInv => RouteReportsDeliveries
  <2> SUFFICES ASSUME IInv, NEW c \in Chain, asked[c] # Nil
               PROVE  /\ \A w \in Reported(c) : sent[c][w] # 0
                      /\ outcome[c] = "refused" => \A w \in Worker : sent[c][w] = 0
                      /\ outcome[c] = "failed" =>
                           \A w \in Worker : sent[c][w] # 0 => w \in Reported(c) \cup {Target(c)}
                      /\ outcome[c] = "routed" => Reported(c) = {Order[i] : i \in 1 .. RouteLength}
    BY DEF RouteReportsDeliveries, Route
  <2>1. /\ \A w \in Reported(c) : sent[c][w] # 0
        /\ \A w \in Worker : helper[c][w] # "none" => w \in Reported(c) \cup {Target(c)}
        /\ outcome[c] = "refused" => \A w \in Worker : helper[c][w] = "none"
        /\ outcome[c] = "routed" => turn[c] = RouteLength + 1
    BY DEF IInv, RouteInv
  <2>2. \A w \in Worker : sent[c][w] # 0 => helper[c][w] # "none"
    BY DEF IInv, Inv1, PortInv, ChainPort
  <2>3. outcome[c] = "routed" => turn[c] - 1 = RouteLength
    BY <2>1, OrderFacts
  <2> QED
    BY <2>1, <2>2, <2>3 DEF Reported
<1> QED
  BY ControlInvariant, <1>1, PTL

\* Every request of a route names the version of its packages, which the
\* Program had reached by then.
THEOREM ControlRequestsNameBundle == Spec => []RequestsNameTheirBundle
<1>1. IInv => RequestsNameTheirBundle
  <2> SUFFICES ASSUME IInv, NEW c \in Chain, asked[c] # Nil, NEW w \in Worker, sent[c][w] # 0
               PROVE  /\ asked[c] = port[c].version
                      /\ asked[c] <= room[w][sent[c][w]].at
    BY DEF RequestsNameTheirBundle, Route
  <2>1. helper[c][w] # "none"
    BY DEF IInv, Inv1, PortInv, ChainPort
  <2>2. asked[c] = port[c].version
    BY <2>1 DEF IInv, RequestInv
  <2>3. sent[c][w] \in 1 .. Len(room[w]) /\ room[w][sent[c][w]].chain = c
    BY DEF IInv, RequestInv
  <2>4. port[c].version <= room[w][sent[c][w]].at
    BY <2>3 DEF IInv, RoomInv
  <2> QED
    BY <2>2, <2>4
<1> QED
  BY ControlInvariant, <1>1, PTL

=============================================================================
