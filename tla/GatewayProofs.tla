--------------------------- MODULE GatewayProofs ---------------------------
(***************************************************************************)
(* Proof that a gateway is set up for its clients, composed from the       *)
(* proofs of its two parts: the invariants of GatewayStartProofs hold of   *)
(* the start, and those of PodWatcherProofs of the watcher, of which every *)
(* step of the gateway is a step, a stutter, or a kill before it runs.     *)
(***************************************************************************)
EXTENDS Gateway, GatewayStartProofs

PWP == INSTANCE PodWatcherProofs

\* What the watcher's proofs assume of the constants.
LEMMA WatcherAssumptions ==
    /\ PWP!PodsAssumption /\ PWP!AddressAssumption
    /\ PWP!SpecAssumption /\ PWP!FaultAssumption
  BY WatcherAssumption, CrashAssumption
     DEF PWP!PodsAssumption, PWP!AddressAssumption, PWP!SpecAssumption,
         PWP!FaultAssumption, PWP!Calls, Supported

\* The pods of the cluster change as in the watcher's module.
LEMMA PodEvents ==
    ASSUME NEW k \in Pods,
           \/ PW!CreatePod(k) \/ PW!AssignIPs(k) \/ PW!Annotate(k)
           \/ PW!Terminate(k) \/ PW!DeletePod(k)
    PROVE  PWP!Next
  <1>1. PW!CreatePod(k) <=> PWP!CreatePod(k)
    BY DEF PW!CreatePod, PWP!CreatePod, PW!NameIsFree, PWP!NameIsFree, PW!Enqueue,
           PWP!Enqueue, PW!Unwatched, PWP!Unwatched, PW!memory, PWP!memory, PW!kernel,
           PWP!kernel, PW!budget, PWP!budget
  <1> USE DEF PW!Enqueue, PWP!Enqueue, PW!Unwatched, PWP!Unwatched, PW!memory, PWP!memory,
              PW!kernel, PWP!kernel, PW!budget, PWP!budget
  <1>2. PW!AssignIPs(k) => PWP!AssignIPs(k)
    BY DEF PW!AssignIPs, PWP!AssignIPs, PW!Cardinality, PWP!Cardinality
  <1>3. PW!Terminate(k) => PWP!Terminate(k)
    BY DEF PW!Terminate, PWP!Terminate
  <1>4. PW!DeletePod(k) => PWP!DeletePod(k)
    BY DEF PW!DeletePod, PWP!DeletePod, PW!AbsentPod, PWP!AbsentPod
  <1>5. PW!Annotate(k) => PWP!Annotate(k)
    BY DEF PW!Annotate, PWP!Annotate
  <1> QED
    BY <1>1, <1>2, <1>3, <1>4, <1>5 DEF PWP!Cluster, PWP!Next

\* The worker, its process and its failures act as in the watcher's module.
LEMMA WatcherActions ==
    ASSUME \/ \E k \in Pods : PW!Reconcile(k) \/ PW!GetFails(k)
           \/ PW!Step
           \/ \E ip \in IPs : \/ PW!AddPeerFails(ip) \/ PW!AddClientFails(ip)
                             \/ PW!DropOldFails(ip) \/ PW!ReleaseOldFails(ip)
           \/ PW!Start
           \/ PW!Crash
    PROVE  PWP!Next
  <1> USE DEF PW!memory, PWP!memory, PW!kernel, PWP!kernel, PW!budget, PWP!budget,
              PW!Idle, PWP!Idle, PW!Return, PWP!Return, PW!Continue, PWP!Continue
  <1>1. ASSUME NEW k \in Pods, PW!Reconcile(k)
        PROVE  PWP!Reconcile(k)
    BY <1>1 DEF PW!Reconcile, PWP!Reconcile, PW!Dequeue, PWP!Dequeue, PW!JobFor,
                PWP!JobFor, PW!delPeer, PWP!delPeer, PW!addPod, PWP!addPod, PW!Client,
                PWP!Client, PW!shouldHandle, PWP!shouldHandle, PW!isTerminated,
                PWP!isTerminated
  <1>2. CASE PW!Step
    <2> USE DEF PW!Connected, PWP!Connected, PW!DelPeer, PWP!DelPeer
    <2>1. ASSUME NEW ip \in IPs,
                 \/ PW!AddPeer(ip) \/ PW!AddClient(ip) \/ PW!DropOld(ip)
                 \/ PW!ReleaseOld(ip) \/ PW!ReleaseOldUnknown(ip)
          PROVE  PWP!Step
      <3>1. PW!AddPeer(ip) => PWP!AddPeer(ip)
        BY DEF PW!AddPeer, PWP!AddPeer
      <3>2. PW!AddClient(ip) => PWP!AddClient(ip)
        BY DEF PW!AddClient, PWP!AddClient
      <3>3. PW!DropOld(ip) => PWP!DropOld(ip)
        BY DEF PW!DropOld, PWP!DropOld
      <3>4. PW!ReleaseOld(ip) => PWP!ReleaseOld(ip)
        BY DEF PW!ReleaseOld, PWP!ReleaseOld, PW!existsOtherLivePeers,
               PWP!existsOtherLivePeers, PW!Unregister, PWP!Unregister
      <3>5. PW!ReleaseOldUnknown(ip) => PWP!ReleaseOldUnknown(ip)
        BY DEF PW!ReleaseOldUnknown, PWP!ReleaseOldUnknown
      <3> QED
        BY <2>1, <3>1, <3>2, <3>3, <3>4, <3>5 DEF PWP!Step
    <2>2. PW!FinishAdd => PWP!FinishAdd
      BY DEF PW!FinishAdd, PWP!FinishAdd, PW!Register, PWP!Register
    <2>3. PW!FinishDel => PWP!FinishDel
      BY DEF PW!FinishDel, PWP!FinishDel
    <2>4. PWP!FinishAdd \/ PWP!FinishDel => PWP!Step
      BY DEF PWP!Step
    <2> QED
      BY <1>2, <2>1, <2>2, <2>3, <2>4 DEF PW!Step, PWP!Next
  <1>3. ASSUME NEW ip \in IPs,
               \/ PW!AddPeerFails(ip) \/ PW!AddClientFails(ip)
               \/ PW!DropOldFails(ip) \/ PW!ReleaseOldFails(ip)
        PROVE  PWP!Failure
    <2> USE DEF PW!Fault, PWP!Fault
    <2>1. PW!AddPeerFails(ip) => PWP!AddPeerFails(ip)
      BY DEF PW!AddPeerFails, PWP!AddPeerFails
    <2>2. PW!AddClientFails(ip) => PWP!AddClientFails(ip)
      BY DEF PW!AddClientFails, PWP!AddClientFails
    <2>3. PW!DropOldFails(ip) => PWP!DropOldFails(ip)
      BY DEF PW!DropOldFails, PWP!DropOldFails, PW!Connected, PWP!Connected
    <2>4. PW!ReleaseOldFails(ip) => PWP!ReleaseOldFails(ip)
      BY DEF PW!ReleaseOldFails, PWP!ReleaseOldFails
    <2> QED
      BY <1>3, <2>1, <2>2, <2>3, <2>4 DEF PWP!Failure
  <1>4. CASE PW!Start
    BY <1>4 DEF PW!Start, PWP!Start, PWP!Next
  <1>5. CASE PW!Crash
    BY <1>5 DEF PW!Crash, PWP!Crash, PWP!Failure, PWP!Next
  <1>6. ASSUME NEW k \in Pods, PW!GetFails(k)
        PROVE  PWP!GetFails(k)
    BY <1>6 DEF PW!GetFails, PWP!GetFails, PW!Dequeue, PWP!Dequeue, PW!Fault, PWP!Fault
  <1> QED
    BY <1>1, <1>2, <1>3, <1>4, <1>5, <1>6 DEF PWP!Failure, PWP!Next

-----------------------------------------------------------------------------
(***************************************************************************)
(* The parts' steps.                                                       *)
(***************************************************************************)

\* A step of the gateway is a step of its start.
LEMMA StartsStep ==
    ASSUME [GatewayNext]_gvars
    PROVE  [Next]_vars
  BY DEF GatewayNext, gvars, StartStep, Exit, Wait, Pod, Reconcile, WatcherStep, CallFails,
         Next

\* The gateway implements the specification of its start, whatever the watcher
\* does: all that is shown of GatewayStart is true of the gateway.
THEOREM StartsAsSpecified == GatewaySpec => Spec
  <1>1. GatewayInit => Init
    BY DEF GatewayInit
  <1>2. [GatewayNext]_gvars => [Next]_vars
    BY StartsStep
  <1> QED
    BY <1>1, <1>2, PTL DEF GatewaySpec, Spec

\* A kill before the watcher runs: it only counts.
KilledEarly ==
    /\ UNCHANGED watcher
    /\ ~ up /\ ~ up'
    /\ crashes' \in 0..MaxCrashes

\* A step of the gateway is a step of the watcher, unless the process is killed
\* before the watcher runs.
LEMMA WatchersStep ==
    ASSUME StartInv, [GatewayNext]_gvars
    PROVE  [PWP!Next]_(PWP!vars) \/ KilledEarly
  <1>0. stage \in Stages /\ crashes \in 0..MaxCrashes
    BY DEF StartInv, TypeOK
  <1>1. CASE StartStep
    <2>1. stage # "serving" /\ UNCHANGED crashes
      BY <1>1 DEF StartStep, Step, Start, FouInit, FouAdd, Sysctl, Insert, FouDummy,
                  EgressInit, Append, RuleAdd, EgressDummy, Goto
    <2>2. CASE stage' = "serving"
      BY <1>1, <2>2, WatcherActions DEF StartStep
    <2>3. CASE stage' # "serving"
      BY <1>0, <1>1, <2>1, <2>3 DEF StartStep, KilledEarly, up
    <2> QED
      BY <2>2, <2>3
  <1>2. CASE Exit
    <2>1. CASE up
      BY <1>2, <2>1, WatcherActions DEF Exit
    <2>2. CASE ~ up
      BY <1>0, <1>2, <2>2, CrashAssumption DEF Exit, Crash, KilledEarly, up
    <2> QED
      BY <2>1, <2>2
  <1>3. CASE Wait \/ UNCHANGED gvars
    <2>1. UNCHANGED <<vars, watcher>>
      BY <1>3 DEF Wait, Serve, gvars
    <2> QED
      BY <2>1 DEF vars, watcher, up, PWP!vars, PWP!memory, PWP!kernel, PWP!budget
  <1>4. ASSUME NEW k \in Pods, Pod(k) \/ Reconcile(k)
        PROVE  PWP!Next
    BY <1>4, PodEvents, WatcherActions DEF Pod, Reconcile
  <1>5. CASE WatcherStep \/ CallFails
    BY <1>5, WatcherActions DEF WatcherStep, CallFails
  <1> QED
    BY <1>1, <1>2, <1>3, <1>4, <1>5 DEF GatewayNext

\* What holds of the watcher while it runs or is down.
WatcherInv == PWP!StableInv /\ PWP!NoEventLost

\* The invariant of the watcher survives every step of the gateway.
LEMMA WatcherInductive ==
    ASSUME StableAddresses, "Get" \notin Faulty, StartInv, WatcherInv,
           [GatewayNext]_gvars
    PROVE  WatcherInv'
  <1>1. CASE [PWP!Next]_(PWP!vars)
    <2>1. PWP!TypeOK /\ PWP!JobConsistent /\ PWP!NoEventLost /\ PWP!StableInv
      BY DEF WatcherInv, PWP!StableInv
    <2> USE WatcherAssumptions DEF PWP!PodsAssumption, PWP!AddressAssumption,
            PWP!SpecAssumption, PWP!FaultAssumption
    <2>2. PWP!TypeOK'
      BY <1>1, <2>1, PWP!TypeInductive
    <2>3. PWP!JobConsistent'
      BY <1>1, <2>1, PWP!JobConsistentInductive
    <2>4. PWP!StableRecord' /\ PWP!RunningConnected'
      BY <1>1, <2>1, PWP!StableInductive
    <2>5. PWP!NoEventLost'
      BY <1>1, <2>1, PWP!NoEventLostInductive
    <2> QED
      BY <2>2, <2>3, <2>4, <2>5 DEF WatcherInv, PWP!StableInv
  <1>2. CASE KilledEarly
    <2>1. /\ pods' = pods /\ queue' = queue /\ job' = job /\ podAddrs' = podAddrs
          /\ tracked' = tracked /\ peers' = peers /\ links' = links /\ routes' = routes
          /\ faults' = faults /\ up' = FALSE /\ up = FALSE
          /\ crashes' \in 0..MaxCrashes
      BY <1>2 DEF KilledEarly, watcher, up
    <2>2. PWP!TypeOK'
      BY <2>1 DEF WatcherInv, PWP!StableInv, PWP!TypeOK
    <2>3. PWP!JobConsistent'
      BY <2>1 DEF WatcherInv, PWP!StableInv, PWP!JobConsistent
    <2>4. PWP!StableRecord' /\ PWP!RunningConnected'
      BY <2>1 DEF WatcherInv, PWP!StableInv, PWP!StableRecord, PWP!RunningConnected
    <2>5. PWP!NoEventLost'
      BY <2>1 DEF PWP!NoEventLost
    <2> QED
      BY <2>2, <2>3, <2>4, <2>5 DEF WatcherInv, PWP!StableInv
  <1> QED
    BY <1>1, <1>2, WatchersStep

\* With stable addresses and a Get that does not fail, the gateway is set up for
\* each address of its families of a client without a pending event, whichever
\* AddPeer, AddClient or DelPeer failed and at whichever stage earlier processes
\* were killed.
THEOREM GatewayConnects ==
    ASSUME StableAddresses, "Get" \notin Faulty
    PROVE  GatewaySpec => []ClientSetUp
  <1>1. GatewayInit => StartInv
    BY InitStart DEF GatewayInit
  <1>2. GatewayInit => WatcherInv
    <2> SUFFICES ASSUME GatewayInit PROVE WatcherInv
      OBVIOUS
    <2>0. ~ up
      BY DEF GatewayInit, Init, up
    <2>1. PWP!TypeOK
      <3>1. PW!AbsentPod \in PWP!Pod
        BY WatcherAssumption DEF PW!AbsentPod, PWP!Pod
      <3> QED
        BY <2>0, <3>1, WatcherAssumption, CrashAssumption
           DEF GatewayInit, Init, PWP!TypeOK, PW!Idle, PWP!Job, up
    <2>2. PWP!JobConsistent
      BY <2>0 DEF GatewayInit, PWP!JobConsistent, PW!Idle, PWP!Idle
    <2>3. PWP!StableRecord /\ PWP!RunningConnected
      BY DEF GatewayInit, PWP!StableRecord, PWP!RunningConnected, PW!Idle
    <2>4. PWP!NoEventLost
      BY <2>0 DEF PWP!NoEventLost
    <2> QED
      BY <2>1, <2>2, <2>3, <2>4 DEF WatcherInv, PWP!StableInv
  <1>3. StartInv /\ WatcherInv /\ [GatewayNext]_gvars => StartInv' /\ WatcherInv'
    BY StartsStep, StartInductive, WatcherInductive
  <1>4. StartInv /\ WatcherInv => ClientSetUp
    <2> SUFFICES ASSUME StartInv, WatcherInv, NEW k \in Pods,
                        up, PW!Client(k), k \notin queue, job.key # k,
                        NEW ip \in pods[k].ips \cap Supported
                 PROVE  SetUp(ip)
      BY DEF ClientSetUp, SetUpAll
    <2>1. FouDone(Family[ip]) /\ EgressDone(Family[ip])
      BY DEF StartInv, Supported, up
    <2>2. PWP!Client(k) /\ pods[k].phase = "Running"
      BY DEF PW!Client, PWP!Client, PW!shouldHandle, PWP!shouldHandle
    <2>3. podAddrs[k] = pods[k].ips
      BY <2>2 DEF WatcherInv, PWP!NoEventLost
    <2>4. ip \in links /\ ip \in routes
      BY <2>2, <2>3 DEF WatcherInv, PWP!StableInv, PWP!RunningConnected
    <2> QED
      BY <2>1, <2>4 DEF SetUp
  <1> QED
    BY <1>1, <1>2, <1>3, <1>4, PTL DEF GatewaySpec
=============================================================================
