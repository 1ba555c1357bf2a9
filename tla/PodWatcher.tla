----------------------------- MODULE PodWatcher -----------------------------
(***************************************************************************)
(* The pod watcher of an egress gateway: controllers/pod_watcher.go.       *)
(*                                                                         *)
(* Every replica of an egress gateway watches all pods.  For each pod that *)
(* selected this gateway it opens a Foo-over-UDP tunnel (AddPeer) and a    *)
(* route back to the pod (AddClient); it closes the tunnel (DelPeer) when  *)
(* the pod terminates or goes away, unless another pod still uses the same *)
(* address.  What is open is remembered in two maps only:                  *)
(*                                                                         *)
(*   podAddrs   pod key -> the addresses of the pod when it was last added *)
(*   peers      address -> the keys of the pods added with that address    *)
(*                                                                         *)
(* A reconciliation runs to its end under one mutex with one worker, but   *)
(* it makes a call into the kernel per address: any call may fail, which   *)
(* returns an error and requeues the key with the work half done, and the  *)
(* process may be killed between two calls, which loses both maps but not  *)
(* the kernel's links and routes.  Each call is therefore a step.          *)
(*                                                                         *)
(* Lists of addresses are sets: the order in which a pod lists its         *)
(* addresses is arbitrary, so the loops visit them in any order.  A key    *)
(* that is missing from podAddrs maps to {}, as the nil slice that Go      *)
(* returns; "tracked" keeps which keys are present, the number of which is *)
(* what both handlers store in the gauge "metric".                         *)
(***************************************************************************)
EXTENDS Naturals, FiniteSets

CONSTANTS
    Pods,             \* pod keys, namespace/name
    NoPod,            \* the key of no pod
    IPs,              \* pod addresses
    MaxAddrs,         \* how many addresses a pod may have: one per family
    Supported,        \* the addresses of the IP families this gateway has
    MyNS, MyName,     \* namespace and name of this gateway
    PodSpecs,         \* the pod specs and annotations that occur
    StableAddresses,  \* TRUE: the addresses recorded for a key never change
    Faulty,           \* the calls that may fail
    MaxFaults,        \* how many of them fail in a behaviour
    MaxCrashes        \* how often the process is killed in a behaviour

Calls == {"Get", "AddPeer", "AddClient", "DelPeer"}

ASSUME PodsAssumption == NoPod \notin Pods

ASSUME AddressAssumption == Supported \subseteq IPs /\ MaxAddrs \in Nat

ASSUME SpecAssumption ==
    /\ PodSpecs # {}
    /\ \A s \in PodSpecs : s.hostNetwork \in BOOLEAN

ASSUME FaultAssumption ==
    /\ StableAddresses \in BOOLEAN
    /\ Faulty \subseteq Calls
    /\ MaxFaults \in Nat
    /\ MaxCrashes \in Nat

VARIABLES
    pods,      \* the pods as the informer's cache shows them
    up,        \* the watcher's process runs
    queue,     \* the keys in the controller's work queue
    job,       \* the reconciliation in progress
    podAddrs, tracked, peers,      \* the watcher's memory
    links,     \* kernel: addresses with a FoU link
    routes,    \* kernel: addresses with a route in the egress table
    faults, crashes                \* failures so far

memory == <<podAddrs, tracked, peers>>
kernel == <<links, routes>>
budget == <<faults, crashes>>
vars   == <<pods, up, queue, job, memory, kernel, budget>>

-----------------------------------------------------------------------------
(***************************************************************************)
(* Pods.  Phase "Succeeded" stands for Failed as well, "Running" for every *)
(* phase before them.                                                      *)
(***************************************************************************)

Pod == [phase : {"Absent", "Running", "Succeeded"},
        spec  : PodSpecs,
        ips   : SUBSET IPs]

AbsentPod == [phase |-> "Absent", spec |-> CHOOSE s \in PodSpecs : TRUE, ips |-> {}]

\* The annotations with the egress prefix, as a function from the namespace
\* in their key to the set of names in their comma-separated value.
shouldHandle(pod) ==
    /\ ~ pod.spec.hostNetwork
    /\ MyNS \in DOMAIN pod.spec.annotations
    /\ MyName \in pod.spec.annotations[MyNS]

isTerminated(pod) == pod.phase = "Succeeded"

\* k is a running pod that selected this gateway.
Client(k) == pods[k].phase = "Running" /\ shouldHandle(pods[k])

-----------------------------------------------------------------------------
(***************************************************************************)
(* Reconciliations.  An "add" job is addPod: "new" are the addresses still *)
(* to be connected, "link" the address whose AddPeer has returned a link   *)
(* that AddClient has not used yet, "old" the addresses the pod no longer  *)
(* has.  A "del" job is delPeer: "old" are the addresses still to be       *)
(* released.                                                               *)
(***************************************************************************)

Job == [op : {"idle", "add", "del"}, key : Pods \cup {NoPod}, podIPs : SUBSET IPs,
        new : SUBSET IPs, link : SUBSET IPs, old : SUBSET IPs]

Idle == [op |-> "idle", key |-> NoPod, podIPs |-> {},
         new |-> {}, link |-> {}, old |-> {}]

addPod(k) ==
    [op |-> "add", key |-> k, podIPs |-> pods[k].ips,
     new |-> pods[k].ips \ podAddrs[k], link |-> {},
     old |-> podAddrs[k] \ pods[k].ips]

delPeer(k) ==
    [op |-> "del", key |-> k, podIPs |-> {},
     new |-> {}, link |-> {}, old |-> podAddrs[k]]

\* Mutant: the peer is shared only when three pods use it.
existsOtherLivePeersOfThree(k, ip) == Cardinality(peers[ip]) > 2

\* Mutant: the pod counts itself as another one.
existsOtherLivePeersOrSelf(k, ip) == Cardinality(peers[ip]) > 0

\* The function's Boolean result; its two errors are the absence of k here.
existsOtherLivePeers(k, ip) == peers[ip] # {k}

Init ==
    /\ pods = [k \in Pods |-> AbsentPod]
    /\ up = TRUE
    /\ queue = {}
    /\ job = Idle
    /\ podAddrs = [k \in Pods |-> {}]
    /\ tracked = {}
    /\ peers = [ip \in IPs |-> {}]
    /\ links = {}
    /\ routes = {}
    /\ faults = 0
    /\ crashes = 0

-----------------------------------------------------------------------------
(***************************************************************************)
(* The cluster.  An event on a pod puts its key in the queue of a running  *)
(* watcher; the queue holds a key once.  Two pods may show the same        *)
(* address: one of a finished pod is given to the next pod, and the two    *)
(* pods' updates reach the cache in any order.                             *)
(***************************************************************************)

Enqueue(k) == queue' = IF up THEN queue \cup {k} ELSE queue

Unwatched == UNCHANGED <<up, job, memory, kernel, budget>>

\* With stable addresses a name is only used again once the watcher has
\* forgotten the pod that had it.  Otherwise the queue may merge the deletion
\* and the creation of a pod into one reconciliation (a StatefulSet's pod).
NameIsFree(k) ==
    /\ pods[k].phase = "Absent"
    /\ StableAddresses => k \notin tracked /\ job.key # k

CreatePod(k) ==
    /\ NameIsFree(k)
    /\ \E s \in PodSpecs :
          pods' = [pods EXCEPT ![k] = [phase |-> "Running", spec |-> s, ips |-> {}]]
    /\ Enqueue(k)
    /\ Unwatched

AssignIPs(k) ==
    /\ pods[k].phase = "Running"
    /\ StableAddresses => pods[k].ips = {}
    /\ \E new \in (SUBSET IPs) \ {{}, pods[k].ips} :
          /\ Cardinality(new) <= MaxAddrs
          /\ pods' = [pods EXCEPT ![k].ips = new]
    /\ Enqueue(k)
    /\ Unwatched

Annotate(k) ==
    /\ pods[k].phase # "Absent"
    /\ \E s \in PodSpecs \ {pods[k].spec} :
          /\ s.hostNetwork = pods[k].spec.hostNetwork
          /\ pods' = [pods EXCEPT ![k].spec = s]
    /\ Enqueue(k)
    /\ Unwatched

Terminate(k) ==
    /\ pods[k].phase = "Running"
    /\ pods' = [pods EXCEPT ![k].phase = "Succeeded"]
    /\ Enqueue(k)
    /\ Unwatched

DeletePod(k) ==
    /\ pods[k].phase # "Absent"
    /\ pods' = [pods EXCEPT ![k] = AbsentPod]
    /\ Enqueue(k)
    /\ Unwatched

Cluster == \E k \in Pods :
    CreatePod(k) \/ AssignIPs(k) \/ Annotate(k) \/ Terminate(k) \/ DeletePod(k)

-----------------------------------------------------------------------------
(***************************************************************************)
(* The watcher.                                                            *)
(***************************************************************************)

\* A worker takes k from the queue.
Dequeue(k) ==
    /\ up
    /\ job = Idle
    /\ k \in queue
    /\ queue' = queue \ {k}

\* Mutant: a terminated pod is left to the deletion of the pod.
JobForIgnoresTermination(k) ==
    CASE pods[k].phase = "Absent"  -> delPeer(k)
      [] Client(k)                 -> addPod(k)
      [] OTHER                     -> Idle

\* What Reconcile decides from the pod it got, or from NotFound.
JobFor(k) ==
    CASE pods[k].phase = "Absent"   -> delPeer(k)
      [] Client(k)                  -> addPod(k)
      [] ~ shouldHandle(pods[k]) /\ pods[k].phase # "Absent" -> Idle
      [] shouldHandle(pods[k]) /\ isTerminated(pods[k])      -> delPeer(k)

Reconcile(k) ==
    /\ Dequeue(k)
    /\ job' = JobFor(k)
    /\ UNCHANGED <<pods, up, memory, kernel, budget>>

\* The call may fail now.
Fault(call) ==
    /\ call \in Faulty
    /\ faults < MaxFaults
    /\ faults' = faults + 1
    /\ UNCHANGED crashes

\* Get fails with an error other than NotFound: it is logged and Reconcile
\* returns no error, so the event is spent.
GetFails(k) ==
    /\ Dequeue(k)
    /\ Fault("Get")
    /\ UNCHANGED <<pods, up, job, memory, kernel>>

\* Mutant: the error is logged and not returned.
ReturnNoError(err) == job' = Idle /\ UNCHANGED queue

\* Mutant: the key is read after the job has been cleared.
ReturnClearedKey(err) ==
    /\ job' = Idle
    /\ queue' = IF err THEN queue \cup {job'.key} ELSE queue

\* The handler returns: on an error, the controller requeues the key.
Return(err) ==
    /\ job' = Idle
    /\ queue' = IF err THEN queue \cup {job.key} ELSE queue

Continue(next) == job' = next /\ UNCHANGED queue

-----------------------------------------------------------------------------
\* addPod, the loop OUTER.

\* AddPeer finds or creates the link of a supported address and refuses any
\* other (ErrIPFamilyMismatch), which the loop skips.
AddPeer(ip) ==
    /\ job.op = "add"
    /\ job.link = {}
    /\ ip \in job.new
    /\ \/ /\ ip \in Supported
          /\ links' = links \cup {ip}
          /\ Continue([job EXCEPT !.new = @ \ {ip}, !.link = {ip}])
       \/ /\ ip \notin Supported
          /\ Continue([job EXCEPT !.new = @ \ {ip}])
          /\ UNCHANGED links
    /\ UNCHANGED <<pods, up, memory, routes, budget>>

\* A failing AddPeer may have created the link: it sets up the IPIP devices
\* after it.
AddPeerFails(ip) ==
    /\ job.op = "add"
    /\ job.link = {}
    /\ ip \in job.new \cap Supported
    /\ Fault("AddPeer")
    /\ links' \in {links, links \cup {ip}}
    /\ Return(TRUE)
    /\ UNCHANGED <<pods, up, memory, routes>>

\* Mutant: AddClient does not look for a route that exists: EEXIST.
AddClientExists(ip) ==
    /\ job.op = "add"
    /\ ip \in job.link
    /\ routes' = routes \cup {ip}
    /\ IF ip \in routes THEN Return(TRUE) ELSE Continue([job EXCEPT !.link = {}])
    /\ UNCHANGED <<pods, up, memory, links, budget>>

AddClient(ip) ==
    /\ job.op = "add"
    /\ ip \in job.link
    /\ routes' = routes \cup {ip}
    /\ Continue([job EXCEPT !.link = {}])
    /\ UNCHANGED <<pods, up, memory, links, budget>>

AddClientFails(ip) ==
    /\ job.op = "add"
    /\ ip \in job.link
    /\ Fault("AddClient")
    /\ Return(TRUE)
    /\ UNCHANGED <<pods, up, memory, kernel>>

-----------------------------------------------------------------------------
\* addPod, the loop OUTER2 and what follows it.

\* The kernel drops the routes through a link together with the link.
DelPeer(ip) ==
    /\ links' = links \ {ip}
    /\ routes' = routes \ {ip}

Connected == job.op = "add" /\ job.new = {} /\ job.link = {}

\* Mutant: the whole entry of the address is deleted from peers.
DropOldAllKeys(ip) ==
    /\ Connected
    /\ ip \in job.old
    /\ DelPeer(ip)
    /\ peers' = [peers EXCEPT ![ip] = {}]
    /\ Continue([job EXCEPT !.old = @ \ {ip}])
    /\ UNCHANGED <<pods, up, podAddrs, tracked, budget>>

\* Mutant: the key is deleted from the entry of the address in peers.
DropOldUnregisters(ip) ==
    /\ Connected
    /\ ip \in job.old
    /\ DelPeer(ip)
    /\ peers' = [peers EXCEPT ![ip] = @ \ {job.key}]
    /\ Continue([job EXCEPT !.old = @ \ {ip}])
    /\ UNCHANGED <<pods, up, podAddrs, tracked, budget>>

DropOld(ip) ==
    /\ Connected
    /\ ip \in job.old
    /\ DelPeer(ip)
    /\ Continue([job EXCEPT !.old = @ \ {ip}])
    /\ UNCHANGED <<pods, up, memory, budget>>

DropOldFails(ip) ==
    /\ Connected
    /\ ip \in job.old
    /\ Fault("DelPeer")
    /\ Return(TRUE)
    /\ UNCHANGED <<pods, up, memory, kernel>>

Register ==
    peers' = [ip \in IPs |-> IF ip \in job.podIPs
                             THEN peers[ip] \cup {job.key} ELSE peers[ip]]

FinishAdd ==
    /\ Connected
    /\ job.old = {}
    /\ podAddrs' = [podAddrs EXCEPT ![job.key] = job.podIPs]
    /\ tracked' = tracked \cup {job.key}
    /\ Register
    /\ Return(FALSE)
    /\ UNCHANGED <<pods, up, kernel, budget>>

-----------------------------------------------------------------------------
\* delPeer, for a pod that is gone or terminated.

Unregister(ip) == peers' = [peers EXCEPT ![ip] = @ \ {job.key}]

ReleaseOld(ip) ==
    /\ job.op = "del"
    /\ ip \in job.old
    /\ job.key \in peers[ip]
    /\ IF existsOtherLivePeers(job.key, ip) THEN UNCHANGED kernel ELSE DelPeer(ip)
    /\ Unregister(ip)
    /\ Continue([job EXCEPT !.old = @ \ {ip}])
    /\ UNCHANGED <<pods, up, podAddrs, tracked, budget>>

\* existsOtherLivePeers does not find the key under the address.
ReleaseOldUnknown(ip) ==
    /\ job.op = "del"
    /\ ip \in job.old
    /\ job.key \notin peers[ip]
    /\ Return(TRUE)
    /\ UNCHANGED <<pods, up, memory, kernel, budget>>

ReleaseOldFails(ip) ==
    /\ job.op = "del"
    /\ ip \in job.old
    /\ peers[ip] = {job.key}
    /\ Fault("DelPeer")
    /\ Return(TRUE)
    /\ UNCHANGED <<pods, up, memory, kernel>>

\* Mutant: the entry of the pod stays in podAddrs.
FinishDelKeepsEntry ==
    /\ job.op = "del"
    /\ job.old = {}
    /\ Return(FALSE)
    /\ UNCHANGED <<pods, up, memory, kernel, budget>>

FinishDel ==
    /\ job.op = "del"
    /\ job.old = {}
    /\ podAddrs' = [podAddrs EXCEPT ![job.key] = {}]
    /\ tracked' = tracked \ {job.key}
    /\ Return(FALSE)
    /\ UNCHANGED <<pods, up, peers, kernel, budget>>

-----------------------------------------------------------------------------
(***************************************************************************)
(* The process.  A new process builds empty maps and its informer delivers *)
(* every pod that exists; the kernel's state belongs to the network        *)
(* namespace of the gateway's pod, which outlives the container.           *)
(***************************************************************************)

Crash ==
    /\ up
    /\ crashes < MaxCrashes
    /\ crashes' = crashes + 1
    /\ up' = FALSE
    /\ queue' = {}
    /\ job' = Idle
    /\ podAddrs' = [k \in Pods |-> {}]
    /\ tracked' = {}
    /\ peers' = [ip \in IPs |-> {}]
    /\ UNCHANGED <<pods, kernel, faults>>

\* Mutant: the pods that exist when the watcher starts are not delivered.
StartWithoutList ==
    /\ ~ up
    /\ up' = TRUE
    /\ UNCHANGED <<pods, queue, job, memory, kernel, budget>>

Start ==
    /\ ~ up
    /\ up' = TRUE
    /\ queue' = {k \in Pods : pods[k].phase # "Absent"}
    /\ UNCHANGED <<pods, job, memory, kernel, budget>>

-----------------------------------------------------------------------------
Step ==
    \/ \E ip \in IPs : AddPeer(ip) \/ AddClient(ip) \/ DropOld(ip)
                       \/ ReleaseOld(ip) \/ ReleaseOldUnknown(ip)
    \/ FinishAdd
    \/ FinishDel

Failure ==
    \/ \E k \in Pods : GetFails(k)
    \/ \E ip \in IPs : AddPeerFails(ip) \/ AddClientFails(ip)
                       \/ DropOldFails(ip) \/ ReleaseOldFails(ip)
    \/ Crash

Next ==
    \/ Cluster
    \/ \E k \in Pods : Reconcile(k)
    \/ Step
    \/ Failure
    \/ Start

Spec == Init /\ [][Next]_vars

(***************************************************************************)
(* The worker goroutine keeps running and the kubelet restarts a container *)
(* that exits.  The queue is first in, first out, so a key that is in it   *)
(* whenever the worker is free is taken at last: strong fairness, because  *)
(* the worker is busy in between.                                          *)
(***************************************************************************)
Fairness ==
    /\ WF_vars(Step)
    /\ WF_vars(Start)
    /\ \A k \in Pods : SF_vars(Reconcile(k))

FairSpec == Spec /\ Fairness

-----------------------------------------------------------------------------
(***************************************************************************)
(* Properties.                                                             *)
(***************************************************************************)

\* Every variable has its type; in particular no key or address enters the
\* watcher's maps that is not one of the cluster's.
TypeOK ==
    /\ pods \in [Pods -> Pod]
    /\ up \in BOOLEAN
    /\ queue \subseteq Pods
    /\ job \in Job
    /\ job.op # "idle" => job.key \in Pods
    /\ podAddrs \in [Pods -> SUBSET IPs]
    /\ tracked \subseteq Pods
    /\ peers \in [IPs -> SUBSET Pods]
    /\ links \subseteq IPs
    /\ routes \subseteq IPs
    /\ faults \in 0..MaxFaults
    /\ crashes \in 0..MaxCrashes

\* The watcher's own maps never contradict each other: delPeer always finds
\* the key it releases under each of the pod's addresses, so that the two
\* errors of existsOtherLivePeers cannot happen.  (Not so for a pod with several
\* addresses when a DelPeer fails: its release is left half done.)
NoOrphanEntry ==
    job.op = "del" => \A ip \in job.old : job.key \in peers[ip]

\* A pod that is the only one registered for an address it was added with
\* has its link and its route, whatever the pods that used the address
\* before or that moved away from it did meanwhile.
SoleHolderConnected ==
    \A k \in Pods, ip \in Supported :
        ip \in podAddrs[k] /\ peers[ip] = {k} /\ job.key # k
            => ip \in links /\ ip \in routes

\* A client that no event is pending for is connected by all its supported
\* addresses, also after failed calls, after a restart over the links of the
\* former process, and after the release of an address that it shares.
ClientConnected ==
    \A k \in Pods :
        up /\ Client(k) /\ k \notin queue /\ job.key # k
            => pods[k].ips \cap Supported \subseteq links \cap routes

\* No step of a pod's reconciliation closes the tunnel of another client
\* that was added with the same address.
NeverCutsOther ==
    [][\A ip \in links \ links' : \A k \in Pods :
          Client(k) /\ ip \in podAddrs[k] => k = job.key]_vars

Quiet == up /\ job = Idle /\ queue = {}

\* When the watcher has nothing left to do, and no call failed and no process
\* was killed before, exactly the supported addresses of the pods it tracks
\* have a tunnel and a route: none is missing and none is left of a pod that
\* has gone.
QuietExact ==
    Quiet /\ faults = 0 /\ crashes = 0
        => /\ links = Supported \cap UNION {podAddrs[k] : k \in tracked}
           /\ routes = links

\* When the watcher has nothing left to do, the gauge counts every client,
\* and no pod that is gone, or that terminated as a client.
QuietGauge ==
    Quiet => /\ {k \in Pods : Client(k)} \subseteq tracked
             /\ \A k \in tracked : \/ pods[k].phase = "Running"
                                   \/ isTerminated(pods[k]) /\ ~ shouldHandle(pods[k])

\* The addresses recorded of a pod that is gone are released at last: the
\* tunnel of each is removed, unless another pod uses it.
GoneEventuallyReleased ==
    \A k \in Pods, ip \in IPs :
        pods[k].phase = "Absent" /\ ip \in podAddrs[k]
            ~> pods[k].phase # "Absent" \/ ip \notin podAddrs[k]

-----------------------------------------------------------------------------
(***************************************************************************)
(* Inductive invariants, from which PodWatcherProofs derives the safety    *)
(* properties for any number of pods and addresses.                        *)
(***************************************************************************)

\* A job's fields agree with what it has done so far.
JobConsistent ==
    /\ ~ up => job = Idle /\ queue = {}
    /\ job.op = "idle" => job = Idle
    /\ job.op = "del" => job.old \subseteq podAddrs[job.key]
    /\ job.op = "add" =>
          /\ \A i, j \in job.link : i = j
          /\ job.old \subseteq podAddrs[job.key] \ job.podIPs
          /\ job.new \cup job.link # {} => job.old = podAddrs[job.key] \ job.podIPs
          /\ \A ip \in Supported \cap (job.podIPs \ podAddrs[job.key]) :
                \/ ip \in job.new
                \/ ip \in job.link /\ ip \in links
                \/ ip \in links /\ ip \in routes

\* k was added with the address ip and has not released it.
Holds(k, ip) ==
    /\ ip \in podAddrs[k]
    /\ ~ (job.op = "del" /\ job.key = k /\ ip \notin job.old)

\* peers is an index of podAddrs, up to entries that are stale.
IndexAgrees == \A k \in Pods, ip \in IPs : Holds(k, ip) => k \in peers[ip]

\* addPod has closed the tunnel of an address that the pod has left and has
\* not recorded it yet.
BeingDropped(ip) ==
    job.op = "add" /\ ip \in podAddrs[job.key] /\ ip \notin job.podIPs \cup job.old

\* An address held by a pod is connected if all keys under it are holders.
HeldConnected ==
    \A k \in Pods, ip \in Supported :
        Holds(k, ip) /\ (\A j \in peers[ip] : Holds(j, ip)) /\ ~ BeingDropped(ip)
            => ip \in links /\ ip \in routes

\* While no DelPeer fails.
IndexInv == TypeOK /\ JobConsistent /\ IndexAgrees /\ HeldConnected

\* With stable addresses, what the watcher recorded of a pod is what the pod
\* has, only pods that do not run are released, and the addresses recorded of
\* a running pod are indexed and connected.
StableRecord ==
    /\ \A k \in Pods : podAddrs[k] # {} => k \in tracked
    /\ \A k \in Pods :
          pods[k].phase # "Absent" => podAddrs[k] \in {{}, pods[k].ips}
    /\ job.op = "add" => /\ job.old = {}
                         /\ pods[job.key].phase # "Absent"
                               => job.podIPs \in {{}, pods[job.key].ips}
    /\ job.op = "del" => pods[job.key].phase # "Running"

RunningConnected ==
    \A k \in Pods : pods[k].phase = "Running" =>
        \A ip \in podAddrs[k] :
            /\ k \in peers[ip]
            /\ ip \in Supported => ip \in links /\ ip \in routes

\* No event is lost: a client that is not recorded as it is now is queued or
\* being added as it is now.
NoEventLost ==
    \A k \in Pods : up /\ Client(k) /\ k \notin queue =>
        IF job.key = k THEN job.op = "add" /\ job.podIPs = pods[k].ips
                       ELSE podAddrs[k] = pods[k].ips

StableInv == TypeOK /\ JobConsistent /\ StableRecord /\ RunningConnected

\* The gauge counts k rightly: a client, or a pod that runs or has stopped being
\* a client before it terminated.
Counted(k) ==
    /\ Client(k) => k \in tracked
    /\ k \in tracked => \/ pods[k].phase = "Running"
                        \/ isTerminated(pods[k]) /\ ~ shouldHandle(pods[k])

\* Without a pending event a pod is counted rightly, or is being added exactly
\* if it is a client.
GaugeInv ==
    /\ ~ up => tracked = {}
    /\ \A k \in Pods : up /\ k \notin queue =>
          IF job.key = k THEN job.op = "add" <=> Client(k) ELSE Counted(k)

\* With stable addresses, and as long as nothing has failed, the keys under an
\* address are its holders, an address that is held is connected, and one that
\* has a link is held or being connected.
Exact ==
    /\ \A k \in Pods, ip \in IPs : k \in peers[ip] <=> Holds(k, ip)
    /\ \A k \in Pods, ip \in Supported : Holds(k, ip) => ip \in links /\ ip \in routes
    /\ \A ip \in links : \/ \E k \in Pods : Holds(k, ip)
                         \/ job.op = "add" /\ ip \in job.podIPs
    /\ links \subseteq Supported
    /\ routes \subseteq links
    /\ links \ routes \subseteq job.link /\ job.link \subseteq links
    /\ IF job.op = "add" THEN podAddrs[job.key] \cup job.new \cup job.link \subseteq job.podIPs
       ELSE job.link = {}

ExactInv == faults = 0 /\ crashes = 0 => Exact

=============================================================================
