------------------------------ MODULE Gateway ------------------------------
(***************************************************************************)
(* An egress gateway as a whole: subMain of cmd/egress-gw/sub/run.go       *)
(* configures the network namespace (module GatewayStart) and then starts  *)
(* a manager that runs the pod watcher (module PodWatcher).                *)
(*                                                                         *)
(* The pod watcher runs while the process serves.  A process that is       *)
(* killed loses the watcher's memory; the next one goes through both Inits *)
(* and starts the watcher over the links and routes that are there.  The   *)
(* pods of the cluster come and go in the meantime.                        *)
(*                                                                         *)
(* Of a tunnel this module has the link and the route, as PodWatcher.  The *)
(* devices that receive the tunnelled packets belong to module FoUTunnel,  *)
(* which shows when they are there and when not.                           *)
(***************************************************************************)
EXTENDS GatewayStart

CONSTANTS Pods, NoPod, IPs, MaxAddrs, MyNS, MyName, PodSpecs,  \* as in PodWatcher
          StableAddresses, Faulty, MaxFaults,
          Family   \* [IPs -> Families]

ASSUME FamilyAssumption == Family \in [IPs -> Families]

\* As in PodWatcher.
ASSUME WatcherAssumption ==
    /\ NoPod \notin Pods
    /\ MaxAddrs \in Nat
    /\ PodSpecs # {} /\ \A s \in PodSpecs : s.hostNetwork \in BOOLEAN
    /\ StableAddresses \in BOOLEAN
    /\ Faulty \subseteq {"Get", "AddPeer", "AddClient", "DelPeer"}
    /\ MaxFaults \in Nat

VARIABLES pods, queue, job, podAddrs, tracked, peers, links, routes, faults

\* NewFoUTunnel and NewEgress get the addresses of POD_IPS: a peer is of a
\* family that the gateway has an address of, or is refused.
Supported == {ip \in IPs : Family[ip] \in Local}

\* SetupPodWatcher and mgr.Start come last.
up == stage = "serving"

PW == INSTANCE PodWatcher

watcher == <<pods, queue, job, podAddrs, tracked, peers, links, routes, faults>>
gvars   == <<vars, watcher>>

GatewayInit ==
    /\ Init
    /\ pods = [k \in Pods |-> PW!AbsentPod]
    /\ queue = {}
    /\ job = PW!Idle
    /\ podAddrs = [k \in Pods |-> {}]
    /\ tracked = {}
    /\ peers = [ip \in IPs |-> {}]
    /\ links = {}
    /\ routes = {}
    /\ faults = 0

-----------------------------------------------------------------------------
\* A step of the start; the last one starts the watcher.
StartStep ==
    /\ Step
    /\ IF stage' = "serving" THEN PW!Start ELSE UNCHANGED watcher

\* The process exits, and the watcher with it if it runs.
Exit ==
    /\ Crash
    /\ IF up THEN PW!Crash ELSE UNCHANGED watcher

\* The watcher does not touch what the Inits configured, and neither does the
\* cluster.
Pod(k) ==
    /\ UNCHANGED vars
    /\ \/ PW!CreatePod(k) \/ PW!AssignIPs(k) \/ PW!Annotate(k)
       \/ PW!Terminate(k) \/ PW!DeletePod(k)

Reconcile(k) == UNCHANGED vars /\ PW!Reconcile(k)
WatcherStep  == UNCHANGED vars /\ PW!Step

\* The watcher's Get fails, or a call into the kernel.
CallFails ==
    /\ UNCHANGED vars
    /\ \/ \E k \in Pods : PW!GetFails(k)
       \/ \E ip \in IPs : \/ PW!AddPeerFails(ip) \/ PW!AddClientFails(ip)
                         \/ PW!DropOldFails(ip) \/ PW!ReleaseOldFails(ip)

\* The manager waits for events.
Wait == Serve /\ UNCHANGED watcher

GatewayNext ==
    \/ StartStep
    \/ Exit
    \/ Wait
    \/ \E k \in Pods : Pod(k) \/ Reconcile(k)
    \/ WatcherStep
    \/ CallFails

GatewaySpec == GatewayInit /\ [][GatewayNext]_gvars

\* The kubelet restarts a container that exits, and the process and its worker
\* run (see PodWatcher for the queue).
FairGatewaySpec ==
    /\ GatewaySpec
    /\ WF_gvars(StartStep)
    /\ WF_gvars(WatcherStep)
    /\ \A k \in Pods : SF_gvars(Reconcile(k))

-----------------------------------------------------------------------------
(***************************************************************************)
(* Properties.                                                             *)
(***************************************************************************)

\* The gateway is set up for a client with this address: the FoU port and the
\* rules of the family are there, and a link and a route lead to the client.
SetUp(ip) ==
    /\ FouDone(Family[ip]) /\ EgressDone(Family[ip])
    /\ ip \in links /\ ip \in routes

\* k is a client, and both Inits were complete.
Asks(k) == PW!Client(k) /\ dummies = {"fou-dummy", "egress-dummy"}

SetUpAll(k) == \A ip \in pods[k].ips \cap Supported : SetUp(ip)

\* As long as Get does not fail, which spends the event, the gateway is set up
\* for each address of its families of a client that no event is pending for,
\* although the configuration is skipped on the sight of a link and the watcher
\* starts over what another process left.
ClientSetUp ==
    \A k \in Pods :
        up /\ PW!Client(k) /\ k \notin queue /\ job.key # k => SetUpAll(k)

\* Once both Inits were complete, the gateway is at last set up for all addresses
\* of a client, whichever AddPeer, AddClient or DelPeer fails, as long as Get does
\* not, and at whichever stage the process is killed.
ClientEventuallySetUp == \A k \in Pods : Asks(k) ~> SetUpAll(k) \/ ~ Asks(k)

\* The release of a pod has stopped between two of its addresses: the index
\* peers has lost the key of an address that podAddrs still has.
HalfReleased(k) ==
    /\ job.key # k
    /\ \E ip \in podAddrs[k] : k \notin peers[ip]

\* A pod that is gone is forgotten at last: delPeer comes to its end, or the
\* process does, unless a call failed and left a release half done.  (Such a pod
\* is never forgotten: PodWatcher, GoneEventuallyReleased.)
GoneEventuallyForgotten ==
    \A k \in Pods :
        pods[k].phase = "Absent" /\ podAddrs[k] # {}
            ~> \/ pods[k].phase # "Absent" \/ podAddrs[k] = {}
               \/ faults > 0 /\ HalfReleased(k)

=============================================================================
