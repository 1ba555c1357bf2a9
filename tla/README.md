# A formal model of the egress gateway CNI plugin

TLA+ specifications of the egress gateway (`src/`), the TLC configurations that
check them on small instances, and theorems with proofs checked by TLAPS.

## 1. The system

Pods with the annotation `egress.ysksuzuki.com/<namespace>: <names>` send their
traffic for certain networks to the gateways of the named `Egress` resources. A
gateway masquerades it, so that it leaves the cluster with the gateway's
address. Client and gateway are connected by Foo-over-UDP (FoU) tunnels in both
directions.

```
  user ──Egress──▶ API server ◀──── controller: EgressReconciler, crbReconciler
                     │    │            makes Deployment, Service, ServiceAccount,
       watches pods  │    │ Egress,    ClusterRoleBinding subjects, status
                     ▼    ▼ Service
           gateway pod   agent on the node ◀──gRPC── CNI plugin ◀── container runtime
           pod watcher   ADD: FoUTunnel.Init, NatClient.Init,
           FoUTunnel          AddPeer and AddEgress per gateway
           Egress NAT          in the client pod's network namespace
                └───────────── FoU tunnels ─────────────┘
```

| Component (source) | State | Operations | What makes it correct |
|---|---|---|---|
| Pod watcher (`controllers/pod_watcher.go`) | `podAddrs`, `peers`, a gauge; lost in a restart | `Reconcile` → `addPod`, `delTerminatedPod`, `delPod` | every client has tunnel and route; nobody closes another client's tunnel; nothing is left of pods that are gone; failures are recovered from |
| FoU tunnels (`pkg/founat/fou.go`) | kernel: links, devices `egress_ipip4/6`, FoU ports, a dummy link | `Init`, `AddPeer`, `DelPeer` | a link leads to its peer; calls on one peer leave the others alone; the receiving device exists; `Init` can be repeated |
| Egress NAT (`pkg/founat/egress.go`) | kernel: MASQUERADE, rule and route table 118, a dummy link | `Init`, `AddClient` | `Init` can be repeated; a route for every client |
| Gateway start (`cmd/egress-gw`) | the stage of the start | both `Init`s, then the manager | serves only when configured; recovers from being killed |
| NAT client (`pkg/founat/client.go`) | kernel: rules 1800–2100, tables 117 and 118 of the pod | `Init`, `clear`, `AddEgress` | a packet goes to the gateway with the most specific destination, those that begin in a private network first, and private addresses stay local unless asked for |
| Agent (`runners/agent.go`) | caches of Pods, Egresses and Services | `Add`, `Del`, `Check` | ADD succeeds at last; a pod that started has all its routes, whatever failed or late attempts left |
| Egress controller (`controllers/egress_controller.go`) | none; caches | `Reconcile` | each Egress has its Deployment, Service, account and status; comes to rest |
| ClusterRoleBinding controller (`controllers/clusterrolebinding_controller.go`) | none; caches | `reconcileCRB`, called by two reconcilers | every namespace with an Egress is bound; the two do not fight |
| Webhook (`api/v1beta1`) | none | `Default`, `validate`, `validateUpdate` | destinations that it lets through the agent can parse; what it refuses the controller never tries; destinations stay as the routes of running pods have them |
| CNI plugin (`cmd/egress-gw-cni`) | none | `cmdAdd`, `cmdDel`, `cmdCheck` | a call that takes too long is an error for the runtime, and does no harm afterwards |
| Installer (`cmd/egress-gw-installer`) | files of the node | `installCniConf`, `installEgressGW` | never half a plugin; the runtime has the new configuration when it ends; completes after any interruption |
| Controller binary, certificate generator, flags | none | – | glue |

What is hard in this code: reconciliations that fail between two kernel calls
and are retried over their own leftovers; processes that lose their memory
while the kernel keeps its state; addresses that move from pod to pod while the
events of the two pods arrive in any order; caches that lag behind the API
server; two reconcilers that overwrite the same object; a Go map that gives
another order in every attempt; a plugin that gives up while the handler it
called goes on; controllers that lose their queues when the leader changes;
routes that are made once from objects that users go on editing; files that are
replaced under a runtime that reads them. `PROJECT.json` lists these hazards with their
lines and the properties that cover them.

## 2. Modules

| Module | Models | State ↔ code | Actions |
|---|---|---|---|
| `PodWatcher` | the pod watcher over the cluster's pods and the kernel | `podAddrs`, `peers` as in the code; `tracked` is the set of keys of `podAddrs`, of which the gauge is the size; `queue` the controller's queue, `job` the reconciliation in progress with what its loops have left; `links`, `routes` the kernel | one per kernel call: `AddPeer`, `AddClient`, `DropOld` (loop OUTER2), `FinishAdd`, `ReleaseOld` (delPeer), `FinishDel`, each with its failing variant; `GetFails`, `Crash`, `Start`; pods come, get addresses, change annotations, terminate, go |
| `Tunnels` | abstract: what the interface `FoUTunnel` promises | the peers that have a tunnel, the call in progress, the result and the error of the last one | `Connect`, `ReturnTunnel`, `Mismatch`, `Disconnect`, `Fail` |
| `FoUTunnel` | `AddPeer` and `DelPeer`, one netlink call per step | `link` by name, `device` per family, the kernel's `fallback` devices | `LinkAdd`, `CreateDevice`, `configureDevice`, `renameDevice`, `removeDevice`, ...; `Fail`; `LookupFails`, the error of `LinkByName` that `renameDevice` and `removeDevice` take for a missing device |
| `GatewayStart` | `subMain`, `FoUTunnel.Init`, `Egress.Init` | `stage`, `fam`: where the process is; ports, sysctls, iptables rules, ip rules and dummy links of the network namespace | one per kernel call, `Crash`, `Start` |
| `Gateway` | the composition of `GatewayStart` and `PodWatcher`: one gateway process from its start to its clients | all of both; the watcher's `up` is `stage = "serving"`, and they share `crashes` | `StartStep` (the last one starts the watcher), `Exit`, `Pod`, `Reconcile`, `WatcherStep`, `CallFails` |
| `ClientSetup` | `cmdAdd` of the plugin, `Add` of the agent and `NatClient` in the pod's network namespace; the webhook's check of destinations | `rules`, `routes`, `links`, `fou` of the namespace; `att` the handler with the gateways and networks that it read; `cluster` the Egresses and Services; `lost` the Egresses that have gone since they were read | one per netlink call; `Fail`; `Timeout`; `NewSandbox`; `CreateEgress`, `UpdateEgress`, `DeleteEgress`, `CreateService`, `DeleteService` |
| `EgressController` | `EgressReconciler` with caches, conflicts, owner references and the garbage collector; the webhook's check of the rest of a specification | objects of the API server, `cache`, `stale`, `w` the worker | `Reconcile`, `reconcileServiceAccount`, `Create`, `Update`, `Refused`, `updateStatus`, ...; `Restart` (another leader); users; collector; informers |
| `RoleBinding` | `reconcileCRB` and its two callers | `crb` the subjects, `call` the two workers | `Reconcile`, `List`, `Update`, `Conflict`; `Restart`; users; informers |
| `Installer` | both installations, the runtime's scans, kills and reboots | `etc` the directory of configurations, `temp` and `bin` the plugin's files, `dirty` what is not synced, `loaded` the runtime's configuration | one per system call; `Finish`, `Crash`, `Reboot`, `Scan`, `Tick` |

`MC*` modules give the constants their values; `*Proofs` modules hold the
theorems. Definitions whose comment begins with "Mutant" are wrong variants
of the definition below them; they are not part of any specification and
document which error each property detects.

How the modules fit together: `PodWatcher` uses of `AddPeer` and `DelPeer`
exactly what `Tunnels` promises (a call connects or disconnects the one peer it
was given, and a failing call may have done its work), and `FoUTunnel`
implements `Tunnels`. `GatewayStart` ends where `PodWatcher` begins, and
`Gateway` composes the two: the process that is killed loses the watcher's
memory, and the next one goes through both `Init`s over the links and routes
that are there. `Gateway` says what the gateway has for a client: port, rules,
link and route. It has no receiving devices; whether these are there is a
question to `FoUTunnel`, and for a dual-stack gateway the answer is no
(`fou_dual`).
`ClientSetup` has `FoUTunnel.Init` as one step with three outcomes, whose
details are in `GatewayStart`, and the Services it waits for are what
`EgressController` makes. `EgressController` leaves `reconcileCRB` to
`RoleBinding`. `ClientSetup` and `EgressController` each have the part of the
webhook's `validate` that they depend on: without it the agent would meet
destinations that it cannot parse, and the controller more Deployments that the
API server refuses. What the API server refuses and the webhook does not
(`Unfit`) is in `EgressController` too.

Abstractions. Addresses, names and specifications are model values; the lists
of addresses of a pod are sets; a network is the set of its addresses together
with the address it begins with; a pod template is a value that is copied; a
version is "the latest or not". Formatting, logging, metrics other than the
gauge and error texts are left out. Code outside `src/` (the kernel's lookup of
rules and routes, the API server, the informers, the garbage collector, the
kubelet) is modelled from how the code uses it.

## 3. What is checked

| Run | Instance | Shows |
|---|---|---|
| `pw_stable` | 2 pods, 2 addresses of which one is not supported, client, other and host-network pods; 1 failing call, 1 restart | `ClientConnected`, `NeverCutsOther`, `QuietExact`, `QuietGauge`, `TypeOK` while no pod changes its address |
| `pw_changing` | 2 pods of one address out of 2, which changes; any call fails once, 1 restart | `NoOrphanEntry`, `SoleHolderConnected` |
| `pw_cuts_other` (violation) | 2 pods whose addresses change, no failure | `NeverCutsOther` does not hold |
| `pw_wedge` (violation) | DelPeer fails once, fairness | `GoneEventuallyReleased` does not hold |
| `fou_refines` | 2 IPv4 and 2 IPv6 peers, of which only IPv6 is supported, 2 failures, of any netlink call or of a lookup whose error is swallowed | `ImplementsTunnels`, `CreatedReady`, `SingleStackReady` |
| `fou_dual` (violation) | the same peers, both families supported, no failure | `DevicePerFamily` does not hold |
| `gateway` | a dual-stack gateway, 2 pods with an address of each family, killed once at any stage; AddPeer, AddClient or DelPeer fails once; fairness | `ServingConfigured`, `ClientSetUp`, `ConfiguredRecovers`, `ClientEventuallySetUp`, `GoneEventuallyForgotten` |
| `gw_stuck` (violation) | dual stack, 1 crash, fairness | `Recovers` does not hold |
| `client_setup` | 9 pods with up to 3 of 5 Egresses, 7 addresses, 2 failures or timeouts, 1 deletion, fairness | `Routed`, `EventuallySetUp` |
| `egress_controller` | 1 Egress with 2 good specifications, one that the webhook refuses and 2 that only the API server refuses, 3 edits, 1 failing call or change of leader, fairness | `QuietServed`, `Settles` |
| `role_binding` | 3 Egresses in 2 namespaces, 4 edits, 1 failing call or change of leader, fairness | `QuietBound`, `Settles` |
| `installer` | 3 directories as they may be found, a plugin or none; 2 kills or reboots; fairness | `BinaryWhole`, `FinishedLoaded`, `EventuallyInstalled` |

Why these bounds are enough. Everything in the pod watcher is per key and per
address; what goes wrong between pods needs two that share an address, and
what goes wrong within a pod needs two addresses. A second failure or restart
repeats the first from a state that is reached without it, and the proofs of
section 4 have no such bound. In `FoUTunnel` a second peer of each family shows
what one peer's call does to another; the theorems of section 4 are for any
families. In
`Gateway` one kill at any stage is enough: once both dummy links exist a start
changes nothing in the kernel, so that a second kill meets what the first one
met, and before that every further start fails (`gw_stuck`). The pods of this
run keep their annotations and `Get` does not fail, which would spend the event;
both happen in the runs of `PodWatcher`, and the theorem about `Gateway` allows
the first. A release that a failing `DelPeer` left half done (`HalfReleased`)
may stay, as `pw_wedge` shows, and `GoneEventuallyForgotten` excepts it. In
`ClientSetup` the seven addresses have every kind that the rules tell apart, and the pods
every relation of two Egresses: nested, disjoint and equal destinations, one
that exceeds the private network that it begins in, the other family, the same
Egress twice. Two failures are an attempt over the
leftovers of an attempt that itself met leftovers, or a late handler and a
failing one; one deletion gives an Egress that is created again, with other
destinations, at any point of an ADD. In `EgressController` Egresses are
independent of each other but for the service account, and three edits are a
creation, a deletion and a re-creation, or two edits on top of a creation.
`RoleBinding` has two Egresses in one namespace, so that the deletion of one
must not unbind it. In `Installer` the runtime scans every 5 seconds, as a
comment in `root.go` has it, and the installer sleeps for 6. Time is a count of
seconds; a scan that is due and the end of the sleep may come in either order,
which is why 5 seconds would not do.

Deadlock is checked except where the system really comes to rest: after a
successful ADD, and when all objects are as they should be and the users have
no edits left. (A gateway waits for events, and a runtime goes on scanning.)

### Fairness

- *Worker*: a controller's worker goroutine runs (`WF`). For the pod watcher,
  `SF` on taking each key: the work queue is first in, first out, so a key that
  is in it whenever the worker is free is taken at last.
- *Restart*: the kubelet restarts a container that exits (`WF` on `Start`, part
  of `Step` in `GatewayStart` and of `StartStep` in `Gateway`; of `Step` in
  `Installer`, an init container). Crashes, timeouts and changes of the leader
  are never fair and are bounded.
- *Informers and garbage collector*: watches deliver and orphans are collected
  at last (`WF`).
- *Sandbox*: after a failed ADD the kubelet creates the sandbox again and calls
  ADD until it succeeds: `WF` on `Add` and `SF` on `NewSandbox`, since a retry
  in the old sandbox may come between. Without it, an ADD that was killed in
  `FoUTunnel.Init` fails for ever in the same network namespace, as in `gw_stuck`.
- *Runtime*: it scans, and time passes (`WF` on `Scan` and `Tick`; a second does
  not pass while a scan or the end of the sleep is due).

## 4. What is proved

For all sets of pods, addresses, peers, families, Egresses and specifications,
and any number of edits, failures and restarts:

| Theorem | Assumes | Says |
|---|---|---|
| `PodWatcherProofs!TypeCorrect` | – | `Spec => []TypeOK` |
| `PodWatcherProofs!NoOrphan` | `DelPeer` does not fail | `existsOtherLivePeers` never fails, however addresses change |
| `PodWatcherProofs!SoleHolder` | `DelPeer` does not fail | the only pod registered for an address is connected by it |
| `PodWatcherProofs!CutsNoOther` | stable addresses | no reconciliation closes another client's tunnel |
| `PodWatcherProofs!ClientsConnected` | stable addresses, `Get` does not fail | every client without a pending event is connected |
| `PodWatcherProofs!GaugeRight` | `Get` does not fail | a watcher at rest counts every client and no pod that is gone |
| `PodWatcherProofs!NothingLeftOver` | stable addresses | a watcher at rest, before anything failed, has exactly the tunnels and routes of the pods it tracks |
| `FoUTunnelProofs!Refinement` | distinct link names | `FoUTunnel` implements `Tunnels` |
| `FoUTunnelProofs!NewLinksReady` | – | a link is returned by the call that created it with its family's device up, and the fallback device renamed unless the lookup of that device failed |
| `FoUTunnelProofs!SingleStackDevices` | one family | until a netlink call fails, every tunnel has its receiving device between two calls |
| `GatewayStartProofs!OnlyServesConfigured` | – | a gateway that serves is configured |
| `GatewayProofs!StartsAsSpecified` | – | `Gateway` implements `GatewayStart` |
| `GatewayProofs!GatewayConnects` | stable addresses, `Get` does not fail | for every client without a pending event the gateway has port, rules, link and route of each of its addresses (not the receiving device) |
| `ClientSetupProofs!ClientTypes` | – | `Spec => []TypeOK` |
| `ClientSetupProofs!PacketsRouted` | – | after an ADD that succeeded every packet goes where the Egresses that ADD read say, for any networks in CIDR format |
| `EgressControllerProofs!EgressesServed` | – | when the reconciler is at rest every Egress has what it needs |
| `RoleBindingProofs!AllBound` | – | when the reconcilers are at rest every namespace with an Egress is bound |
| `InstallerProofs!NeverHalfAPlugin` | – | the plugin's binary is whole whenever it is there |
| `InstallerProofs!FinishesLoaded` | the runtime scans more often than the installer sleeps | an installer that finishes leaves a runtime that has loaded the new configuration |

The assumptions are those under which the statement holds: `pw_cuts_other` and
`pw_wedge` show what happens without stable addresses and with a failing
`DelPeer`; `Get` with an error other than NotFound spends the event (the code
logs the error and returns nil). Distinct link names are what the code relies
on; IPv6 names are 32 bits of a hash.

The arguments:

- *`IndexInv`* (for `NoOrphan`, `SoleHolder`). `NoOrphanEntry` is about a
  release in progress, but it needs that `peers` was right when the release
  began: `IndexAgrees` says that every holder of an address is in the address's
  entry, where a release in progress no longer holds what it has released.
  `SoleHolderConnected` needs more: an address is connected if *all* keys of
  its entry are holders (`HeldConnected`). An entry may be stale, because
  `addPod` does not remove the key of a pod that left; then nothing is claimed.
  `BeingDropped` is the gap between `DelPeer` in `addPod` and the record of it.
- *`StableInv`* (for `CutsNoOther`, `ClientsConnected`). With stable addresses
  what is recorded of a pod is what it has, so `addPod` drops nothing
  (`StableRecord`); a tunnel is only closed by `delPeer`, for a pod that does
  not run, when nobody else is in the entry, and every running pod that was
  added is in it (`RunningConnected`). This holds even when `DelPeer` fails.
  `NoEventLost` then says that a client that is not recorded as it is now is in
  the queue or in work.
- *`JobConsistent`*, for both: each address that `addPod` was to connect is
  still to do, has its link only, or is connected.
- *`TunnelInv`*: a link leads to the peer of its name or does not exist, and a
  call past `LinkAdd` has its link. Each step then is one of `Tunnels` or none.
- *`CallInv`, `ReadyInv`*: a call past `configureDevice` has its own family's
  device, although the removal of the other family's comes after it for IPv4 and
  before it for IPv6. The clause on the fallback device has an exception, which
  the history variable `missed` records: `renameDevice` returns nil when
  `LinkByName` fails, for whatever reason.
- *`SingleInv`* (for `SingleStackDevices`): links lead to peers of the one family,
  and until something fails this family has its device whenever it has a link,
  but for the call that is making both. Without either condition it fails:
  `fou_dual` for two families, and the retry of section 5 after a failure.
- *`GaugeInv`* (for `GaugeRight`): a pod without a pending event is counted
  rightly, or is in work, and then it is being added exactly if it is a client.
  Nothing is needed of addresses, so they may change.
- *`ExactInv`* (for `NothingLeftOver`): as long as nothing failed, the keys under
  an address are exactly its holders, so that the last holder's release closes
  the tunnel, and a link that nobody holds belongs to the addition in progress.
- *`StartInv`*: the families before the current one are configured, the current
  one as far as the stage says, and all of them once the dummy link exists.
- *`Gateway`*: the proof composes those of its parts. A step of the gateway is a
  step of `GatewayStart` (`StartsStep`) and a step of `PodWatcher` or a kill
  before the watcher runs (`WatchersStep`), so that `StartInv`, `StableInv` and
  `NoEventLost` are inductive for the gateway too; `GatewayProofs` instantiates
  `PodWatcherProofs` and uses its lemmas with `up` as `stage = "serving"`. A
  client's family is configured by the one and its links and routes are there by
  the other. The assumptions are those of `ClientsConnected`; failures of
  `AddPeer`, `AddClient` and `DelPeer` and changes of annotations are allowed.
- *`ClientInv`* (for `PacketsRouted`). Unconditionally, `NetnsOK` says that
  after `clear` a family has the rules that the attempt has added so far and no
  routes until the loop over the gateways (an earlier attempt may have left
  anything before). As long as nothing that was read is lost, `FreshOK` says that
  each network that the pod asks for (`Demand`) is routed or still pending in the
  attempt, and that no other network is routed; at the end nothing is pending.
  Routes that an attempt left over are those of a pod with a gateway to set up, so
  that the attempt that does nothing (`AddNothing`) never succeeds on top of them.
  `LookupRight` then goes through the priorities: a private address is decided
  by the narrow table or by main, any other by the narrow table if it has a route
  and else by the wide one, and among the routes of a table for an address, which
  are nested, there is a most specific one (`TableDecides`). The lists of
  `getGWNets` are recursive functions; what they hold (`KeepList`, `FlattenList`)
  is proved by taking the least number for which it fails (`SetInduction`).
- *`ControllerInv`* (for `EgressesServed`). `Pending(e)` says that another
  reconciliation of `e` will come: `e` is in the queue, or an informer has
  something to deliver. Every write makes its object pending and only the worker
  ends it (`StepKeeps`). Unless it is pending, an Egress in work has been
  reconciled as far as the worker has come (`WorkDone`), and one that is not in
  work completely (`RestDone`); so a stale copy never does harm without an event
  to follow. `cache.sa` is within `sa` and what was deleted, since nobody watches
  service accounts.
- *`BindingInv`* (for `AllBound`). An Egress that is not bound has an event or a
  request pending, for itself or for the ClusterRoleBinding, or a call in
  progress that will bind it (`Covered`): with the latest version of the
  ClusterRoleBinding, and with a list that has the namespace if it has listed
  already. A call with an old copy is worth nothing, since `DeepDerivative` may
  be content with the copy; but then the ClusterRoleBinding has changed, which
  is an event. The proof needs that the sorted list of subjects exists and is
  complete (`SortedListing`, from the cardinalities of initial segments, and
  `ListingComplete`).
- *`InstallInv`* (for `NeverHalfAPlugin`): a temporary file that was synced is
  whole and on the disk. *`ScanDue`* (for `FinishesLoaded`): while the installer
  sleeps, either the runtime has loaded the new configuration or the time since
  its last scan bounds the time slept.

`ServingConfigured`, which `OnlyServesConfigured` states, is checked in the run
`gateway`, where the watcher goes on from there (`StartsAsSpecified`).

TLC checked each of these invariants on the instance of its run before it was
proved. The constants' assumptions are those named in the modules: keys and
names are distinct from the values that stand for none, bounds are numbers, and
the set of Egresses is finite in `RoleBinding`. In `ClientSetup` networks are
nested or disjoint, as CIDR networks are; a family has
at most 100 private networks (the code has 3 and 1), so that their rules come
before the one of the wide table; and a pod has finitely many annotations.

Model-checked only: liveness and everything else that rests on fairness
(`Settles`, `EventuallySetUp`, `EventuallyInstalled`, `ConfiguredRecovers`,
`ClientEventuallySetUp`, `GoneEventuallyForgotten`), which is out of the
prover's reach.

## 5. Where the code and its documentation disagree

1. **A moving pod closes another pod's tunnel** (`pw_cuts_other`,
   `controllers/pod_watcher.go:190`). `addPod` calls `DelPeer` for addresses
   the pod no longer has without `existsOtherLivePeers`. A test says that a
   deletion "should not delete a peer when another pod accidentally hits the
   same one"; for a move it does.
2. **One failed `DelPeer` blocks a release for ever** (`pw_wedge`,
   `controllers/pod_watcher.go:254`). `delPeer` updates `peers` address by
   address and `podAddrs` at the end; the retry stops at the address that was
   released already.
3. **A dual-stack gateway keeps one receiving device** (`fou_dual`,
   `pkg/founat/fou.go:247`). `addPeer4` and `addPeer6` remove the device of the
   other family.
4. **A gateway killed in an `Init` does not start again** (`gw_stuck`,
   `pkg/founat/fou.go:105`), though methods are said to be idempotent and the
   dummy link to be there for restarts. Its network namespace, and with it the
   FoU port, outlives the container.

Observations that no run states as a property:

- Tunnels leak when a pod is deleted after `addPod` failed half-way (nothing is
  recorded of it), and when an address was left by a pod in `addPod` (its key
  stays in `peers`, so the next user of the address is never the last one).
- When `DelPeer` fails for one of several addresses that a pod left, `podAddrs`
  keeps addresses whose tunnels are closed; if the pod gets one back, it is
  taken to be connected.
- When `setupIPIPDevices` fails, the link exists, and the retry of `AddPeer`
  returns it without setting up the device (`pkg/founat/fou.go:182`).
  `CreatedReady` is therefore about the call that creates the link, and
  `SingleStackReady` about the time before a failure.
- `renameDevice` and `removeDevice` take every error of `LinkByName` for a
  missing device: the fallback device may keep the kernel's name, and the other
  family's device may stay, without an error (`pkg/founat/fou.go:311`, `326`).
- A gateway that retries `Egress.Init` appends the MASQUERADE rule again.
- `reconcileCRB` compares with `DeepDerivative`, which ignores subjects in
  excess at the end, and is not called when an Egress is deleted: the account of
  a namespace without Egresses may stay bound.
- Parts of an Egress that are optional (strategy, template annotations, session
  affinity configuration) are not reset in the children when they are removed.
  `QuietServed` therefore compares an optional part only when there is one.
- The webhook checks of the Deployment only the type of the strategy and the
  syntax of labels and annotations. An Egress with, say, a Recreate strategy that
  has rolling-update parameters, or with an invalid pod template, is let through,
  and the reconciler is refused its Deployment for ever, with growing delays.
  `Settles` claims rest only once no such Egress is left (`Overlooked`).
- A Deployment or Service of the Egress's name that exists beforehand and has no
  owner is updated and never adopted. `EgressController` starts without any.
- Nobody watches service accounts, so a deleted one comes back with the next
  event of an Egress in its namespace, or with the next leader, which
  reconciles every Egress. `QuietServed` excepts accounts that were deleted
  under the present leader.
- An Egress that is deleted and created again may have other destinations,
  although `validateUpdate` forbids the change; pods that run keep the routes of
  the old one. `Routed` is about pods whose Egresses are the ones that ADD read.
- An agent that reads an Egress that was created again may find the Service of
  the old one, which the garbage collector has not reached, and then connects
  the pod to a cluster IP that goes away (`runners/agent.go:310`).
- A retry in the same network namespace that finds nothing to set up skips
  `NatClient.Init`, which would have cleared the routes of the attempt before
  (`runners/agent.go:221`). It takes another Egress of the same name in between.
- The installer writes the configuration before the plugin's binary: on a new
  node ADDs fail until the binary is there, and between the removal of the old
  configurations and the new one a scan finds none. An installer that is killed
  leaves its temporary file.
- `convertError` of the plugin's RPC client goes on with a nil value when the
  first detail of an error is not a `CNIError`. The agent sends no others.
- Two Egresses of a pod with the same destination make every ADD fail (EEXIST).
  `EventuallySetUp` excludes such pods; the runs include them for `Routed`.
- A destination that begins outside a private network and contains it goes to
  the wide table, which comes after the rules for the private networks: as
  `Wanted` has it. One that begins inside a private network and exceeds it (such
  as 10.0.0.0/7) goes to the narrow table, which comes before the wide one, so
  that it takes precedence over a more specific public destination of another
  Egress (such as 11.1.0.0/16). `Wanted` follows the code in this (`Preferred`).

## 6. Not modelled

- *Two handlers in one network namespace.* The runtime gives a pod whose ADD
  failed a new sandbox, or calls ADD again when the first handler has returned:
  `ClientSetup` has one handler per network namespace, which may be late. A late
  handler in a network namespace that nobody uses any more is dropped.
- *Webhook*: `Default`, which gives a template without containers the container
  that `reconcilePodTemplate` would add anyway.
- *Receiving devices in `Gateway`* and what the two families' calls do to each
  other's: in `FoUTunnel`.
- *Controller binary*: two leaders at the same time, which leases prevent but
  for clock skew. *Flags, gRPC server, health checks, certificates*: no state of
  their own.
- *Installer*: whether renames and removals survive a reboot (they are taken
  to), and other network plugins that write into the directory meanwhile.
- *`cmd/gencert`*: a development tool. *`pkg/cnirpc`, deepcopy, CRDs*: generated.
- *MTU, offload and sysctl values, iptables matches*: data that no property
  tells apart.

## 7. Plan

Done, in this order: `PodWatcher` with its proofs; `Tunnels` and `FoUTunnel`
with the refinement; `GatewayStart` with its proof; `ClientSetup`;
`EgressController`; `RoleBinding`; the webhook's validation, deletions and
re-creations, late handlers and changes of the leader in these three;
`Gateway`, the composition of start and watcher; `Installer`; the proofs of all
of these.

Worth adding to the model:

1. A composition of `PodWatcher` with `Tunnels`, so that a reconciliation's
   calls are the interface's calls and the promise is used and not repeated.
2. An abstract specification of the gateway (the set of clients that are served)
   that `PodWatcher` implements with stable addresses.

## 8. Running it

In this directory: `tlc -config PodWatcherStable.cfg MCPodWatcher` (the module
of each configuration is in `PROJECT.json`), and `tlapm` for each of
`PodWatcherProofs`, `FoUTunnelProofs`, `GatewayStartProofs`, `GatewayProofs`,
`ClientSetupProofs`, `EgressControllerProofs`, `RoleBindingProofs` and
`InstallerProofs`.
