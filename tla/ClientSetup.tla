---------------------------- MODULE ClientSetup ----------------------------
(***************************************************************************)
(* CNI ADD for a client pod: cmdAdd of the plugin                          *)
(* (cmd/egress-gw-cni/main.go), Add, getGWNets and setupEgressGW of        *)
(* runners/agent.go and NatClient of pkg/founat/client.go, one netlink     *)
(* call at a time, in the network namespace of the pod; and the webhook of *)
(* Egresses (api/v1beta1) as far as the agent depends on it.               *)
(*                                                                         *)
(* The pod's annotations name Egresses.  Each gives a gateway (the cluster *)
(* IP of its Service) and destination networks.  The setup fills two       *)
(* routing tables of each family, "narrow" for destinations that begin in  *)
(* a private network and "wide" for the others, and the rules that order   *)
(* them against the main table.                                            *)
(*                                                                         *)
(* The annotations are a Go map, so the Egresses come in a different order *)
(* in every attempt.  An attempt may fail before any of its netlink calls; *)
(* nothing is undone, and the next attempt runs either in the same network *)
(* namespace or in that of a new sandbox.  The plugin gives up after       *)
(* rpcTimeout, but the agent's handler, which does not look at its context *)
(* any more, goes on.                                                      *)
(*                                                                         *)
(* The routes of a pod are made once, from the destinations that its       *)
(* Egresses have at that time; users edit, delete and create Egresses at   *)
(* any time.                                                               *)
(***************************************************************************)
EXTENDS Naturals, Sequences, FiniteSets, SequencesExt

CONSTANTS
    Addrs,         \* addresses, one or more of every kind that rules tell apart
    Family,        \* [Addrs -> {4, 6}]
    LinkLocal,     \* addresses in v4LinkLocal and v6LinkLocal
    Private,       \* [{4, 6} -> Seq(SUBSET Addrs)]: v4PrivateList, v6PrivateList
    Egress,        \* names of Egresses
    Gateway,       \* [Egress -> {4, 6}]: the family of the Service's cluster IP
    None,          \* no Egress
    NotCIDR,       \* a destination that is not in CIDR format
    Offers,        \* [Egress -> SUBSET Seq([ip : Addrs, addrs : SUBSET Addrs]
                   \*                       \cup {NotCIDR})]: the destinations that
                   \* users write
    Pods,          \* records [hostNetwork, annotations, prevResult]: the pods
                   \* that may be added; annotations is a set of lists of
                   \* names, prevResult a set of [family, sandbox]: the
                   \* addresses of the previous plugin, sandbox: of an
                   \* interface that is not known to be another than the pod's
    MaxDeletes,    \* how many Egresses and Services users delete
    MaxFaults      \* how many calls fail in a behaviour

Families == {4, 6}

\* The destinations that are networks.
Nets == UNION {UNION {ToSet(ds) : ds \in Offers[e]} : e \in Egress} \ {NotCIDR}

\* The priorities from 2000 to 2099 are enough for the private networks.
ASSUME AddressAssumption ==
    /\ IsFiniteSet(Addrs)
    /\ Family \in [Addrs -> Families]
    /\ LinkLocal \subseteq Addrs
    /\ \A f \in Families :
          /\ Private[f] \in Seq(SUBSET Addrs)
          /\ Len(Private[f]) <= 100
          /\ \A i \in DOMAIN Private[f] : \A a \in Private[f][i] : Family[a] = f

\* Networks are in CIDR format: two of them are nested or disjoint, and one
\* contains its own address.  (It may be larger than a private network that
\* has this address.)
ASSUME NetworkAssumption ==
    /\ Nets \subseteq [ip : Addrs, addrs : SUBSET Addrs]
    /\ \A n \in Nets : n.ip \in n.addrs /\ \A a \in n.addrs : Family[a] = Family[n.ip]
    /\ \A m, n \in Nets : \/ m.addrs \cap n.addrs = {}
                          \/ m.addrs \subseteq n.addrs
                          \/ n.addrs \subseteq m.addrs

ASSUME ObjectAssumption ==
    /\ Gateway \in [Egress -> Families]
    /\ \A e \in Egress : Offers[e] \subseteq Seq(Nets \cup {NotCIDR})
    /\ \A p \in Pods : /\ p.hostNetwork \in BOOLEAN
                       /\ IsFiniteSet(p.annotations)
                       /\ p.annotations \subseteq Seq(Egress)
                       /\ \A a \in p.prevResult : a.family \in Families

VARIABLES
    pod,      \* the pod that is added
    cluster,  \* Egress -> [destinations, svc]: None or the destinations of the
              \* Egress, and its Service: "none", its own, or the old one of
              \* an Egress of the same name that is gone
    lost,     \* the Egresses of the pod that are not, or whose Services are not,
              \* the ones that were read for what is in the network namespace
    deletes,
    fou,      \* FoUTunnel.Init in this network namespace
    links,    \* the gateways with a tunnel link
    rules,    \* family -> the rules with priorities 1800 to 2100
    routes,   \* <<family, table>> -> routes [dst, gw]
    att,      \* the attempt in progress
    result,   \* the result of the last attempt
    faults

netns == <<fou, links, rules, routes>>
api   == <<cluster, lost, deletes>>
vars  == <<pod, api, netns, att, result, faults>>

Tables == {"narrow", "wide"}

NoAttempt == [pc |-> "none", g |-> <<>>, fam |-> 4, i |-> 1, late |-> FALSE]

EmptyRules  == [f \in Families |-> {}]
EmptyRoutes == [t \in Families \X Tables |-> {}]

Init ==
    /\ pod \in Pods
    /\ cluster = [e \in Egress |-> [destinations |-> None, svc |-> "none"]]
    /\ lost = {}
    /\ deletes = 0
    /\ fou = "none"
    /\ links = {}
    /\ rules = EmptyRules
    /\ routes = EmptyRoutes
    /\ att = NoAttempt
    /\ result = "none"
    /\ faults = 0

-----------------------------------------------------------------------------
\* The API server: the Egresses that the pod names, since the agent reads no
\* others.  A read from a cache that lags behind is a read made earlier.
Named == UNION {ToSet(s) : s \in pod.annotations}

ParseCIDR(n) == n # NotCIDR

\* Mutant: destinations are not parsed.
validateNothing(ds) == TRUE

\* EgressSpec.validate, as far as the destinations go (module EgressController
\* has the rest of it).
validate(ds) == \A i \in DOMAIN ds : ParseCIDR(ds[i])

\* Mutant: the destinations may change.
validateUpdateAny(ds, old) == validate(ds)

validateUpdate(ds, old) == validate(ds) /\ ds = old

\* ValidateCreate has accepted it.
CreateEgress(e, ds) ==
    /\ cluster[e].destinations = None
    /\ validate(ds)
    /\ cluster' = [cluster EXCEPT ![e].destinations = ds]
    /\ UNCHANGED <<pod, lost, deletes, netns, att, result, faults>>

\* ValidateUpdate has accepted it.  The pods with the Egress stay as they are.
UpdateEgress(e, ds) ==
    /\ cluster[e].destinations # None
    /\ validateUpdate(ds, cluster[e].destinations)
    /\ cluster' = [cluster EXCEPT ![e].destinations = ds]
    /\ UNCHANGED <<pod, lost, deletes, netns, att, result, faults>>

\* The controller creates the Service.
CreateService(e) ==
    /\ cluster[e].destinations # None
    /\ cluster[e].svc = "none"
    /\ cluster' = [cluster EXCEPT ![e].svc = "own"]
    /\ UNCHANGED <<pod, lost, deletes, netns, att, result, faults>>

Delete(e) == lost' = lost \cup {e} /\ deletes < MaxDeletes /\ deletes' = deletes + 1

\* ValidateDelete accepts everything.  The Service stays for a while.
DeleteEgress(e) ==
    /\ cluster[e].destinations # None
    /\ cluster' = [cluster EXCEPT ![e] =
                      [destinations |-> None, svc |-> IF @.svc = "own" THEN "old" ELSE @.svc]]
    /\ Delete(e)
    /\ UNCHANGED <<pod, netns, att, result, faults>>

\* A user deletes a Service, or the garbage collector an old one, although
\* there may be an Egress of the same name again.
DeleteService(e) ==
    /\ \/ cluster[e].svc = "own" /\ Delete(e)
       \/ cluster[e].svc = "old" /\ UNCHANGED <<lost, deletes>>
    /\ cluster' = [cluster EXCEPT ![e].svc = "none"]
    /\ UNCHANGED <<pod, netns, att, result, faults>>

-----------------------------------------------------------------------------
\* getGWNets.

\* The names in the annotations, in the order of one iteration over the map.
EgNames == {FlattenSeq(s) : s \in SetToSeqs(pod.annotations)}

\* The elements of s that are in S: what a loop with an append makes of s.
Keep(s, S) ==
    LET kept[i \in 0..Len(s)] ==
          IF i = 0 THEN <<>>
          ELSE IF s[i] \in S THEN Append(kept[i - 1], s[i]) ELSE kept[i - 1]
    IN  kept[Len(s)]

\* The networks of each family.
NetsOf == [f \in Families |-> {n \in Nets : Family[n.ip] = f}]

\* The destinations of the family of the gateway.
Networks(e) == Keep(cluster[e].destinations, NetsOf[Gateway[e]])

\* The gateways that have any, with their networks.
GWNets(names) ==
    LET some == Keep(names, {e \in Named : Networks(e) # <<>>})
    IN  [i \in DOMAIN some |-> [gw |-> some[i], nets |-> Networks(some[i])]]

\* Get finds every Egress and a Service of the same name.
Present == \A e \in Named : cluster[e].destinations # None /\ cluster[e].svc # "none"

\* The destinations can be parsed.
Ready ==
    /\ Present
    /\ \A e \in Named : \A n \in ToSet(cluster[e].destinations) : ParseCIDR(n)

\* The handler returns.  Nobody waits for the result of a late one.
Return(r) ==
    /\ att' = NoAttempt
    /\ result' = IF att.late THEN result ELSE r

Starting == att = NoAttempt /\ result # "ok"

\* The Gets are one step: a pod whose Egress changed between two of them is
\* one whose Egress has changed since.
Read(kept) ==
    /\ lost' = kept \cup {e \in Named : cluster[e].svc = "old"}
    /\ UNCHANGED <<cluster, deletes>>

\* A pod in the host network or without an annotation, and one whose
\* gateways have no network, has nothing to set up: NatClient.Init, which would
\* clear what an earlier attempt left, is not called.
AddNothing ==
    /\ Starting
    /\ \/ pod.hostNetwork
       \/ Ready /\ \E names \in EgNames : GWNets(names) = <<>>
    /\ Read(IF routes = EmptyRoutes THEN {} ELSE lost)
    /\ Return("ok")
    /\ UNCHANGED <<pod, netns, faults>>

\* An Egress or its Service is missing or cannot be used.
AddRefused ==
    /\ Starting
    /\ ~ pod.hostNetwork
    /\ ~ Ready
    /\ Return("error")
    /\ UNCHANGED <<pod, api, netns, faults>>

Add ==
    /\ Starting
    /\ ~ pod.hostNetwork
    /\ Ready
    /\ \E names \in EgNames :
         /\ GWNets(names) # <<>>
         /\ att' = [NoAttempt EXCEPT !.pc = "fou", !.g = GWNets(names)]
    /\ Read({})
    /\ result' = "none"
    /\ UNCHANGED <<pod, netns, faults>>

-----------------------------------------------------------------------------
\* parseConfig: the families of the addresses of the pod.
local == {a.family : a \in {b \in pod.prevResult : b.sandbox}}

\* setupEgressGW: FoUTunnel.Init.  An Init that failed half-way in this
\* network namespace fails again (module GatewayStart has its steps).

\* NatClient.Init works on the families of the pod, IPv4 first.
Clear(fams) ==
    IF fams = {} THEN [att EXCEPT !.pc = "peer"]
    ELSE [att EXCEPT !.pc = "clear", !.fam = IF 4 \in fams THEN 4 ELSE 6, !.i = 1]

FouInit ==
    /\ att.pc = "fou"
    /\ fou # "partial"
    /\ fou' = "done"
    /\ att' = Clear(local)
    /\ UNCHANGED <<pod, api, links, rules, routes, result, faults>>

FouInitFails ==
    /\ att.pc = "fou"
    /\ fou = "partial"
    /\ Return("error")
    /\ UNCHANGED <<pod, api, netns, faults>>

-----------------------------------------------------------------------------
\* NatClient.Init.

Rule(prio, dst, table) == [prio |-> prio, dst |-> dst, table |-> table]

Of(f) == {a \in Addrs : Family[a] = f}

\* Mutant: the private networks come first.
NewRulesLocalFirst(f) ==
    << Rule(1800, LinkLocal \cap Of(f), "main"), Rule(1900 + Len(Private[f]), Of(f), "narrow") >>
    \o [i \in DOMAIN Private[f] |-> Rule(1900 + i - 1, Private[f][i], "main")]
    \o << Rule(2100, Of(f), "wide") >>

\* The rules of a family, in the order in which Init adds them.
NewRules(f) ==
    << Rule(1800, LinkLocal \cap Of(f), "main"), Rule(1900, Of(f), "narrow") >>
    \o [i \in DOMAIN Private[f] |-> Rule(2000 + i - 1, Private[f][i], "main")]
    \o << Rule(2100, Of(f), "wide") >>

\* clear: RuleDel for each rule, in the order of the priorities.
ClearRule ==
    /\ att.pc = "clear"
    /\ \E r \in rules[att.fam] :
         /\ \A q \in rules[att.fam] : r.prio <= q.prio
         /\ rules' = [rules EXCEPT ![att.fam] = @ \ {r}]
    /\ UNCHANGED <<pod, api, fou, links, routes, att, result, faults>>

\* RouteDel for each route, of table 117 and then of table 118.
ClearRoute ==
    /\ att.pc = "clear"
    /\ rules[att.fam] = {}
    /\ \E t \in Tables :
         /\ t = "wide" => routes[<<att.fam, "narrow">>] = {}
         /\ \E r \in routes[<<att.fam, t>>] :
               routes' = [routes EXCEPT ![<<att.fam, t>>] = @ \ {r}]
    /\ UNCHANGED <<pod, api, fou, links, rules, att, result, faults>>

Cleared ==
    /\ att.pc = "clear"
    /\ rules[att.fam] = {}
    /\ \A t \in Tables : routes[<<att.fam, t>>] = {}
    /\ att' = [att EXCEPT !.pc = "rule"]
    /\ UNCHANGED <<pod, api, netns, result, faults>>

RuleAdd ==
    /\ att.pc = "rule"
    /\ rules' = [rules EXCEPT ![att.fam] = @ \cup {NewRules(att.fam)[att.i]}]
    /\ att' = IF att.i < Len(NewRules(att.fam)) THEN [att EXCEPT !.i = @ + 1]
              ELSE Clear({f \in local : f > att.fam})
    /\ UNCHANGED <<pod, api, fou, links, routes, result, faults>>

-----------------------------------------------------------------------------
\* The loop over the gateways: AddPeer and AddEgress.

\* Mutant: ErrIPFamilyMismatch is an error as any other.
SkipGatewayFails ==
    /\ att.pc = "peer"
    /\ att.g # <<>>
    /\ Gateway[Head(att.g).gw] \notin local
    /\ Return("error")
    /\ UNCHANGED <<pod, api, netns, faults>>

\* ErrIPFamilyMismatch is ignored.
SkipGateway ==
    /\ att.pc = "peer"
    /\ att.g # <<>>
    /\ Gateway[Head(att.g).gw] \notin local
    /\ att' = [att EXCEPT !.g = Tail(@)]
    /\ UNCHANGED <<pod, api, netns, result, faults>>

\* A link that exists is used again.
AddPeer ==
    /\ att.pc = "peer"
    /\ att.g # <<>>
    /\ Gateway[Head(att.g).gw] \in local
    /\ links' = links \cup {Head(att.g).gw}
    /\ att' = [att EXCEPT !.pc = "route", !.i = 1]
    /\ UNCHANGED <<pod, api, fou, rules, routes, result, faults>>

\* The table for a destination: narrow when a private network contains the
\* network's address.
Table(n) ==
    IF \E i \in DOMAIN Private[Family[n.ip]] : n.ip \in Private[Family[n.ip]][i]
    THEN "narrow" ELSE "wide"

\* addEgress1 for the next destination of the gateway.
Destination == Head(att.g).nets[att.i]
Key         == <<Family[Destination.ip], Table(Destination)>>

RouteAdd ==
    /\ att.pc = "route"
    /\ \A r \in routes[Key] : r.dst # Destination.addrs
    /\ routes' = [routes EXCEPT ![Key] =
                     @ \cup {[dst |-> Destination.addrs, gw |-> Head(att.g).gw]}]
    /\ att' = IF att.i < Len(Head(att.g).nets) THEN [att EXCEPT !.i = @ + 1]
              ELSE [att EXCEPT !.pc = "peer", !.g = Tail(@)]
    /\ UNCHANGED <<pod, api, fou, links, rules, result, faults>>

\* The table has a route for the same network: EEXIST.
RouteExists ==
    /\ att.pc = "route"
    /\ \E r \in routes[Key] : r.dst = Destination.addrs
    /\ Return("error")
    /\ UNCHANGED <<pod, api, netns, faults>>

AddDone ==
    /\ att.pc = "peer"
    /\ att.g = <<>>
    /\ Return("ok")
    /\ UNCHANGED <<pod, api, netns, faults>>

-----------------------------------------------------------------------------
\* A call of the attempt fails, reading the pod first of all, or the agent is
\* killed.  FoUTunnel.Init may have done some of its work.
Fail ==
    /\ att # NoAttempt \/ Starting
    /\ faults < MaxFaults
    /\ faults' = faults + 1
    /\ Return("error")
    /\ \/ att.pc = "fou" /\ fou = "none" /\ fou' = "partial"
       \/ UNCHANGED fou
    /\ UNCHANGED <<pod, api, links, rules, routes>>

\* rpcTimeout: cmdAdd returns an error while the handler goes on.
Timeout ==
    /\ att # NoAttempt
    /\ ~ att.late
    /\ faults < MaxFaults
    /\ faults' = faults + 1
    /\ att' = [att EXCEPT !.late = TRUE]
    /\ result' = "error"
    /\ UNCHANGED <<pod, api, netns>>

\* The runtime gives the pod a new sandbox after a failed ADD.  A late handler
\* may still work in the old network namespace, which nobody uses any more.
\* (Del and Check of the agent do nothing.)
NewSandbox ==
    /\ result = "error"
    /\ att' = NoAttempt
    /\ fou' = "none"
    /\ links' = {}
    /\ rules' = EmptyRules
    /\ routes' = EmptyRoutes
    /\ result' = "none"
    /\ UNCHANGED <<pod, api, faults>>

Agent ==
    \/ FouInit \/ FouInitFails
    \/ ClearRule \/ ClearRoute \/ Cleared \/ RuleAdd
    \/ SkipGateway \/ AddPeer \/ RouteAdd \/ RouteExists \/ AddDone

Next ==
    \/ \E e \in Named : \E ds \in Offers[e] : CreateEgress(e, ds) \/ UpdateEgress(e, ds)
    \/ \E e \in Named : CreateService(e) \/ DeleteEgress(e) \/ DeleteService(e)
    \/ AddNothing \/ AddRefused \/ Add
    \/ Agent
    \/ Fail \/ Timeout \/ NewSandbox

Spec == Init /\ [][Next]_vars

\* The agent runs, and the kubelet creates a new sandbox and calls ADD again
\* as long as ADD fails.
FairSpec ==
    /\ Spec
    /\ WF_vars(Agent)
    /\ WF_vars(AddNothing \/ Add)
    /\ SF_vars(NewSandbox)

-----------------------------------------------------------------------------
(***************************************************************************)
(* Properties.                                                             *)
(***************************************************************************)

\* Where the kernel sends a packet: the first rule for its address with a
\* table that has a route decides, and in a table the most specific route.
Matching(a, t) == {r \in routes[<<Family[a], t>>] : a \in r.dst}

Applicable(a) ==
    {r \in rules[Family[a]] : a \in r.dst /\ (r.table # "main" => Matching(a, r.table) # {})}

Lookup(a) ==
    IF Applicable(a) = {} THEN "main"
    ELSE LET first == CHOOSE r \in Applicable(a) : \A q \in Applicable(a) : r.prio <= q.prio
         IN  IF first.table = "main" THEN "main"
             ELSE (CHOOSE r \in Matching(a, first.table) :
                     \A q \in Matching(a, first.table) : r.dst \subseteq q.dst).gw

\* What the pod asked for, without tables and priorities: a gateway takes the
\* packets to its destinations if the pod has an address of its family;
\* link-local addresses are nobody's, and a private one only belongs to a
\* destination that begins in a private network; such destinations go before
\* the others, and among equals the most specific one counts.  (This is the most
\* specific of all, unless a destination is larger than the private network that
\* it begins in.)
Asked == {e \in Named : ~ pod.hostNetwork /\ Gateway[e] \in local}

IsPrivate(a) == \E i \in DOMAIN Private[Family[a]] : a \in Private[Family[a]][i]

Claims(a) ==
    {c \in UNION {{[gw |-> e, net |-> n] : n \in ToSet(Networks(e))} : e \in Asked} :
        /\ a \in c.net.addrs \ LinkLocal
        /\ IsPrivate(a) => IsPrivate(c.net.ip)}

Preferred(a) ==
    LET private == {c \in Claims(a) : IsPrivate(c.net.ip)}
    IN  IF private # {} THEN private ELSE Claims(a)

Wanted(a) ==
    IF Claims(a) = {} THEN {"main"}
    ELSE {c.gw : c \in {d \in Preferred(a) :
                           \A q \in Preferred(a) : d.net.addrs \subseteq q.net.addrs}}

\* After an ADD that succeeded every packet goes where the pod's Egresses say,
\* for as long as they are the ones that ADD read: in whichever order they
\* came, whatever earlier attempts, failed or late, left in the network
\* namespace, and although nobody updates the routes of a pod that runs
\* (setupEgressGW, NatClient.Init, NatClient.AddEgress, validateUpdate).
Routed == result = "ok" /\ lost = {} => \A a \in Addrs : Lookup(a) \in Wanted(a)

\* No two gateways, and no gateway twice, claim the same network.
NoDuplicates ==
    \A s \in EgNames : \A i, j \in DOMAIN s :
        s[i] \in Asked /\ s[j] \in Asked =>
            \A k \in DOMAIN Networks(s[i]), l \in DOMAIN Networks(s[j]) :
                Networks(s[i])[k].addrs = Networks(s[j])[l].addrs => i = j /\ k = l

\* A pod gets its network: once the Egresses that it names and their Services
\* are there for good, some ADD succeeds, unless two of the networks are equal
\* (RouteAdd then refuses the second one in every attempt).  That the agent
\* can use what it finds there is up to the webhook.
EventuallySetUp == <>[](Present /\ (Ready => NoDuplicates)) => <>(result = "ok")

-----------------------------------------------------------------------------
(***************************************************************************)
(* The inductive invariant behind Routed.                                  *)
(***************************************************************************)
Destinations == UNION {Offers[e] : e \in Egress}

RuleRecs  == [prio : Nat, dst : SUBSET Addrs, table : Tables \cup {"main"}]
RouteRecs == [dst : SUBSET Addrs, gw : Egress]
GWNetsRecs == [gw : Egress, nets : Seq(Nets)]

\* Every variable has its type.
TypeOK ==
    /\ pod \in Pods
    /\ cluster \in [Egress -> [destinations : Destinations \cup {None},
                               svc : {"none", "own", "old"}]]
    /\ lost \subseteq Egress
    /\ deletes \in Nat
    /\ fou \in {"none", "partial", "done"}
    /\ links \subseteq Egress
    /\ rules \in [Families -> SUBSET RuleRecs]
    /\ routes \in [Families \X Tables -> SUBSET RouteRecs]
    /\ att \in [pc : {"none", "fou", "clear", "rule", "peer", "route"},
                g : Seq(GWNetsRecs), fam : Families, i : Nat, late : BOOLEAN]
    /\ result \in {"none", "ok", "error"}
    /\ faults \in Nat

\* An attempt is made for a pod with a network of its own, before ADD has
\* succeeded, and is at a rule or a destination that there is.
AttemptOK ==
    /\ att.pc = "none" => att = NoAttempt
    /\ att.pc # "none" => result # "ok" /\ ~ pod.hostNetwork
    /\ att.pc \in {"clear", "rule"} => att.fam \in local
    /\ att.pc = "clear" => att.i = 1
    /\ att.pc = "rule" => att.i \in DOMAIN NewRules(att.fam)
    /\ att.pc = "route" => /\ att.g # <<>>
                           /\ Gateway[Head(att.g).gw] \in local
                           /\ att.i \in DOMAIN Head(att.g).nets
    /\ \A j \in DOMAIN att.g :
          /\ att.g[j].nets # <<>>
          /\ \A k \in DOMAIN att.g[j].nets : Family[att.g[j].nets[k].ip] = Gateway[att.g[j].gw]

\* The families whose rules the attempt has made.
Made == {f \in local : \/ att.pc \in {"peer", "route"}
                       \/ att.pc \in {"clear", "rule"} /\ f < att.fam}

NoRoutes(f) == \A t \in Tables : routes[<<f, t>>] = {}

\* The network namespace has nothing of a family that the pod does not have,
\* all rules of the families that the attempt is done with, and before the
\* loop over the gateways no routes of them.
NetnsOK ==
    /\ \A f \in Families \ local : rules[f] = {} /\ NoRoutes(f)
    /\ pod.hostNetwork => routes = EmptyRoutes
    /\ \A f \in Made : rules[f] = ToSet(NewRules(f))
    /\ att.pc = "rule" => rules[att.fam] = {NewRules(att.fam)[j] : j \in 1..(att.i - 1)}
    /\ att.pc \in {"clear", "rule"} => \A f \in Made : NoRoutes(f)
    /\ att.pc = "rule" => NoRoutes(att.fam)

\* What the pod has asked for, as pairs of a gateway and a network.
Demand == UNION {{<<e, n>> : n \in ToSet(Networks(e))} : e \in Asked}

Route(d) == [dst |-> d[2].addrs, gw |-> d[1]]
KeyOf(d) == <<Family[d[2].ip], Table(d[2])>>

\* No route without a demand.
Sound ==
    \A k \in Families \X Tables : \A r \in routes[k] :
        \E d \in Demand : k = KeyOf(d) /\ r = Route(d)

IsRouted(d) == Route(d) \in routes[KeyOf(d)]

\* The attempt has still to come to d.
Pending(d) ==
    \E j \in DOMAIN att.g : \E k \in DOMAIN att.g[j].nets :
        /\ d = <<att.g[j].gw, att.g[j].nets[k]>>
        /\ att.pc = "route" /\ j = 1 => k >= att.i

\* As long as the Egresses are the ones that were read: the attempt works
\* with their networks, and every demand is pending until it is routed.  Routes
\* that are left over are of a pod that has Egresses with networks, so
\* that its next attempt begins with NatClient.Init.
FreshOK ==
    lost = {} =>
        /\ routes # EmptyRoutes \/ att.pc # "none" =>
              /\ \A e \in Named : cluster[e].destinations # None
              /\ \E e \in Named : Networks(e) # <<>>
        /\ att.pc # "none" => \A j \in DOMAIN att.g :
              att.g[j].gw \in Named /\ att.g[j].nets = Networks(att.g[j].gw)
        /\ att.pc \in {"fou", "clear", "rule"} => \A d \in Demand : Pending(d)
        /\ att.pc \in {"peer", "route"} => Sound /\ \A d \in Demand : IsRouted(d) \/ Pending(d)
        /\ result = "ok" =>
              /\ \A e \in Asked : cluster[e].destinations # None
              /\ Sound /\ \A d \in Demand : IsRouted(d)
              /\ routes = EmptyRoutes \/ \A f \in local : rules[f] = ToSet(NewRules(f))

ClientInv == TypeOK /\ AttemptOK /\ NetnsOK /\ FreshOK

=============================================================================
