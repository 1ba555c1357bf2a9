---------------------------- MODULE GatewayStart ----------------------------
(***************************************************************************)
(* The start of an egress gateway: subMain of cmd/egress-gw/sub/run.go     *)
(* with FoUTunnel.Init (pkg/founat/fou.go) and Egress.Init                 *)
(* (pkg/founat/egress.go), in the network namespace of the gateway's pod.  *)
(*                                                                         *)
(* Each Init looks for a dummy link, configures the kernel for each family *)
(* that the gateway has an address of, IPv4 first, and creates the dummy   *)
(* link last.  The process may fail or be killed at any stage; the kubelet *)
(* restarts the container, and the network namespace keeps what was done.  *)
(***************************************************************************)
EXTENDS Naturals

CONSTANTS Local,        \* the families of POD_IPS: a subset of {4, 6}
          MaxCrashes    \* how often the process fails or is killed

Families == {4, 6}

\* POD_IPS holds an address: subMain refuses an empty one.
ASSUME LocalAssumption == Local \subseteq Families /\ Local # {}

ASSUME CrashAssumption == MaxCrashes \in Nat

VARIABLES
    stage,      \* what the process does next
    fam,        \* the family it does it for
    ports,      \* kernel: families with a FoU listening port
    forward,    \* kernel: families with forwarding enabled
    checksum,   \* kernel: family -> number of CHECKSUM rules
    masquerade, \* kernel: family -> number of MASQUERADE rules
    rules,      \* kernel: families with the rule for the egress table
    dummies,    \* kernel: the dummy links that exist
    crashes

kernel == <<ports, forward, checksum, masquerade, rules, dummies>>
vars   == <<stage, fam, kernel, crashes>>

first == IF 4 \in Local THEN 4 ELSE 6
last  == IF 6 \in Local THEN 6 ELSE 4

FouStages    == {"FouAdd", "sysctl", "Insert", "fou-dummy"}
EgressStages == {"Append", "RuleAdd", "egress-dummy"}
Stages       == {"down", "ft.Init", "eg.Init", "serving"} \cup FouStages \cup EgressStages

Init ==
    /\ stage = "down"
    /\ fam = first
    /\ ports = {}
    /\ forward = {}
    /\ checksum = [f \in Families |-> 0]
    /\ masquerade = [f \in Families |-> 0]
    /\ rules = {}
    /\ dummies = {}
    /\ crashes = 0

\* A count of rules; Many stands for any greater number, since a gateway that
\* cannot start appends a rule on every attempt.
Many == 2

more(n) == IF n < Many THEN n + 1 ELSE Many

Goto(s, f) == stage' = s /\ fam' = f /\ UNCHANGED crashes

-----------------------------------------------------------------------------
\* The kubelet starts the container.
Start ==
    /\ stage = "down"
    /\ Goto("ft.Init", first)
    /\ UNCHANGED kernel

\* Mutant: the dummy link is not looked up.
FouInitAlways ==
    /\ stage = "ft.Init"
    /\ Goto("FouAdd", first)
    /\ UNCHANGED kernel

\* FoUTunnel.Init: done already if its dummy link exists.
FouInit ==
    /\ stage = "ft.Init"
    /\ Goto(IF "fou-dummy" \in dummies THEN "eg.Init" ELSE "FouAdd", first)
    /\ UNCHANGED kernel

\* The port is not free if this was done before: FouAdd fails and subMain
\* returns the error.
FouAdd ==
    /\ stage = "FouAdd"
    /\ \/ fam \notin ports /\ ports' = ports \cup {fam} /\ Goto("sysctl", fam)
       \/ fam \in ports /\ UNCHANGED ports /\ Goto("down", first)
    /\ UNCHANGED <<forward, checksum, masquerade, rules, dummies>>

\* rp_filter and forwarding.
Sysctl ==
    /\ stage = "sysctl"
    /\ forward' = forward \cup {fam}
    /\ Goto("Insert", fam)
    /\ UNCHANGED <<ports, checksum, masquerade, rules, dummies>>

\* iptables inserts a rule that is there once more.
Insert ==
    /\ stage = "Insert"
    /\ checksum' = [checksum EXCEPT ![fam] = more(@)]
    /\ IF fam = last THEN Goto("fou-dummy", fam) ELSE Goto("FouAdd", last)
    /\ UNCHANGED <<ports, forward, masquerade, rules, dummies>>

FouDummy ==
    /\ stage = "fou-dummy"
    /\ dummies' = dummies \cup {"fou-dummy"}
    /\ Goto("eg.Init", first)
    /\ UNCHANGED <<ports, forward, checksum, masquerade, rules>>

\* Mutant: the other component's dummy link is looked up.
EgressInitOfFou ==
    /\ stage = "eg.Init"
    /\ Goto(IF "fou-dummy" \in dummies THEN "serving" ELSE "Append", first)
    /\ UNCHANGED kernel

\* Egress.Init: done already if its dummy link exists.  After it, subMain
\* sets up the pod watcher and starts the manager.
EgressInit ==
    /\ stage = "eg.Init"
    /\ Goto(IF "egress-dummy" \in dummies THEN "serving" ELSE "Append", first)
    /\ UNCHANGED kernel

Append ==
    /\ stage = "Append"
    /\ masquerade' = [masquerade EXCEPT ![fam] = more(@)]
    /\ Goto("RuleAdd", fam)
    /\ UNCHANGED <<ports, forward, checksum, rules, dummies>>

\* The kernel refuses a rule that exists.
RuleAdd ==
    /\ stage = "RuleAdd"
    /\ \/ /\ fam \notin rules
          /\ rules' = rules \cup {fam}
          /\ IF fam = last THEN Goto("egress-dummy", fam) ELSE Goto("Append", last)
       \/ fam \in rules /\ UNCHANGED rules /\ Goto("down", first)
    /\ UNCHANGED <<ports, forward, checksum, masquerade, dummies>>

EgressDummy ==
    /\ stage = "egress-dummy"
    /\ dummies' = dummies \cup {"egress-dummy"}
    /\ Goto("serving", first)
    /\ UNCHANGED <<ports, forward, checksum, masquerade, rules>>

\* A call fails or the process is killed.
Crash ==
    /\ stage # "down"
    /\ crashes < MaxCrashes
    /\ crashes' = crashes + 1
    /\ stage' = "down"
    /\ fam' = first
    /\ UNCHANGED kernel

Step ==
    \/ Start
    \/ FouInit \/ FouAdd \/ Sysctl \/ Insert \/ FouDummy
    \/ EgressInit \/ Append \/ RuleAdd \/ EgressDummy

\* A gateway that serves has nothing left to start.
Serve == stage = "serving" /\ UNCHANGED vars

Next == Step \/ Crash \/ Serve

Spec == Init /\ [][Next]_vars

\* The process runs, and the kubelet restarts a container that exits.
FairSpec == Spec /\ WF_vars(Step)

-----------------------------------------------------------------------------
(***************************************************************************)
(* Properties.                                                             *)
(***************************************************************************)

\* Every variable has its type.
TypeOK ==
    /\ stage \in Stages
    /\ fam \in Local
    /\ ports \subseteq Families
    /\ forward \subseteq Families
    /\ checksum \in [Families -> 0..Many]
    /\ masquerade \in [Families -> 0..Many]
    /\ rules \subseteq Families
    /\ dummies \subseteq {"fou-dummy", "egress-dummy"}
    /\ crashes \in 0..MaxCrashes

\* A gateway that serves has all its kernel configuration for each of its
\* families, however many attempts it took, though each Init is skipped on
\* the sight of one link.
ServingConfigured ==
    stage = "serving" => \A f \in Local :
        f \in ports /\ f \in forward /\ checksum[f] > 0 /\ masquerade[f] > 0 /\ f \in rules

\* A gateway whose two dummy links exist serves again after a restart.
ConfiguredRecovers ==
    dummies = {"fou-dummy", "egress-dummy"} ~> stage = "serving"

\* A gateway serves again after any restart.
Recovers == []<>(stage = "serving")

-----------------------------------------------------------------------------
(***************************************************************************)
(* The inductive invariant, proved in GatewayStartProofs.                  *)
(***************************************************************************)

\* The families before fam are configured, fam as far as the stage says, and
\* all of them once the dummy link exists.
FouDone(f)    == f \in ports /\ f \in forward /\ checksum[f] > 0
EgressDone(f) == masquerade[f] > 0 /\ f \in rules

StartInv ==
    /\ TypeOK
    /\ "fou-dummy" \in dummies => \A f \in Local : FouDone(f)
    /\ "egress-dummy" \in dummies => \A f \in Local : EgressDone(f)
    /\ stage \in {"sysctl", "Insert"} => fam \in ports
    /\ stage = "Insert" => fam \in forward
    /\ stage \in FouStages /\ fam # first => FouDone(first)
    /\ stage = "fou-dummy" => FouDone(fam) /\ fam = last
    /\ stage \in EgressStages \cup {"eg.Init", "serving"} => "fou-dummy" \in dummies
    /\ stage = "RuleAdd" => masquerade[fam] > 0
    /\ stage \in EgressStages /\ fam # first => EgressDone(first)
    /\ stage = "egress-dummy" => EgressDone(fam) /\ fam = last
    /\ stage = "serving" => "egress-dummy" \in dummies

=============================================================================
