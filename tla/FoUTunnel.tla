----------------------------- MODULE FoUTunnel -----------------------------
(***************************************************************************)
(* AddPeer and DelPeer of pkg/founat/fou.go, one netlink call at a time.   *)
(*                                                                         *)
(* A tunnel is a link whose name is computed from the peer's address: for  *)
(* IPv4 from all of it, for IPv6 from 32 bits of its hash.  Creating a     *)
(* tunnel also creates, once per network namespace, a device of its family *)
(* that receives the tunnelled packets (egress_ipip4, egress_ipip6), and   *)
(* renames the fallback device that the kernel may create with the first   *)
(* link of a family (tunl0, ip6tnl0).                                      *)
(*                                                                         *)
(* One call runs at a time: AddPeer takes a mutex, and both callers (the   *)
(* pod watcher under its own mutex, the agent in the network namespace of  *)
(* a new pod) make one call after the other.  A call may fail or be killed *)
(* before any of its netlink calls.  Not every failing netlink call fails  *)
(* AddPeer: when the device to be renamed or removed cannot be looked up,  *)
(* for whatever reason, it is taken to be missing.                         *)
(***************************************************************************)
EXTENDS Naturals, FiniteSets

CONSTANTS
    IPs4, IPs6,     \* peers by family
    NoIP,           \* no peer
    fouName,        \* [IPs -> names]: the name of a peer's link
    Local,          \* the families with a local address: a subset of {4, 6}
    MaxFaults       \* how many netlink calls fail in a behaviour

IPs == IPs4 \cup IPs6

Families == {4, 6}

ASSUME IPAssumption ==
    /\ IPs4 \cap IPs6 = {}
    /\ NoIP \notin IPs

\* The two families have different prefixes, and IPv4 names are exact.
ASSUME NameAssumption ==
    \A a, b \in IPs : fouName[a] = fouName[b] =>
        (a \in IPs4 <=> b \in IPs4) /\ (a \in IPs4 => a = b)

ASSUME LocalAssumption == Local \subseteq Families /\ MaxFaults \in Nat

VARIABLES
    link,      \* name -> the remote address of the link of that name
    device,    \* family -> the device egress_ipip4 or egress_ipip6
    fallback,  \* family -> the device tunl0 or ip6tnl0
    call,      \* the call in progress: [op, ip, pc]
    ret,       \* the remote address of the link returned by the last call
    err,       \* the error returned by the last call
    faults,    \* failures so far
    missed     \* history: the steps of the last call that a failed lookup skipped

kernel == <<link, device, fallback>>
budget == <<faults, missed>>
vars   == <<kernel, call, ret, err, budget>>

Names == {fouName[ip] : ip \in IPs}

family(ip) == IF ip \in IPs4 THEN 4 ELSE 6

other(f) == IF f = 4 THEN 6 ELSE 4

Supported == {ip \in IPs : family(ip) \in Local}

Idle == [op |-> "none", ip |-> NoIP, pc |-> "none"]

Init ==
    /\ link = [n \in Names |-> NoIP]
    /\ device = [f \in Families |-> "none"]
    /\ fallback = [f \in Families |-> "none"]
    /\ call = Idle
    /\ ret = NoIP
    /\ err = "none"
    /\ faults = 0
    /\ missed = {}

Call(op, ip) ==
    /\ call = Idle
    /\ call' = [op |-> op, ip |-> ip, pc |-> "LinkByName"]
    /\ ret' = NoIP
    /\ err' = "none"
    /\ missed' = {}
    /\ UNCHANGED <<kernel, faults>>

At(op, pc) == call.op = op /\ call.pc = pc

Return(ip, e) == call' = Idle /\ ret' = ip /\ err' = e /\ UNCHANGED budget

\* The steps of addPeer4 and addPeer6 after LinkByName, with setupIPIPDevices
\* (true, false) and (false, true): the family's own device first for IPv4,
\* the removal of the other family's device first for IPv6.
Steps(f) ==
    IF f = 4
    THEN <<"LinkAdd", "create", "configure", "rename", "remove", "return">>
    ELSE <<"LinkAdd", "remove", "create", "configure", "rename", "return">>

Goto(pc) == call' = [call EXCEPT !.pc = pc] /\ UNCHANGED <<ret, err>>

Proceed == \E i \in 1..5 :
    /\ call.pc = Steps(family(call.ip))[i]
    /\ Goto(Steps(family(call.ip))[i + 1])

-----------------------------------------------------------------------------
\* AddPeer.

FamilyMismatch ==
    /\ At("AddPeer", "LinkByName")
    /\ call.ip \notin Supported
    /\ Return(NoIP, "ErrIPFamilyMismatch")
    /\ UNCHANGED kernel

Exists(ip) == link[fouName[ip]] # NoIP

\* A link of that name exists and is returned.
ReturnExisting ==
    /\ At("AddPeer", "LinkByName")
    /\ call.ip \in Supported
    /\ Exists(call.ip)
    /\ Return(link[fouName[call.ip]], "none")
    /\ UNCHANGED kernel

NotFound ==
    /\ At("AddPeer", "LinkByName")
    /\ call.ip \in Supported
    /\ ~ Exists(call.ip)
    /\ Goto("LinkAdd")
    /\ UNCHANGED <<kernel, budget>>

\* The first link of a family may load a kernel module that creates the
\* family's fallback device, unless the host disables it.
LinkAdd ==
    /\ At("AddPeer", "LinkAdd")
    /\ link' = [link EXCEPT ![fouName[call.ip]] = call.ip]
    /\ \/ UNCHANGED fallback
       \/ /\ fallback[family(call.ip)] = "none"
          /\ fallback' = [fallback EXCEPT ![family(call.ip)] = "present"]
    /\ Proceed
    /\ UNCHANGED <<device, budget>>

\* setupDevice: an existing device is used again.
CreateDevice ==
    /\ At("AddPeer", "create")
    /\ device' = [device EXCEPT ![family(call.ip)] = IF @ = "none" THEN "down" ELSE @]
    /\ Proceed
    /\ UNCHANGED <<link, fallback, budget>>

\* LinkByName fails for another reason than a missing device.  renameDevice and
\* removeDevice do not tell the two apart: they do nothing and return no error.
LookupFails ==
    /\ faults < MaxFaults
    /\ faults' = faults + 1
    /\ missed' = missed \cup {call.pc}

\* Mutant: when the device cannot be set up, this is not returned either.
configureDeviceOrNot ==
    /\ At("AddPeer", "configure")
    /\ \/ /\ device' = [device EXCEPT ![family(call.ip)] = "up"]
          /\ UNCHANGED budget
       \/ LookupFails /\ UNCHANGED device
    /\ Proceed
    /\ UNCHANGED <<link, fallback>>

configureDevice ==
    /\ At("AddPeer", "configure")
    /\ device' = [device EXCEPT ![family(call.ip)] = "up"]
    /\ Proceed
    /\ UNCHANGED <<link, fallback, budget>>

renameDevice ==
    /\ At("AddPeer", "rename")
    /\ \/ /\ fallback' = [fallback EXCEPT ![family(call.ip)] =
                             IF @ = "present" THEN "renamed" ELSE @]
          /\ UNCHANGED budget
       \/ LookupFails /\ UNCHANGED fallback
    /\ Proceed
    /\ UNCHANGED <<link, device>>

removeDevice ==
    /\ At("AddPeer", "remove")
    /\ \/ /\ device' = [device EXCEPT ![other(family(call.ip))] = "none"]
          /\ UNCHANGED budget
       \/ LookupFails /\ UNCHANGED device
    /\ Proceed
    /\ UNCHANGED <<link, fallback>>

ReturnNew ==
    /\ At("AddPeer", "return")
    /\ Return(link[fouName[call.ip]], "none")
    /\ UNCHANGED kernel

-----------------------------------------------------------------------------
\* Mutant: the link is looked up and not deleted.
DelPeerNot ==
    /\ At("DelPeer", "LinkByName")
    /\ Return(NoIP, "none")
    /\ UNCHANGED kernel

\* Mutant: the device of the family goes with the link.
DelPeerDropsDevice ==
    /\ At("DelPeer", "LinkByName")
    /\ link' = [link EXCEPT ![fouName[call.ip]] = NoIP]
    /\ device' = [device EXCEPT ![family(call.ip)] = "none"]
    /\ Return(NoIP, "none")
    /\ UNCHANGED fallback

\* LinkByName and LinkDel; a link that is not there is no error.
DelPeer ==
    /\ At("DelPeer", "LinkByName")
    /\ link' = [link EXCEPT ![fouName[call.ip]] = NoIP]
    /\ Return(NoIP, "none")
    /\ UNCHANGED <<device, fallback>>

\* Any other netlink call fails, or the process is killed: nothing is undone.
Fail ==
    /\ call # Idle
    /\ faults < MaxFaults
    /\ faults' = faults + 1
    /\ call' = Idle
    /\ err' = "failed"
    /\ UNCHANGED <<kernel, ret, missed>>

Next ==
    \/ \E ip \in IPs : Call("AddPeer", ip) \/ Call("DelPeer", ip)
    \/ FamilyMismatch \/ ReturnExisting \/ NotFound \/ LinkAdd
    \/ CreateDevice \/ configureDevice \/ renameDevice \/ removeDevice \/ ReturnNew
    \/ DelPeer
    \/ Fail

Spec == Init /\ [][Next]_vars

-----------------------------------------------------------------------------
(***************************************************************************)
(* Properties.                                                             *)
(***************************************************************************)

\* Every variable has its type.
TypeOK ==
    /\ link \in [Names -> IPs \cup {NoIP}]
    /\ device \in [Families -> {"none", "down", "up"}]
    /\ fallback \in [Families -> {"none", "present", "renamed"}]
    /\ call \in [op : {"none", "AddPeer", "DelPeer"}, ip : IPs \cup {NoIP},
                 pc : {"none", "LinkByName"} \cup
                      {"LinkAdd", "create", "configure", "rename", "remove", "return"}]
    /\ ret \in IPs \cup {NoIP}
    /\ err \in {"none", "ErrIPFamilyMismatch", "failed"}
    /\ faults \in 0..MaxFaults
    /\ missed \subseteq {"rename", "remove"}

\* The module keeps the promises of the interface: a peer has a tunnel when
\* the link of its name leads to it.
Tunnel == INSTANCE Tunnels WITH
    conn  <- {ip \in IPs : link[fouName[ip]] = ip},
    asked <- [op |-> call.op, ip |-> call.ip]

\* Every step of AddPeer and DelPeer is a step that the interface allows, or
\* none: in particular, the link that AddPeer returns leads to the peer that
\* was asked for, and no call touches the tunnel of another peer.
ImplementsTunnels == Tunnel!Spec

\* Two peers do not have the same link name.
NamesInjective == \A a, b \in IPs : fouName[a] = fouName[b] => a = b

\* When AddPeer returns a link that it has created, the device of the link's
\* family is up, whatever failed before and in this call; and the fallback device
\* has been renamed, unless it could not be looked up in this call.
CreatedReady ==
    [][ReturnNew => /\ device[family(call.ip)] = "up"
                    /\ \/ fallback[family(call.ip)] # "present"
                       \/ "rename" \in missed]_vars

\* Between two calls, the family of every tunnel has its device, up, and no
\* fallback device under the kernel's name.
DevicePerFamily ==
    call = Idle => \A ip \in IPs : link[fouName[ip]] = ip =>
        device[family(ip)] = "up" /\ fallback[family(ip)] # "present"

\* What is left of that for a network namespace of one family: as long as no
\* netlink call has failed, every tunnel has its device between two calls, up,
\* and no fallback device under the kernel's name, whichever peers came and went.
SingleStackReady == (\A f, g \in Local : f = g) /\ faults = 0 => DevicePerFamily

-----------------------------------------------------------------------------
(***************************************************************************)
(* The inductive invariants of the proofs in FoUTunnelProofs.              *)
(***************************************************************************)

\* A link leads to the one peer of its name, and a call that is past LinkAdd
\* has the link of its peer.
TunnelInv ==
    /\ TypeOK
    /\ \A ip \in IPs : link[fouName[ip]] \in {NoIP, ip}
    /\ call.op = "none" => call = Idle
    /\ call.op # "none" => call.ip \in IPs /\ call.pc # "none" /\ ret = NoIP /\ err = "none"
    /\ call.op = "DelPeer" => call.pc = "LinkByName"
    /\ call.op = "AddPeer" /\ call.pc # "LinkByName" => call.ip \in Supported
    /\ call.op = "AddPeer" /\ call.pc \notin {"LinkByName", "LinkAdd"} =>
          link[fouName[call.ip]] = call.ip

\* A call in progress has a peer.
CallInv == TypeOK /\ (call.op # "none" => call.ip \in IPs)

\* A call of AddPeer that is past configureDevice has its device, also when
\* the removal of the other family's device comes last, and one that is past
\* renameDevice has no fallback device under the kernel's name, unless the
\* lookup failed.
ReadyInv ==
    call.op = "AddPeer" =>
        LET f == family(call.ip)
        IN  /\ \/ call.pc \in {"rename", "return"}
               \/ f = 4 /\ call.pc = "remove"
               => device[f] = "up"
            /\ \/ call.pc = "return"
               \/ f = 4 /\ call.pc = "remove"
               => fallback[f] # "present" \/ "rename" \in missed

\* The family has its device and no fallback device under the kernel's name.
FamilyReady(f) == device[f] = "up" /\ fallback[f] # "present"

\* Links lead to peers of the families with a local address, and while nothing
\* has failed, the families that have links are ready unless a call is setting
\* up devices.
SingleInv ==
    /\ \A ip \in IPs : link[fouName[ip]] = ip => ip \in Supported
    /\ call.op = "AddPeer" /\ call.pc # "LinkByName" => call.ip \in Supported
    /\ missed # {} => faults > 0
    /\ faults = 0 /\ call.pc \in {"none", "LinkByName", "LinkAdd"} =>
          \A ip \in IPs : link[fouName[ip]] = ip => FamilyReady(family(ip))

=============================================================================
