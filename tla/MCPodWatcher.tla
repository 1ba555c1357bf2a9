---------------------------- MODULE MCPodWatcher ----------------------------
(***************************************************************************)
(* Instances of PodWatcher for TLC.                                        *)
(***************************************************************************)
EXTENDS PodWatcher, TLC

\* Pods and addresses as model values.
CONSTANTS p1, p2, a1, a2, u1

TwoPods  == {p1, p2}

\* u1 is of a family that the gateway does not support.
OneIP    == {a1}
TwoIPs   == {a1, a2}
MixedIPs == {a1, u1}

\* A pod that uses this gateway and another one of the same namespace.
ClientSpec ==
    [hostNetwork |-> FALSE,
     annotations |-> ("internet" :> {"gw", "gw2"}) @@ ("other" :> {"gw"})]

\* A pod that uses the gateway of the same name of another namespace.
ElsewhereSpec == [hostNetwork |-> FALSE, annotations |-> ("other" :> {"gw"})]

\* A pod in the network of its node.
HostSpec == [hostNetwork |-> TRUE, annotations |-> ("internet" :> {"gw"})]

ClientsOnly == {ClientSpec}
AllSpecs    == {ClientSpec, ElsewhereSpec, HostSpec}

NotGet   == {"AddPeer", "AddClient", "DelPeer"}
DelCalls == {"DelPeer"}

\* Pods are interchangeable.
PodSymmetry == Permutations(Pods)

=============================================================================
