----------------------------- MODULE MCGateway -----------------------------
(***************************************************************************)
(* An IPv4 and an IPv6 address for two pods that may have both.            *)
(***************************************************************************)
EXTENDS Gateway, TLC

CONSTANTS p1, p2, a, b

TwoPods   == {p1, p2}
Addresses == {a, b}
FamilyOf  == (a :> 4) @@ (b :> 6)
Dual      == {4, 6}
\* Annotations change in the runs of PodWatcher.
ClientsOnly ==
    {[hostNetwork |-> FALSE, annotations |-> "internet" :> {"gw"}]}
KernelCalls == {"AddPeer", "AddClient", "DelPeer"}
=============================================================================
