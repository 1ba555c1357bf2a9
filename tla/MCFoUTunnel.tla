---------------------------- MODULE MCFoUTunnel ----------------------------
(***************************************************************************)
(* Instances of FoUTunnel for TLC.                                         *)
(***************************************************************************)
EXTENDS FoUTunnel, TLC

CONSTANTS a1, a2, b1, b2    \* IPv4 and IPv6 addresses, as model values

TwoIPv4 == {a1, a2}
TwoIPv6 == {b1, b2}

Dual   == {4, 6}
OnlyV6 == {6}

DistinctNames == [ip \in TwoIPv4 \cup TwoIPv6 |-> <<"fou", ip>>]

=============================================================================
