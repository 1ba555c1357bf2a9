--------------------------- MODULE MCClientSetup ---------------------------
(***************************************************************************)
(* Pods that name up to three of five Egresses.  The IPv4 addresses are a  *)
(* link-local one, one in each of two private networks and two public      *)
(* ones; the IPv6 addresses a private and a public one.                    *)
(***************************************************************************)
EXTENDS ClientSetup

CONSTANTS ll, pa, pb, x, y, q, z

AllAddrs  == {ll, pa, pb, x, y, q, z}
V6        == {q, z}
FamilyOf  == [a \in AllAddrs |-> IF a \in V6 THEN 6 ELSE 4]
LinkLocals == {ll}
Privates  == (4 :> << {pa}, {pb} >>) @@ (6 :> << {q} >>)

Net(ip, addrs) == [ip |-> ip, addrs |-> addrs]
All4 == Net(x, AllAddrs \ V6)
All6 == Net(z, V6)

EgressNames == {"internet", "office", "vpn", "backup", "six"}

GatewayOf == [e \in EgressNames |-> IF e = "six" THEN 6 ELSE 4]

\* The office moves; somebody forgets the length of a prefix, and somebody takes
\* a network that is larger than the private one that it begins in.
OffersOf ==
       "internet" :> { << All4, All6 >> }
    @@ "office"   :> { << Net(pa, {pa}), Net(y, {y}) >>, << Net(pb, {pb}) >>,
                       << NotCIDR, Net(y, {y}) >> }
    @@ "vpn"      :> { << All6 >>, << All4 >> }
    @@ "backup"   :> { << All4 >>, << Net(pa, {pa, y}) >> }
    @@ "six"      :> { << All6, Net(q, {q}) >> }

\* The node's end of the pod's interface has an IPv6 address.
Pod(annotations, families) ==
    [hostNetwork |-> FALSE, annotations |-> annotations,
     prevResult |-> {[family |-> f, sandbox |-> TRUE] : f \in families}
                    \cup {[family |-> 6, sandbox |-> FALSE]}]

PodsToAdd ==
    { Pod({}, {4}),
      Pod({<<"vpn">>}, {4}),
      Pod({<<"internet">>, <<"office">>}, {4}),
      Pod({<<"internet", "office">>, <<"six">>}, {4}),
      Pod({<<"internet">>, <<"six">>}, {4, 6}),
      Pod({<<"internet">>, <<"backup">>}, {4}),
      Pod({<<"office", "backup">>}, {4}),
      Pod({<<"internet", "internet">>}, {4}),
      [Pod({<<"internet">>}, {4}) EXCEPT !.hostNetwork = TRUE] }
=============================================================================
