------------------------- MODULE MCEgressController -------------------------
(***************************************************************************)
(* An Egress with two specifications, one with an optional part, one that *)
(* the webhook refuses, and two that only the API server does: a Recreate  *)
(* strategy with parameters, and a session affinity that is out of range.  *)
(***************************************************************************)
EXTENDS EgressController, TLC

CONSTANTS e1, opt, strategy, affinity

Names == {e1}
Namespaces == e1 :> 1
UnfitFor == ("Deployment" :> {Invalid, strategy}) @@ ("Service" :> {affinity})
SpecsOf == {[main |-> 1, opt |-> Unset], [main |-> 2, opt |-> opt],
            [main |-> 2, opt |-> Invalid], [main |-> 2, opt |-> strategy],
            [main |-> 1, opt |-> affinity]}
=============================================================================
