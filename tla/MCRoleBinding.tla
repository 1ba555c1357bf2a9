--------------------------- MODULE MCRoleBinding ---------------------------
(***************************************************************************)
(* Three Egresses in two namespaces, and subjects that are leftovers of    *)
(* earlier Egresses or were written by hand.                               *)
(***************************************************************************)
EXTENDS RoleBinding, TLC

CONSTANTS e1, e2, e3

Names == {e1, e2, e3}
NamespaceOf == (e1 :> 1) @@ (e2 :> 2) @@ (e3 :> 2)
Bindings == {<<>>, <<2>>, <<2, 1>>}
=============================================================================
