------------------------------ MODULE MCAccess ------------------------------
(***************************************************************************)
(* The instance of McpRoutes that TLC checks: one declaration with two     *)
(* eras, a capability of the declaration's scope and one of the            *)
(* instance's, one client.                                                 *)
(***************************************************************************)
EXTENDS McpRoutes

MCScopes == {"scope"}
MCScopeOf == [c \in Capabilities \ Instance |-> "scope"]

\* One consent is on its way at a time, and tokens of the operator's own API
\* are issued while no client is registered.
Bounded ==
    /\ Cardinality(pending) + Cardinality(codes) <= 1
    /\ \A g \in GrantIds : grants[g] # None /\ grants[g].kind = "operator-api" =>
           \A c \in Clients : clients[c] = "none"
=============================================================================
