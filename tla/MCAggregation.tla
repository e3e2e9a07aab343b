--------------------------- MODULE MCAggregation ---------------------------
(* Small instances of Aggregation for TLC. *)
EXTENDS Aggregation, TLC

CONSTANTS r1, r2, e1, e2

\* Two events of two tenants on the same endpoint.
MCTenantOf == e1 :> <<"a">> @@ e2 :> <<"b">>
MCEndpointOf == e1 :> <<"GET /x">> @@ e2 :> <<"GET /x">>

\* A tenant whose id contains the separator, and the tenant that is its prefix.
MCPipedTenantOf == e1 :> <<"a">> @@ e2 :> <<"a", "b">>
=============================================================================
