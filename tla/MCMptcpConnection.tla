-------------------------- MODULE MCMptcpConnection --------------------------
(* A fast and a slow interface for MptcpConnection. *)
EXTENDS MptcpConnection

CONSTANTS wifi, lte

MCInterfaces == {wifi, lte}
MCBandwidth == (wifi :> 5) @@ (lte :> 3)
MCRTT == (wifi :> 420) @@ (lte :> 840)
MCPaths == {<<wifi, lte>>}

=============================================================================
