------------------------------- MODULE MCMesh -------------------------------
(* One client of one service. A pod's address is ready or is not: states of *)
(* the service are told apart by their resource versions.                   *)
EXTENDS Mesh, TLC

CONSTANTS ip1, gateway

MCClient == {gateway}
MCTarget == gateway :> GatewayTarget
=============================================================================
