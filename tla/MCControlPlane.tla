--------------------------- MODULE MCControlPlane ---------------------------
(* Small instances of ControlPlane for TLC.                                *)
EXTENDS ControlPlane, TLC

CONSTANTS ip1, ip2

MCIP == {ip1, ip2}

\* One Endpoints object of the cluster that the control plane ignores.
MCName == Tracked \cup {"kube-dns"}
=============================================================================
