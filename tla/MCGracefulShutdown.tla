------------------------- MODULE MCGracefulShutdown -------------------------
(* Instances of GracefulShutdown for TLC.                                 *)
EXTENDS GracefulShutdown, TLC

CONSTANTS r1, r2

MCRpc == {r1, r2}

\* In units of 2 s, rounded up: handlers shorter than the drain timeout by
\* one unit, as long and longer; one that ends at once.
MCDuration == {0, 4, 5, 6}
=============================================================================
