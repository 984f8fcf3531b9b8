-------------------------- MODULE MCCircuitBreaker --------------------------
(* Instances of CircuitBreaker for TLC.                                    *)
EXTENDS CircuitBreaker, TLC

CONSTANTS c1, c2, c3

MCCall == {c1, c2, c3}
MCReply == {"OK", "InvalidArgument", "Internal"}

\* The breaker of 16's client with two probes, so that one of them may end
\* while the other is in flight.
MCTwoProbes == [ClientSettings EXCEPT !.maxRequests = 2, !.tripAt = 2]
=============================================================================
