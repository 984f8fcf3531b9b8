----------------------------- MODULE MCOrderPath -----------------------------
(* Scaled: a unit is the readiness probe's period and the breaker's timeout, *)
(* 5 s, which fill the bucket; the liveness probe's period is two units.    *)
EXTENDS OrderPath, TLC

MCProbe == {"readiness", "liveness"}
MCPeriod == "readiness" :> 1 @@ "liveness" :> 2

\* The gateway's settings, where every error is a failure, with one probe and
\* two failures.
MCSettings ==
    [maxRequests |-> 1, tripAt |-> 2,
     failures |-> {"InvalidArgument", "ResourceExhausted", "Canceled",
                   "Internal", "Unavailable", "DeadlineExceeded"}]
=============================================================================
