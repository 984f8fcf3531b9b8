----------------------------- MODULE RateLimiter -----------------------------
(***************************************************************************)
(* The token bucket before the handlers of 99's order-service, which also  *)
(* stands before the health service Kubernetes probes, and the one of      *)
(* 12-rate-limiting, which nothing probes. One unit of time refills Rate   *)
(* tokens; rate.Limiter is golang.org/x/time/rate.                         *)
(***************************************************************************)
EXTENDS Integers

CONSTANTS
    Call,       \* Callers, each with one request at a time.
    Rate,       \* Tokens a unit of time brings,
    Burst,      \* and the most the bucket holds.
    Probe,      \* The probes of the pod: "readiness", "liveness".
    Period,     \* Of each probe, in units of time.
    Threshold,  \* failureThreshold.
    MaxWindow   \* Bound: the longest window of WithinRate.

ASSUME LimiterAssumption ==
    /\ Rate \in Nat \ {0}
    /\ Burst \in Nat \ {0}
    /\ Probe \subseteq {"readiness", "liveness"}
    /\ Period \in [Probe -> Nat \ {0}]
    /\ Threshold \in Nat \ {0}
    /\ MaxWindow \in Nat

Code == {"OK", "InvalidArgument", "Internal", "ResourceExhausted",
         "Unavailable"}

VARIABLES
    tokens,     \* The limiter's bucket.
    call,       \* A caller's request: "idle", "fetching" the user, or its code.
    due,        \* Time until a probe is sent.
    misses,     \* The probe's failures in a row.
    inService,  \* The pod is among the ready endpoints.
    window,     \* An observer: time passed since a refill it chose,
    admitted    \* and the requests let through since.

vars == <<tokens, call, due, misses, inService, window, admitted>>

Least(a, b) == IF a <= b THEN a ELSE b

-----------------------------------------------------------------------------
(* The limiter.                                                            *)

\* Mutant of Allow: an empty bucket lets a request through.
AllowAtZero ==
    /\ tokens' = IF tokens = 0 THEN 0 ELSE tokens - 1
    /\ admitted' = admitted + 1

\* limiter.Allow() takes a token, if there is one.
Allow == tokens > 0 /\ tokens' = tokens - 1 /\ admitted' = admitted + 1

\* RateLimiterInterceptor rejects at once.
Reject == tokens = 0 /\ UNCHANGED <<tokens, admitted>>

\* Mutant of Refill: the bucket is not capped at Burst.
RefillUncapped == tokens + Rate

Refill == Least(Burst, tokens + Rate)

-----------------------------------------------------------------------------
(* The handler.                                                            *)

\* The interceptor, then CreateOrder up to its call of the user service.
CreateOrder(c) ==
    /\ call[c] = "idle"
    /\ \/ /\ Reject
          /\ call' = [call EXCEPT ![c] = "ResourceExhausted"]
       \/ /\ Allow
          /\ call' \in { [call EXCEPT ![c] = next] :
                             next \in {"InvalidArgument", "fetching"} }
    /\ UNCHANGED <<due, misses, inService, window>>

\* userClient.GetUser returns; every error of it becomes Internal.
GetUser(c) ==
    /\ call[c] = "fetching"
    /\ call' \in { [call EXCEPT ![c] = code] : code \in {"OK", "Internal"} }
    /\ UNCHANGED <<tokens, due, misses, inService, window, admitted>>

\* The caller takes its answer.
Answer(c) ==
    /\ call[c] \in Code
    /\ call' = [call EXCEPT ![c] = "idle"]
    /\ UNCHANGED <<tokens, due, misses, inService, window, admitted>>

\* The caller has hung up: what the handler returns is for nobody.
Forget(c) ==
    /\ call[c] # "idle"
    /\ call' = [call EXCEPT ![c] = "idle"]
    /\ UNCHANGED <<tokens, due, misses, inService, window, admitted>>

\* A request whose caller hung up before it arrived: the interceptor comes first
\* all the same, and what the handler then does is for nobody.
Straggle ==
    /\ Allow \/ Reject
    /\ UNCHANGED <<call, due, misses, inService, window>>

-----------------------------------------------------------------------------
(* Kubernetes.                                                             *)

\* Mutant of Pass: readiness is overwritten by the other probe's answer.
PassMixedUp(p) ==
    /\ misses' = [misses EXCEPT ![p] = 0]
    /\ inService' = (p = "readiness")

\* The probe's Check was answered SERVING.
Pass(p) ==
    /\ misses' = [misses EXCEPT ![p] = 0]
    /\ inService' = (inService \/ p = "readiness")

\* A probe is an RPC like the others: the interceptor comes first.
Check(p) ==
    /\ due[p] = 0
    /\ due' = [due EXCEPT ![p] = Period[p]]
    /\ Allow
    /\ Pass(p)
    /\ UNCHANGED <<call, window>>

\* A rejected probe counts as failed; the last one withdraws the pod.
Miss(p) ==
    /\ due[p] = 0
    /\ due' = [due EXCEPT ![p] = Period[p]]
    /\ Reject
    /\ p = "liveness" => misses[p] + 1 < Threshold
    /\ misses' = [misses EXCEPT ![p] = Least(Threshold, @ + 1)]
    /\ inService' = (inService /\ misses'[p] < Threshold)
    /\ UNCHANGED <<call, window>>

\* The liveness probe has failed often enough: the kubelet restarts the
\* container. Its limiter starts full, its calls are cut.
Restart ==
    /\ "liveness" \in Probe
    /\ due["liveness"] = 0
    /\ tokens = 0
    /\ misses["liveness"] + 1 >= Threshold
    /\ tokens' = Burst
    /\ call' = [c \in Call |-> IF call[c] = "fetching" THEN "Unavailable"
                               ELSE call[c]]
    /\ due' = Period
    /\ misses' = [p \in Probe |-> 0]
    /\ inService' = FALSE
    /\ window' = 0
    /\ admitted' = 0

-----------------------------------------------------------------------------
\* A unit of time passes, once the probes that are due were sent. The observer
\* goes on or starts a new window. (One that starts between refills is part
\* of one that starts at the refill before it.)
Tick ==
    /\ \A p \in Probe : due[p] > 0
    /\ due' = [p \in Probe |-> due[p] - 1]
    /\ tokens' = Refill
    /\ \/ window < MaxWindow /\ window' = window + 1 /\ UNCHANGED admitted
       \/ window' = 0 /\ admitted' = 0
    /\ UNCHANGED <<call, misses, inService>>

Init ==
    /\ tokens = Burst
    /\ call = [c \in Call |-> "idle"]
    /\ due = Period
    /\ misses = [p \in Probe |-> 0]
    /\ inService = TRUE
    /\ window = 0
    /\ admitted = 0

Next ==
    \/ \E c \in Call : CreateOrder(c)
    \/ \E c \in Call : GetUser(c)
    \/ \E c \in Call : Answer(c)
    \/ \E c \in Call : Forget(c)
    \/ Straggle
    \/ \E p \in Probe : Check(p)
    \/ \E p \in Probe : Miss(p)
    \/ Restart
    \/ Tick

Spec == Init /\ [][Next]_vars

-----------------------------------------------------------------------------
(* Properties.                                                             *)

\* Type invariant. The bucket never holds more than the burst, nor less than
\* nothing.
TypeOK ==
    /\ tokens \in 0..Burst
    /\ call \in [Call -> Code \cup {"idle", "fetching"}]
    /\ due \in [Probe -> Nat]
    /\ \A p \in Probe : due[p] <= Period[p]
    /\ misses \in [Probe -> 0..Threshold]
    /\ inService \in BOOLEAN
    /\ window \in 0..MaxWindow
    /\ admitted \in Nat

\* "short bursts of traffic while enforcing a steady long-term rate" (README
\* of 12): in every stretch of a process's life, wherever it begins, the
\* handlers and the health service are given at most a burst and what the
\* rate brings, however the callers and the probes crowd in.
WithinRate == admitted <= Burst + Rate * window
=============================================================================
