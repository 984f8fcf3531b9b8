------------------------------ MODULE OrderPath ------------------------------
(***************************************************************************)
(* POST /v1/orders through 99-production-ready-cluster: the REST mux of    *)
(* the API gateway, its circuit breaker, the order service with its rate   *)
(* limiter, and the call of the user service. One replica of each, with    *)
(* which the autoscalers of k8s/ begin and the least they keep. With more  *)
(* order services a bucket gets a part of the requests; what several       *)
(* gateways, each with its breaker, do to one bucket is not modelled. The  *)
(* gateway sends its RPCs without a deadline; a client that hangs up       *)
(* cancels its own, but what it has sent may still arrive.                 *)
(*                                                                         *)
(* The breaker is that of module Gobreaker, as the gateway sets it. Its    *)
(* generation is 0 at all times: when a new one begins, the calls of the   *)
(* old one become stale instead.                                           *)
(***************************************************************************)
EXTENDS RateLimiter

CONSTANTS
    Settings,   \* The gateway's gobreaker.Settings,
    Pause,      \* and their Timeout, in units of time.
    MaxStray    \* Bound: cancelled requests on their way at a time.

CB == INSTANCE Gobreaker

\* Every error counts as a failure at the gateway.
ASSUME GatewayAssumption ==
    /\ Settings \in CB!SettingsType
    /\ Settings.failures = CB!GatewaySettings.failures
    /\ Pause \in Nat \ {0}
    /\ MaxStray \in Nat

VARIABLES
    sent,       \* The gateway waits for the order service's answer.
    stale,      \* The breaker has moved on since it admitted the request.
    orphan,     \* The handler serves a request whose client has hung up.
    stray,      \* How many such requests have not reached the pod yet.
    breaker,    \* The gateway's breaker.
    pause       \* Time until an open breaker lets probes through.

gateway == <<sent, stale, breaker, pause>>
cancelled == <<orphan, stray>>
orderVars == <<vars, gateway, cancelled>>

-----------------------------------------------------------------------------
(* The breaker.                                                            *)

\* Mutant of Asked: an open breaker does not wait for its timeout.
AskedAtOnce == CB!CurrentState(breaker, TRUE)

\* currentState: the breaker as Execute finds it.
Asked == CB!CurrentState(breaker, pause = 0)

\* A closed breaker's verdicts depend on its failures in a row alone.
Normal(b) ==
    [b EXCEPT !.generation = 0,
              !.counts = IF b.state = "half-open" THEN @
                         ELSE [CB!NoCounts EXCEPT !.consecutiveFailures =
                                   b.counts.consecutiveFailures]]

\* The breaker becomes b; client c's request, if it is admitted, belongs to
\* b's generation.
Become(b, c) ==
    /\ breaker' = Normal(b)
    /\ stale' = [d \in Call |-> d # c /\ (stale[d] \/ b.generation # 0)]
    /\ pause' = IF b.state = "open" /\ b.generation # 0 THEN Pause ELSE pause

-----------------------------------------------------------------------------
(* The gateway. (A request whose body it cannot decode gets no further.)   *)

\* ErrOpenState, ErrTooManyRequests: the RPC is not sent.
Refuse(c) ==
    /\ ~sent[c]
    /\ ~CB!Admits(Asked)
    /\ Become(Asked, c)
    /\ UNCHANGED <<vars, sent, cancelled>>

\* Execute lets the RPC go out on the channel to the order service. (While a
\* handler serves a request that c has given up, c's next one is another's.)
Post(c) ==
    /\ ~sent[c]
    /\ call[c] = "idle"
    /\ CB!Admits(Asked)
    /\ Become(CB!OnRequest(Asked), c)
    /\ sent' = [sent EXCEPT ![c] = TRUE]
    /\ UNCHANGED <<vars, cancelled>>

\* The RPC ends for the gateway: Execute takes the code of its result.
Ends(c, code) ==
    /\ sent[c]
    /\ sent' = [sent EXCEPT ![c] = FALSE]
    /\ Become(CB!AfterRequest(Asked, IF stale[c] THEN -1 ELSE 0, code), c)

\* The control plane has withdrawn the pod: the channel has no endpoint.
Unroutable(c) ==
    /\ call[c] = "idle"
    /\ ~inService
    /\ Ends(c, "Unavailable")
    /\ UNCHANGED <<vars, cancelled>>

\* The answer of the order service, or the error of its end, is passed on.
Deliver(c) ==
    /\ Answer(c)
    /\ Ends(c, call[c])
    /\ UNCHANGED cancelled

\* The request of a client that hangs up. On its way, it may arrive yet or be
\* dropped (when the bound is reached, it is dropped); served, its handler goes
\* on for nobody; answered, it is over.
Abandon(c) ==
    \/ /\ call[c] = "idle"
       /\ \/ UNCHANGED stray
          \/ stray < MaxStray /\ stray' = stray + 1
       /\ UNCHANGED <<vars, orphan>>
    \/ /\ call[c] = "fetching"
       /\ orphan' = [orphan EXCEPT ![c] = TRUE]
       /\ UNCHANGED <<vars, stray>>
    \/ Answer(c) /\ UNCHANGED cancelled

\* Mutant of HangUp: the breaker is not told.
HangUpUntold(c) ==
    /\ sent[c]
    /\ sent' = [sent EXCEPT ![c] = FALSE]
    /\ Abandon(c)
    /\ UNCHANGED <<stale, breaker, pause>>

\* Mutant of HangUp: the handler is taken to end with its client.
HangUpTogether(c) == Ends(c, "Canceled") /\ UNCHANGED <<vars, cancelled>>

\* The HTTP client hangs up and its request's context is cancelled. The
\* client may call again at once.
HangUp(c) == Ends(c, "Canceled") /\ Abandon(c)

-----------------------------------------------------------------------------
(* The order service.                                                      *)

\* The RPC reaches the pod.
Arrive(c) ==
    /\ sent[c]
    /\ CreateOrder(c)
    /\ UNCHANGED <<gateway, cancelled>>

FetchUser(c) == ~orphan[c] /\ GetUser(c) /\ UNCHANGED <<gateway, cancelled>>

\* The handler of a cancelled RPC returns to nobody.
Discard(c) ==
    /\ orphan[c]
    /\ Forget(c)
    /\ orphan' = [orphan EXCEPT ![c] = FALSE]
    /\ UNCHANGED <<gateway, stray>>

\* A cancelled request reaches the pod, or its cancellation overtakes it.
Stray ==
    /\ stray > 0
    /\ stray' = stray - 1
    /\ Straggle \/ UNCHANGED vars
    /\ UNCHANGED <<gateway, orphan>>

\* Time passes for the bucket, the probes and the breaker.
TickAll ==
    /\ Tick
    /\ pause' = IF pause = 0 THEN 0 ELSE pause - 1
    /\ UNCHANGED <<sent, stale, breaker, cancelled>>

-----------------------------------------------------------------------------
OrderInit ==
    /\ Init
    /\ sent = [c \in Call |-> FALSE]
    /\ stale = [c \in Call |-> FALSE]
    /\ orphan = [c \in Call |-> FALSE]
    /\ stray = 0
    /\ breaker = CB!NewCircuitBreaker
    /\ pause = 0

OrderNext ==
    \/ \E c \in Call : Refuse(c)
    \/ \E c \in Call : Post(c)
    \/ \E c \in Call : Unroutable(c)
    \/ \E c \in Call : Deliver(c)
    \/ \E c \in Call : HangUp(c)
    \/ \E c \in Call : Arrive(c)
    \/ \E c \in Call : FetchUser(c)
    \/ \E c \in Call : Discard(c)
    \/ Stray
    \/ \E p \in Probe : Check(p) /\ UNCHANGED <<gateway, cancelled>>
    \/ \E p \in Probe : Miss(p) /\ UNCHANGED <<gateway, cancelled>>
    \/ Restart /\ UNCHANGED <<gateway, cancelled>>
    \/ TickAll

OrderSpec == OrderInit /\ [][OrderNext]_orderVars

\* Time passes, the kubelet probes, and what is under way gets on; clients
\* need not call.
FairOrderSpec ==
    /\ OrderSpec
    /\ WF_orderVars(TickAll)
    /\ \A p \in Probe : /\ WF_orderVars(Check(p) /\ UNCHANGED <<gateway, cancelled>>)
                        /\ WF_orderVars(Miss(p) /\ UNCHANGED <<gateway, cancelled>>)
    /\ WF_orderVars(Restart /\ UNCHANGED <<gateway, cancelled>>)
    /\ \A c \in Call : /\ WF_orderVars(Arrive(c) \/ Unroutable(c))
                       /\ WF_orderVars(FetchUser(c))
                       /\ WF_orderVars(Deliver(c))
                       /\ WF_orderVars(Discard(c))
    /\ WF_orderVars(Stray)

-----------------------------------------------------------------------------
(* Properties.                                                             *)

\* The gateway's part. A handler serves a client that waits, or is an orphan.
GatewayTypeOK ==
    /\ sent \in [Call -> BOOLEAN]
    /\ stale \in [Call -> BOOLEAN]
    /\ orphan \in [Call -> BOOLEAN]
    /\ stray \in 0..MaxStray
    /\ breaker \in CB!Breaker
    /\ breaker.generation = 0
    /\ pause \in 0..Pause
    /\ \A c \in Call : /\ orphan[c] => call[c] # "idle" /\ ~sent[c]
                       /\ call[c] # "idle" => sent[c] \/ orphan[c]

\* Type invariant. No handler is forgotten: it serves a client that waits at
\* the gateway or one that has hung up, and the bucket stays within its burst.
OrderTypeOK == TypeOK /\ GatewayTypeOK

\* The probes of a half-open breaker are not lost to the rate limiter, which
\* would open it again: over the breaker's timeout the bucket has filled up,
\* and it has room for the probes, the requests that were on their way before,
\* those of clients that have hung up among them, and the kubelet. (All of them
\* together are fewer than its burst, and no other gateway takes from it.)
ProbesSpared ==
    breaker.state = "half-open" =>
        \A c \in Call : sent[c] /\ ~stale[c] => call[c] # "ResourceExhausted"

\* A request ends without success.
Fails(c) == sent[c] /\ ~sent'[c] /\ ~(call[c] = "OK" /\ Deliver(c))

\* Whatever opened the breaker (overload, bad requests, impatient clients, a
\* pod that was withdrawn or restarted), it closes for good once requests no
\* longer fail, if clients call again and again unless they are refused.
GatewayRecovers ==
    (/\ <>[][\A c \in Call : ~Fails(c)]_orderVars
     /\ \A c \in Call : []<>(sent[c] \/ ~CB!Admits(Asked)))
        => <>[](breaker.state = "closed")

\* A pod that overload withdrew comes back: when no requests reach it any
\* more, the probes find tokens again and the pod is ready for good.
Readmitted ==
    <>[](stray = 0 /\ \A c \in Call : call[c] = "idle") => <>[]inService
=============================================================================
