--------------------------- MODULE CircuitBreaker ---------------------------
(***************************************************************************)
(* The circuit-breaking client interceptor of 16-circuit-breaking/client   *)
(* and of 99-production-ready-cluster/api-gateway under concurrent calls:  *)
(* cb.Execute asks the breaker, invokes the call without a lock, and       *)
(* reports its result, perhaps long after the breaker has moved on.        *)
(***************************************************************************)
EXTENDS Gobreaker, FiniteSets

CONSTANTS
    Call,           \* Slots for concurrent calls.
    Reply,          \* The codes a call may end with.
    MaxGeneration,  \* Bound: the server is well by this generation.
    MaxCounted      \* Bound: requests a closed breaker counts.

ASSUME CallAssumption == IsFiniteSet(Call)
ASSUME ReplyAssumption == Reply \subseteq Code /\ "OK" \in Reply
ASSUME BoundAssumption == MaxGeneration \in Nat /\ MaxCounted \in Nat

VARIABLES
    breaker,    \* The gobreaker.CircuitBreaker.
    expired,    \* Its timeout has passed since it opened.
    admitted,   \* For each call in flight, the generation that admitted it.
    code,       \* What the last call of each slot ended with.
    healthy     \* The server has recovered: every call succeeds from now on.

vars == <<breaker, expired, admitted, code, healthy>>

Idle == -1

InFlight == {c \in Call : admitted[c] # Idle}
Current == {c \in Call : admitted[c] = breaker.generation}

\* The timeout runs from the moment a generation becomes open.
Become(b) ==
    /\ breaker' = b
    /\ expired' = (b.generation = breaker.generation /\ expired)

-----------------------------------------------------------------------------
\* Execute up to the call. Asking makes an expired breaker half-open even
\* when the call is then rejected.
Invoke(c) ==
    LET b == CurrentState(breaker, expired) IN
    /\ admitted[c] = Idle
    /\ Admits(b)
    /\ b.state = "closed" => b.counts.requests < MaxCounted
    /\ Become(OnRequest(b))
    /\ admitted' = [admitted EXCEPT ![c] = b.generation]
    /\ UNCHANGED <<code, healthy>>

\* ErrOpenState or ErrTooManyRequests: the call never reaches the network.
Reject(c) ==
    LET b == CurrentState(breaker, expired) IN
    /\ admitted[c] = Idle
    /\ ~Admits(b)
    /\ Become(b)
    /\ UNCHANGED <<admitted, code, healthy>>

\* The call ends and Execute reports it.
Return(c) ==
    LET b == CurrentState(breaker, expired) IN
    /\ admitted[c] # Idle
    /\ \E r \in Reply :
           /\ healthy => r = "OK"
           /\ r # "OK" => breaker.generation < MaxGeneration
           /\ Become(AfterRequest(b, admitted[c], r))
           /\ code' = [code EXCEPT ![c] = r]
    /\ admitted' = [admitted EXCEPT ![c] = Idle]
    /\ UNCHANGED healthy

\* The breaker's Timeout elapses.
Expire ==
    /\ breaker.state = "open"
    /\ ~expired
    /\ expired' = TRUE
    /\ UNCHANGED <<breaker, admitted, code, healthy>>

Heal ==
    /\ ~healthy
    /\ healthy' = TRUE
    /\ UNCHANGED <<breaker, expired, admitted, code>>

-----------------------------------------------------------------------------
Init ==
    /\ breaker = NewCircuitBreaker
    /\ expired = FALSE
    /\ admitted = [c \in Call |-> Idle]
    /\ code = [c \in Call |-> "OK"]
    /\ healthy = FALSE

Next ==
    \/ \E c \in Call : Invoke(c)
    \/ \E c \in Call : Reject(c)
    \/ \E c \in Call : Return(c)
    \/ Expire
    \/ Heal

Spec == Init /\ [][Next]_vars

\* Time passes, calls end (the server answers or the deadline does), users
\* keep calling, and the server recovers at some time.
FairSpec ==
    /\ Spec
    /\ WF_vars(Expire)
    /\ WF_vars(Heal)
    /\ \A c \in Call : WF_vars(Return(c)) /\ WF_vars(Invoke(c))

-----------------------------------------------------------------------------
(* Properties.                                                             *)

\* Type invariant. A closed breaker never holds the number of consecutive
\* failures at which it trips.
TypeOK ==
    /\ breaker \in Breaker
    /\ breaker.state = "closed" =>
           breaker.counts.consecutiveFailures < Settings.tripAt
    /\ expired \in BOOLEAN
    /\ admitted \in [Call -> Nat \cup {Idle}]
    /\ code \in [Call -> Code]
    /\ healthy \in BOOLEAN

\* Every request the breaker counts has a counted result or is in flight in
\* this generation: results that come late, of a generation gone by, are
\* never taken for results of this one.
Accounted ==
    breaker.counts.requests =
        breaker.counts.successes + breaker.counts.failures + Cardinality(Current)

\* A half-open breaker lets at most MaxRequests probes through, those that
\* succeeded and those in flight together, and no call of an open one is
\* counted.
ProbesBounded ==
    /\ breaker.state = "half-open" =>
           breaker.counts.successes + Cardinality(Current) <= Settings.maxRequests
    /\ breaker.state = "open" => Current = {}

\* The README of 16: "Never trip a circuit breaker on business-logic
\* errors", whatever mix of them comes with whatever timing. A step that
\* opens the breaker is the end of a call with an infrastructure failure.
OnlyInfrastructureTrips ==
    [][breaker.state # "open" /\ breaker'.state = "open"
           => \E c \in Call : /\ admitted[c] = breaker.generation
                              /\ admitted'[c] = Idle
                              /\ code'[c] \in Infrastructure]_vars

\* Once the server is well and users keep calling, the breaker closes and
\* stays closed, with calls of older generations still about.
Recovers == <>[](breaker.state = "closed")
=============================================================================
