------------------------------ MODULE Gobreaker ------------------------------
(***************************************************************************)
(* sony/gobreaker v1.0.0, the breaker that 16-circuit-breaking/client and  *)
(* 99-production-ready-cluster/api-gateway put around their calls: what    *)
(* its Execute does before and after the call, as functions of the         *)
(* breaker's state. Both run under the breaker's mutex. Neither program    *)
(* sets Interval, so the counts of the closed state never expire.          *)
(***************************************************************************)
EXTENDS Integers

CONSTANT Settings   \* The gobreaker.Settings of the program.

\* The status codes that the servers behind the breakers and gRPC return.
Code == {"OK", "InvalidArgument", "ResourceExhausted", "Canceled",
         "Internal", "Unavailable", "DeadlineExceeded"}

\* What the README of 16 calls infrastructure or network failures.
Infrastructure == {"Internal", "Unavailable", "DeadlineExceeded"}

\* Mutant of ClientSettings: no IsSuccessful, every error is a failure.
ClientSettingsByDefault ==
    [maxRequests |-> 1, tripAt |-> 3, failures |-> Code \ {"OK"}]

\* Settings of 16's client: ReadyToTrip is ConsecutiveFailures >= 3 and
\* IsSuccessful counts three codes as failures.
ClientSettings ==
    [maxRequests |-> 1, tripAt |-> 3,
     failures |-> {"Internal", "Unavailable", "DeadlineExceeded"}]

\* Settings of the API gateway: ReadyToTrip is ConsecutiveFailures > 5, and
\* without IsSuccessful every error is a failure.
GatewaySettings ==
    [maxRequests |-> 100, tripAt |-> 6, failures |-> Code \ {"OK"}]

SettingsType == [maxRequests: Nat \ {0}, tripAt: Nat \ {0},
                 failures: SUBSET (Code \ {"OK"})]

ASSUME SettingsAssumption == Settings \in SettingsType

State == {"closed", "half-open", "open"}

Counts == [requests: Nat, successes: Nat, failures: Nat,
           consecutiveSuccesses: Nat, consecutiveFailures: Nat]

NoCounts == [requests |-> 0, successes |-> 0, failures |-> 0,
             consecutiveSuccesses |-> 0, consecutiveFailures |-> 0]

Breaker == [state: State, generation: Nat, counts: Counts]

NewCircuitBreaker == [state |-> "closed", generation |-> 0, counts |-> NoCounts]

IsSuccessful(code) == code \notin Settings.failures

\* Mutant of ReadyToTrip: one failure late.
ReadyToTripLate(counts) == counts.consecutiveFailures > Settings.tripAt

ReadyToTrip(counts) == counts.consecutiveFailures >= Settings.tripAt

\* setState: a new generation begins with clear counts.
SetState(b, state) ==
    [state |-> state, generation |-> b.generation + 1, counts |-> NoCounts]

\* currentState: an open breaker whose timeout has expired is half-open.
CurrentState(b, expired) ==
    IF b.state = "open" /\ expired THEN SetState(b, "half-open") ELSE b

\* Mutant of Admits: one probe too many.
AdmitsOneMore(b) ==
    \/ b.state = "closed"
    \/ b.state = "half-open" /\ b.counts.requests <= Settings.maxRequests

\* beforeRequest rejects with ErrOpenState and ErrTooManyRequests otherwise.
Admits(b) ==
    \/ b.state = "closed"
    \/ b.state = "half-open" /\ b.counts.requests < Settings.maxRequests

OnRequest(b) == [b EXCEPT !.counts.requests = @ + 1]

Succeeded(k) ==
    [requests |-> k.requests, successes |-> k.successes + 1,
     failures |-> k.failures,
     consecutiveSuccesses |-> k.consecutiveSuccesses + 1,
     consecutiveFailures |-> 0]

Failed(k) ==
    [requests |-> k.requests, successes |-> k.successes,
     failures |-> k.failures + 1,
     consecutiveSuccesses |-> 0,
     consecutiveFailures |-> k.consecutiveFailures + 1]

\* Mutant of OnSuccess: waits for one success more than it admits probes.
OnSuccessNeverEnough(b) ==
    LET counts == Succeeded(b.counts) IN
    IF b.state = "half-open" /\ counts.consecutiveSuccesses > Settings.maxRequests
    THEN SetState(b, "closed")
    ELSE [b EXCEPT !.counts = counts]

\* Enough probes succeeded in a row for the breaker to close.
OnSuccess(b) ==
    LET counts == Succeeded(b.counts) IN
    IF b.state = "half-open" /\ counts.consecutiveSuccesses >= Settings.maxRequests
    THEN SetState(b, "closed")
    ELSE [b EXCEPT !.counts = counts]

\* A failed probe opens the breaker again.
OnFailure(b) ==
    LET counts == Failed(b.counts) IN
    IF b.state = "half-open" \/ ReadyToTrip(counts)
    THEN SetState(b, "open")
    ELSE [b EXCEPT !.counts = counts]

\* Mutant of AfterRequest: the generation of the call is not compared.
AfterAnyRequest(b, before, code) ==
    IF b.state = "open" THEN b
    ELSE IF IsSuccessful(code) THEN OnSuccess(b) ELSE OnFailure(b)

\* afterRequest: the result of a call of an earlier generation is dropped.
AfterRequest(b, before, code) ==
    IF b.generation # before THEN b
    ELSE IF IsSuccessful(code) THEN OnSuccess(b) ELSE OnFailure(b)
=============================================================================
