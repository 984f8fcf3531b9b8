------------------------------- MODULE Retries -------------------------------
(***************************************************************************)
(* 17-retries: a client calls GetUser, then UpdateUser under the retry      *)
(* policy of its service config. The server counts the requests of all its *)
(* clients, is slow on the first GetUser and fails the first updates; a    *)
(* connection may break before a request is served, after it, or within    *)
(* its answer. The hedging policy of GetUser is no part of grpc-go's       *)
(* service config: it is ignored and GetUser sent once.                    *)
(***************************************************************************)
EXTENDS Integers, FiniteSets

CONSTANTS
    Call,        \* The clients' calls.
    MaxAttempts, \* Of the retry policy.
    FailFirst,   \* How many requests the server fails.
    MaxCuts      \* Bound: how many attempts a broken connection ends.

ASSUME RetryAssumption ==
    /\ IsFiniteSet(Call)
    /\ MaxAttempts \in Nat \ {0}
    /\ FailFirst \in Nat
    /\ MaxCuts \in Nat

Attempt == 1..MaxAttempts
Final == {"OK", "Unavailable", "Deadline"}

VARIABLES
    client,         \* Where a client is: "start", "getting", between its
                    \* calls, "waiting", "backoff", Final.
    get,            \* Its GetUser: "sent", "slow" at the server, "over".
    getAttempt,     \* The server's counter of those.
    attempts,       \* Attempts it has made.
    rpc,            \* Each attempt at the server and on its way back.
    updateAttempt,  \* The server's counter.
    cuts            \* Attempts of a call ended by a broken connection.

updates == <<attempts, rpc, updateAttempt, cuts>>
vars == <<client, get, getAttempt, updates>>

\* How often the update of a call was carried out.
Applied(c) == Cardinality({ k \in Attempt : rpc[c][k] = "OK" })

TotalCuts == Cardinality({ cut \in Call \X (1..MaxCuts) : cut[2] <= cuts[cut[1]] })

-----------------------------------------------------------------------------
(* GetUser.                                                                *)

\* main() calls GetUser; the only attempt is sent.
GetUser(c) ==
    /\ client[c] = "start"
    /\ client' = [client EXCEPT ![c] = "getting"]
    /\ get' = [get EXCEPT ![c] = "sent"]
    /\ UNCHANGED <<getAttempt, updates>>

\* The handler of GetUser: the first request that the server ever got waits
\* for 200 ms or the end of its context.
ReceiveGet(c) ==
    /\ get[c] = "sent"
    /\ getAttempt' = getAttempt + 1
    /\ get' = [get EXCEPT ![c] = IF getAttempt' = 1 THEN "slow" ELSE "over"]
    /\ UNCHANGED <<client, updates>>

\* The wait is over, either way.
RespondGet(c) ==
    /\ get[c] = "slow"
    /\ get' = [get EXCEPT ![c] = "over"]
    /\ UNCHANGED <<client, getAttempt, updates>>

\* main() takes the result, and goes on whatever it is.
DeliverGet(c) ==
    /\ client[c] = "getting"
    /\ get[c] = "over"
    /\ client' = [client EXCEPT ![c] = "between"]
    /\ UNCHANGED <<get, getAttempt, updates>>

\* The deadline of ctx1, or UNAVAILABLE from a broken connection, which
\* nothing retries. A request under way is lost, or gets to the server yet.
FailGet(c) ==
    /\ client[c] = "getting"
    /\ client' = [client EXCEPT ![c] = "between"]
    /\ \/ UNCHANGED get
       \/ get[c] = "sent" /\ get' = [get EXCEPT ![c] = "over"]
    /\ UNCHANGED <<getAttempt, updates>>

-----------------------------------------------------------------------------
(* The client's channel, for UpdateUser.                                   *)

\* Mutant of AfterUnavailable: maxAttempts taken for retries not yet made.
AfterUnavailableEarly(c) ==
    client' = [client EXCEPT ![c] =
                  IF attempts[c] + 1 < MaxAttempts THEN "backoff" ELSE "Unavailable"]

\* Mutant of AfterUnavailable: an attempt is always followed by another.
AfterUnavailableAgain(c) == client' = [client EXCEPT ![c] = "backoff"]

\* UNAVAILABLE is retryable until maxAttempts were made.
AfterUnavailable(c) ==
    client' = [client EXCEPT ![c] =
                  IF attempts[c] < MaxAttempts THEN "backoff" ELSE "Unavailable"]

\* An attempt is sent.
Try(c) ==
    /\ client' = [client EXCEPT ![c] = "waiting"]
    /\ attempts' = [attempts EXCEPT ![c] = @ + 1]
    /\ rpc' = [rpc EXCEPT ![c][attempts[c] + 1] = "sent"]
    /\ UNCHANGED <<get, getAttempt, updateAttempt, cuts>>

\* main() calls UpdateUser.
UpdateUser(c) == client[c] = "between" /\ Try(c)

\* Mutant of Retry: another attempt while the last is under way, as hedging
\* would make it.
RetryHedged(c) ==
    /\ client[c] \in {"waiting", "backoff"}
    /\ attempts[c] < MaxAttempts
    /\ Try(c)

\* The backoff is over.
Retry(c) == client[c] = "backoff" /\ Try(c)

\* Mutant of Deliver: only a success wakes the caller.
DeliverOnlySuccess(c) ==
    /\ client[c] = "waiting"
    /\ rpc[c][attempts[c]] = "OK"
    /\ client' = [client EXCEPT ![c] = "OK"]
    /\ UNCHANGED <<get, getAttempt, updates>>

\* The server's answer to the current attempt.
Deliver(c) ==
    /\ client[c] = "waiting"
    /\ LET answer == rpc[c][attempts[c]] IN
           \/ answer = "OK" /\ client' = [client EXCEPT ![c] = "OK"]
           \/ answer = "Unavailable" /\ AfterUnavailable(c)
    /\ UNCHANGED <<get, getAttempt, updates>>

\* The connection breaks: UNAVAILABLE for the client. The request is lost, or
\* at the server, or its answer is on the way. Once the headers of an OK have
\* come the attempt is committed, and what breaks then is not retried; a
\* failure comes as trailers alone, all of it or nothing.
Cut(c) ==
    /\ client[c] = "waiting"
    /\ TotalCuts < MaxCuts
    /\ cuts' = [cuts EXCEPT ![c] = @ + 1]
    /\ \/ AfterUnavailable(c) /\ UNCHANGED rpc
       \/ /\ rpc[c][attempts[c]] = "sent"
          /\ rpc' = [rpc EXCEPT ![c][attempts[c]] = "lost"]
          /\ AfterUnavailable(c)
       \/ /\ rpc[c][attempts[c]] = "OK"
          /\ client' = [client EXCEPT ![c] = "Unavailable"]
          /\ UNCHANGED rpc
    /\ UNCHANGED <<get, getAttempt, attempts, updateAttempt>>

\* The timeout of ctx2 covers all attempts and the backoffs between them.
Deadline(c) ==
    /\ client[c] \in {"waiting", "backoff"}
    /\ client' = [client EXCEPT ![c] = "Deadline"]
    /\ UNCHANGED <<get, getAttempt, updates>>

-----------------------------------------------------------------------------
(* The server.                                                             *)

\* The handler's locked section; it decides by its copy of the counter.
Receive(c, k) ==
    /\ rpc[c][k] = "sent"
    /\ updateAttempt' = updateAttempt + 1
    /\ rpc' = [rpc EXCEPT ![c][k] =
                  IF updateAttempt' <= FailFirst THEN "rejecting" ELSE "applying"]
    /\ UNCHANGED <<client, get, getAttempt, attempts, cuts>>

\* It returns; it never looks at its context.
Respond(c, k) ==
    /\ rpc[c][k] \in {"rejecting", "applying"}
    /\ rpc' = [rpc EXCEPT ![c][k] =
                  IF @ = "rejecting" THEN "Unavailable" ELSE "OK"]
    /\ UNCHANGED <<client, get, getAttempt, attempts, updateAttempt, cuts>>

-----------------------------------------------------------------------------
Init ==
    /\ client = [c \in Call |-> "start"]
    /\ get = [c \in Call |-> "none"]
    /\ getAttempt = 0
    /\ attempts = [c \in Call |-> 0]
    /\ rpc = [c \in Call |-> [k \in Attempt |-> "none"]]
    /\ updateAttempt = 0
    /\ cuts = [c \in Call |-> 0]

Next ==
    \E c \in Call :
        \/ GetUser(c)
        \/ ReceiveGet(c)
        \/ RespondGet(c)
        \/ DeliverGet(c)
        \/ FailGet(c)
        \/ UpdateUser(c)
        \/ Retry(c)
        \/ Deliver(c)
        \/ Cut(c)
        \/ Deadline(c)
        \/ \E k \in Attempt : Receive(c, k)
        \/ \E k \in Attempt : Respond(c, k)

Spec == Init /\ [][Next]_vars

\* The server serves what has arrived, the client reads its answers and
\* main() goes on to its second call.
FairSpec ==
    /\ Spec
    /\ \A c \in Call :
           /\ WF_vars(ReceiveGet(c))
           /\ WF_vars(RespondGet(c))
           /\ WF_vars(DeliverGet(c))
           /\ WF_vars(UpdateUser(c))
           /\ WF_vars(Retry(c))
           /\ WF_vars(Deliver(c))
           /\ \A k \in Attempt : WF_vars(Receive(c, k)) /\ WF_vars(Respond(c, k))

-----------------------------------------------------------------------------
(* Properties.                                                             *)

\* Type invariant. No call makes more attempts than the policy allows, and
\* one GetUser at most is slow.
TypeOK ==
    /\ client \in [Call -> {"start", "getting", "between", "waiting",
                            "backoff"} \cup Final]
    /\ get \in [Call -> {"none", "sent", "slow", "over"}]
    /\ getAttempt \in 0..Cardinality(Call)
    /\ \A c, d \in Call : get[c] = "slow" /\ get[d] = "slow" => c = d
    /\ attempts \in [Call -> 0..MaxAttempts]
    /\ rpc \in [Call -> [Attempt -> {"none", "sent", "lost", "rejecting",
                                     "applying", "Unavailable", "OK"}]]
    /\ updateAttempt \in Nat
    /\ cuts \in [Call -> Nat]

\* The update's last attempt was carried out, and a connection of the call's
\* has broken: it may have been when the answer's headers were there.
AnswerBroken(c) ==
    cuts[c] > 0 /\ attempts[c] > 0 /\ rpc[c][attempts[c]] = "OK"

\* "The client side only sees a single successful RPC call": the failures of
\* the server alone are hidden from every client, whoever else is served and
\* whoever else's connections break. A client that is told UNAVAILABLE had
\* its own connection break: too often for the policy's attempts, or in the
\* answer to an update that was carried out.
FailuresAreHidden ==
    \A c \in Call :
        client[c] = "Unavailable" =>
            FailFirst + cuts[c] >= MaxAttempts \/ AnswerBroken(c)

\* Only a broken connection repeats an update: a call's update is carried out
\* at most once more than its connections broke, its deadline or another
\* client's requests notwithstanding; a call that succeeded was carried out.
AppliedOnce ==
    \A c \in Call :
        /\ Applied(c) <= 1 + cuts[c]
        /\ client[c] = "OK" => Applied(c) > 0

\* Whatever becomes of the first, a client's two calls end, if no deadline
\* ever fires as well.
CallsEnd == \A c \in Call : client[c] = "getting" ~> client[c] \in Final

-----------------------------------------------------------------------------
(* The inductive invariant behind FailuresAreHidden and AppliedOnce.       *)

\* The requests of GetUser the server has got, or that were lost.
Begun == { c \in Call : get[c] \in {"slow", "over"} }

\* The attempts the server fails, and those it has failed.
Failing(c) == { k \in Attempt : rpc[c][k] \in {"rejecting", "Unavailable"} }
Failed(c) == { k \in Attempt : rpc[c][k] = "Unavailable" }

FailuresBounded(c) ==
    /\ Cardinality(Failing(c)) <= updateAttempt
    /\ Cardinality(Failing(c)) <= FailFirst

\* What a client's state says of its attempts.
Progress(c) ==
    /\ client[c] = "start" => get[c] = "none"
    /\ client[c] \in {"start", "getting", "between"} => attempts[c] = 0
    /\ client[c] = "waiting" => attempts[c] > 0
    /\ client[c] = "backoff" => attempts[c] < MaxAttempts
    /\ client[c] = "Unavailable" => attempts[c] = MaxAttempts \/ AnswerBroken(c)
    /\ client[c] = "OK" => attempts[c] > 0 /\ rpc[c][attempts[c]] = "OK"
    /\ \A k \in Attempt : k > attempts[c] => rpc[c][k] = "none"

\* Every attempt but the last is accounted for by a connection that broke or
\* by a failure of the server; the last one as well, once it has failed.
Accounted(c) ==
    /\ client[c] \in {"backoff", "Unavailable"} =>
           attempts[c] <= cuts[c] + Cardinality(Failed(c))
    /\ client[c] = "waiting" =>
           attempts[c] <= 1 + cuts[c] + Cardinality(Failed(c) \ {attempts[c]})
    /\ attempts[c] <= 1 + cuts[c] + Cardinality(Failed(c))

Inv ==
    /\ TypeOK
    /\ getAttempt <= Cardinality(Begun)
    /\ \A c \in Call :
           /\ get[c] = "slow" => getAttempt > 0
           /\ FailuresBounded(c)
           /\ Progress(c)
           /\ Accounted(c)
=============================================================================
