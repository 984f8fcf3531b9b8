---------------------------- MODULE UnaryServers ----------------------------
(***************************************************************************)
(* One unary call at the servers of lessons 01, 03 to 11, 13 to 15, 18, 20 *)
(* and 22 and at 99's user-service: the method the server looks for, the   *)
(* chain of interceptors, proxies and handlers that a request goes down    *)
(* and its result comes up, and the caller, whose deadline may pass at any *)
(* moment. 03's handler starts a goroutine for the slow bank API and       *)
(* selects on its unbuffered channel and on the caller's context. 14's     *)
(* handler may panic, and its process is gone.                             *)
(***************************************************************************)
EXTENDS Integers, Sequences, Services

CONSTANTS
    Call,       \* The calls; those at one server share its process.
    Token,      \* Values of the authorization metadata,
    Secret,     \* among them the one the server accepts.
    MaxTokens   \* Bound: how many values the metadata has.

ASSUME UnaryAssumption == Secret \in Token /\ MaxTokens \in Nat

\* What a program registers, and what it puts in the way of a request,
\* outermost first. A "Handler" only answers OK.
Server(services, frames) == [services |-> services, frames |-> frames]

UserChain == Server({UserService}, <<"GetUser">>)
PaymentChain == Server({PaymentService}, <<"ProcessPayment">>)
OrderChain == Server({OrderService}, <<"CreateOrder">>)

\* Mutant of InterceptedChain: 05 checks the token before it logs.
AuthFirstChain == Server({PaymentService}, <<"Auth", "Logging", "Handler">>)
InterceptedChain == Server({PaymentService}, <<"Logging", "Auth", "Handler">>)

SecureChain == Server({SecureService}, <<"Auth", "Handler">>)

\* Mutant of ValidatedChain: the first version of the service.
ValidatedChainV1 == Server({UserService}, <<"Validation", "Handler">>)
ValidatedChain == Server({UserServiceV2}, <<"Validation", "Handler">>)

\* 07: the service, and the health service beside it, which knows "" and
\* "user.v1.UserService".
ReflectionServices == {UserService, Health, ServerReflection}
ReflectionChain == Server(ReflectionServices, <<"Handler">>)
HealthChain == Server(ReflectionServices, <<"LookUp">>)

\* 08, and 15 on one port: REST requests are sent on to the program's own
\* gRPC server.
RestChain == Server({UserService}, <<"ServeMux", "Handler">>)
MultiplexedChain == Server({UserService, ServerReflection}, <<"ServeMux", "Handler">>)

\* 10's server behind an in-memory listener.
TestChain == Server({UserService}, <<"LookUp">>)

ObservedChain == Server({UserService}, <<"Handler">>)
KeepaliveChain == Server({UserService}, <<"UnimplementedUserServiceServer">>)
CompressedChain == Server({UserService}, <<"Truncate">>)

\* 18 is a client's function around a call of GetUser.
ManagerChain == Server({UserService}, <<"OrderManager", "UserServiceClient">>)

RoutedChain == Server({UserService}, <<"Handler">>)

\* 09's three servers and 99's user-service.
EchoChain == Server({EchoService}, <<"Handler">>)
ClusterChain == Server({UserServiceV99, Health}, <<"Handler">>)

Chain ==
    [ l01 |-> UserChain, l03 |-> PaymentChain, l04 |-> OrderChain,
      l05 |-> InterceptedChain, l06 |-> SecureChain, l07 |-> ReflectionChain,
      health |-> HealthChain, l08 |-> RestChain, l10 |-> TestChain,
      l11 |-> ObservedChain, l13 |-> KeepaliveChain, l14 |-> CompressedChain,
      l15 |-> MultiplexedChain, l18 |-> ManagerChain, l20 |-> ValidatedChain,
      l22 |-> RoutedChain, l09 |-> EchoChain, l99 |-> ClusterChain ]

TokenLesson == {"l03", "l05", "l06"}
DeadlineLesson == {"l01", "l03", "l06", "l09"}

\* Lessons that check what a body says.
BodyLesson == {"l01", "l04", "l08", "l10", "l14", "l18", "l20"}

Code == {"OK", "InvalidArgument", "NotFound", "FailedPrecondition",
         "Unauthenticated", "Unavailable", "Canceled", "DeadlineExceeded",
         "Unimplemented", "Unknown"}

\* An invalid body breaks a rule (no user_id, one of less than ten bytes at
\* 14, a quantity or an amount of 0, a message that fails validation); an
\* unlucky one names an unknown user or service or an item that is out of
\* stock, and at 14 a user_id of exactly ten bytes.
Requests(lesson, method, accept, bodies, metadata) ==
    [lesson: {lesson}, method: {method}, accepted: accept, body: bodies,
     tokens: metadata]

Plain(lesson, method, bodies) == Requests(lesson, method, {TRUE}, bodies, {<<>>})

Metadata == UNION { [1..n -> Token] : n \in 0..MaxTokens }

\* The only snapshot that 22's control plane ever sets.
Snapshot ==
    [node |-> "grpc-client-node",
     listeners |-> {[name |-> "user-service", route |-> "local_route"]},
     routes |-> {[name |-> "local_route", domain |-> "user-service",
                  cluster |-> "user-service-cluster"]},
     clusters |-> {"user-service-cluster"},
     endpoints |-> {[cluster |-> "user-service-cluster",
                     address |-> "127.0.0.1:50055"]}]

\* The addresses an xDS client of that node finds for a target: listener,
\* route, cluster and endpoints, each by the name the one before it gives.
Resolve(node, target) ==
    LET routes == { r \in Snapshot.routes :
                        /\ r.domain = target
                        /\ \E l \in Snapshot.listeners : l.name = target /\ l.route = r.name }
        found == { e \in Snapshot.endpoints :
                       /\ e.cluster \in Snapshot.clusters
                       /\ \E r \in routes : r.cluster = e.cluster }
    IN  IF node = Snapshot.node THEN { e.address : e \in found } ELSE {}

\* What the callers send. 06 has client certificates, at 15 a client may speak
\* neither gRPC nor HTTP/1, and 22's client finds its server or none.
UserRequests == Plain("l01", GetUserV1, {"invalid", "unlucky", "good"})
PaymentRequests == Requests("l03", ProcessPaymentV1, {TRUE}, {"good"}, Metadata)
OrderRequests == Plain("l04", CreateOrderV1, {"invalid", "unlucky", "good"})
InterceptedRequests == Requests("l05", ProcessPaymentV1, {TRUE}, {"good"}, Metadata)
SecureRequests == Requests("l06", GetSensitiveDataV1, BOOLEAN, {"good"}, Metadata)
ReflectionRequests ==
    Plain("l07", GetUserV1, {"good"}) \cup Plain("health", Check, {"unlucky", "good"})
RestRequests == Plain("l08", GetUserV1, {"invalid", "good"})
TestRequests == Plain("l10", GetUserV1, {"invalid", "unlucky", "good"})
ObservedRequests == Plain("l11", GetUserV1, {"good"})
KeepaliveRequests == Plain("l13", GetUserV1, {"good"})
CompressedRequests == Plain("l14", GetUserV1, {"invalid", "unlucky", "good"})
MultiplexedRequests == Requests("l15", GetUserV1, BOOLEAN, {"invalid", "good"}, {<<>>})
ManagerRequests == Plain("l18", GetUserV1, {"invalid", "unlucky", "good"})
ValidatedRequests == Plain("l20", CreateUserV2, {"invalid", "good"})
RoutedRequests ==
    Requests("l22", GetUserV1,
             {"127.0.0.1:50055" \in Resolve("grpc-client-node", "user-service")},
             {"good"}, {<<>>})

EchoRequests == Plain("l09", PingV1, {"good"})
ClusterRequests == Plain("l99", GetUserV99, {"good"})

\* grpcurl asks for the schema before it calls: at 07, and at 01's server in
\* the container of 19.
GrpcurlRequests ==
    UNION { Plain(lesson, ServerReflectionInfo, {"good"}) : lesson \in {"l01", "l07"} }

Request ==
    UserRequests \cup PaymentRequests \cup OrderRequests
    \cup InterceptedRequests \cup SecureRequests \cup ReflectionRequests
    \cup RestRequests \cup TestRequests \cup ObservedRequests
    \cup KeepaliveRequests \cup CompressedRequests \cup MultiplexedRequests
    \cup ManagerRequests \cup ValidatedRequests \cup RoutedRequests
    \cup EchoRequests \cup ClusterRequests \cup GrpcurlRequests

VARIABLES
    request,    \* What the caller sent.
    ctx,        \* The call's context: "none", "open" or the error of its Err().
    stage,      \* How deep in the chain the call is, 0 outside.
    result,     \* What came back from inside; "none" on the way down.
    log,        \* The result LoggingInterceptor has logged.
    worker,     \* The goroutine: in the bank's API, at its send, over.
    selecting,  \* ProcessPayment has reached its select.
    answer,     \* What the caller got.
    crashed     \* 14's process has panicked. (Nothing restarts it.)

vars == <<request, ctx, stage, result, log, worker, selecting, answer, crashed>>
payment == <<worker, selecting>>

Frames(c) == Chain[request[c].lesson].frames
At(c) == IF stage[c] = 0 THEN "grpc" ELSE Frames(c)[stage[c]]
Down(c, frame) == stage[c] > 0 /\ At(c) = frame /\ result[c] = "none"
Returned(c) == stage[c] = 0 /\ result[c] # "none"
Gone(c) == crashed /\ request[c].lesson = "l14"

\* return handler(ctx, req)
Inside(c) == /\ stage' = [stage EXCEPT ![c] = @ + 1]
             /\ UNCHANGED result

Return(c, code) == /\ stage' = [stage EXCEPT ![c] = @ - 1]
                   /\ result' = [result EXCEPT ![c] = code]

-----------------------------------------------------------------------------
(* The caller and the connection.                                          *)

Send(c) ==
    /\ ctx[c] = "none"
    /\ \E r \in Request : request' = [request EXCEPT ![c] = r]
    /\ ctx' = [ctx EXCEPT ![c] = "open"]
    /\ UNCHANGED <<stage, result, log, payment, answer, crashed>>

\* RequireAndVerifyClientCert: without a trusted certificate the handshake
\* fails. cmux closes a connection that none of its matchers wants, and no one
\* listens for a process that is gone.
FailHandshake(c) ==
    /\ ctx[c] = "open"
    /\ \/ ~request[c].accepted
       \/ Gone(c) /\ stage[c] = 0 /\ result[c] = "none"
    /\ answer[c] = "none"
    /\ answer' = [answer EXCEPT ![c] = "Unavailable"]
    /\ UNCHANGED <<request, ctx, stage, result, log, payment, crashed>>

\* The caller's deadline passes: it has its error at once. The server's
\* context ends by its own timer or by the caller's reset of the stream.
Deadline(c) ==
    /\ ctx[c] = "open"
    /\ request[c].lesson \in DeadlineLesson
    /\ answer[c] = "none"
    /\ answer' = [answer EXCEPT ![c] = "DeadlineExceeded"]
    /\ ctx' \in { [ctx EXCEPT ![c] = err] : err \in {"Canceled", "DeadlineExceeded"} }
    /\ UNCHANGED <<request, stage, result, log, payment, crashed>>

\* The result reaches a caller that still waits.
Reply(c) ==
    /\ Returned(c)
    /\ answer[c] = "none"
    /\ answer' = [answer EXCEPT ![c] = result[c]]
    /\ UNCHANGED <<request, ctx, stage, result, log, payment, crashed>>

-----------------------------------------------------------------------------
(* The interceptors.                                                       *)

\* The server looks for the method before any interceptor runs.
Receive(c) ==
    /\ ctx[c] # "none"
    /\ request[c].accepted
    /\ ~Gone(c)
    /\ stage[c] = 0
    /\ result[c] = "none"
    /\ IF Handles(Chain[request[c].lesson].services, request[c].method)
       THEN Inside(c)
       ELSE /\ result' = [result EXCEPT ![c] = "Unimplemented"]
            /\ UNCHANGED stage
    /\ UNCHANGED <<request, ctx, log, payment, answer, crashed>>

LoggingInterceptor(c) ==
    /\ Down(c, "Logging")
    /\ Inside(c)
    /\ UNCHANGED <<request, ctx, log, payment, answer, crashed>>

\* Mutant of Authorized: the secret may stand anywhere among the values.
AuthorizedByAny(c) ==
    \E i \in 1..Len(request[c].tokens) : request[c].tokens[i] = Secret

Authorized(c) == request[c].tokens # <<>> /\ request[c].tokens[1] = Secret

\* Mutant of AuthInterceptor: the error is not returned.
AuthInterceptorFallsThrough(c) ==
    /\ Down(c, "Auth")
    /\ stage' = [stage EXCEPT ![c] = @ + 1]
    /\ result' = [result EXCEPT ![c] =
                     IF Authorized(c) THEN @ ELSE "Unauthenticated"]
    /\ UNCHANGED <<request, ctx, log, payment, answer, crashed>>

\* AuthInterceptor of 05, tokenInterceptor of 06. (A call that came over the
\* network always has metadata, perhaps none of this key.)
AuthInterceptor(c) ==
    /\ Down(c, "Auth")
    /\ IF Authorized(c) THEN Inside(c) ELSE Return(c, "Unauthenticated")
    /\ UNCHANGED <<request, ctx, log, payment, answer, crashed>>

ValidationInterceptor(c) ==
    /\ Down(c, "Validation")
    /\ IF request[c].body # "invalid" THEN Inside(c)
       ELSE Return(c, "InvalidArgument")
    /\ UNCHANGED <<request, ctx, log, payment, answer, crashed>>

\* The route /v1/users/{user_id} matches, and request_UserService_GetUser_0
\* calls GetUser; without a user_id it does not.
ServeMux(c) ==
    /\ Down(c, "ServeMux")
    /\ IF request[c].body # "invalid" THEN Inside(c) ELSE Return(c, "NotFound")
    /\ UNCHANGED <<request, ctx, log, payment, answer, crashed>>

\* 18's CreateOrder asks for the user before all else.
OrderManager(c) ==
    /\ Down(c, "OrderManager")
    /\ Inside(c)
    /\ UNCHANGED <<request, ctx, log, payment, answer, crashed>>

\* What a frame makes of the result from inside. With the user there 18's
\* CreateOrder looks at the amount; its errors carry no code.
Outcome(c) ==
    IF At(c) = "OrderManager" /\ (result[c] # "OK" \/ request[c].body = "invalid")
    THEN "Unknown" ELSE result[c]

\* A result passes a frame on its way up; LoggingInterceptor logs it.
ComeUp(c) ==
    /\ stage[c] > 0
    /\ result[c] # "none"
    /\ Return(c, Outcome(c))
    /\ log' = IF At(c) = "Logging" THEN [log EXCEPT ![c] = result[c]] ELSE log
    /\ UNCHANGED <<request, ctx, payment, answer, crashed>>

-----------------------------------------------------------------------------
(* The handlers.                                                           *)

\* 05's ProcessPayment, GetSensitiveData and CreateUser.
Handler(c) ==
    /\ Down(c, "Handler")
    /\ Return(c, "OK")
    /\ UNCHANGED <<request, ctx, log, payment, answer, crashed>>

\* 01: the input first, then the context, then the lookup.
GetUser(c) ==
    /\ Down(c, "GetUser")
    /\ \/ request[c].body = "invalid" /\ Return(c, "InvalidArgument")
       \/ /\ request[c].body # "invalid"
          /\ ctx[c] # "open"
          /\ Return(c, ctx[c])
       \/ /\ request[c].body # "invalid"
          /\ ctx[c] = "open"
          /\ Return(c, IF request[c].body = "good" THEN "OK" ELSE "NotFound")
    /\ UNCHANGED <<request, ctx, log, payment, answer, crashed>>

CreateOrder(c) ==
    /\ Down(c, "CreateOrder")
    /\ Return(c, [invalid |-> "InvalidArgument",
                  unlucky |-> "FailedPrecondition",
                  good    |-> "OK"][request[c].body])
    /\ UNCHANGED <<request, ctx, log, payment, answer, crashed>>

\* 10's GetUser, and the health service of 07.
LookUp(c) ==
    /\ Down(c, "LookUp")
    /\ Return(c, [invalid |-> "InvalidArgument",
                  unlucky |-> "NotFound",
                  good    |-> "OK"][request[c].body])
    /\ UNCHANGED <<request, ctx, log, payment, answer, crashed>>

\* The answer 18's tests have the client give.
UserServiceClient(c) ==
    /\ Down(c, "UserServiceClient")
    /\ Return(c, IF request[c].body = "unlucky" THEN "NotFound" ELSE "OK")
    /\ UNCHANGED <<request, ctx, log, payment, answer, crashed>>

\* 13's server implements no method.
UnimplementedUserServiceServer(c) ==
    /\ Down(c, "UnimplementedUserServiceServer")
    /\ Return(c, "Unimplemented")
    /\ UNCHANGED <<request, ctx, log, payment, answer, crashed>>

\* req.GetUserId()[:10] is out of range.
TooShort(c) == request[c].body = "invalid"

\* 14's GetUser.
Truncate(c) ==
    /\ Down(c, "Truncate")
    /\ ~TooShort(c)
    /\ Return(c, "OK")
    /\ UNCHANGED <<request, ctx, log, payment, answer, crashed>>

\* Nothing recovers the panic: the process ends, and with it every call at
\* the server. A result not yet on the wire may be lost, too.
Panic(c) ==
    /\ Down(c, "Truncate")
    /\ TooShort(c)
    /\ crashed' = TRUE
    /\ LET cut == {d \in Call : request[d].lesson = "l14" /\ stage[d] > 0}
           leaving == {d \in Call : request[d].lesson = "l14" /\ Returned(d)
                                                          /\ answer[d] = "none"}
       IN  /\ stage' = [d \in Call |-> IF d \in cut THEN 0 ELSE stage[d]]
           /\ \E lost \in SUBSET leaving :
                  result' = [d \in Call |-> IF d \in cut \cup lost
                                            THEN "Unavailable" ELSE result[d]]
    /\ UNCHANGED <<request, ctx, log, payment, answer>>

\* 03 up to its go statement. The context may be done by then.
ProcessPayment(c) ==
    /\ Down(c, "ProcessPayment")
    /\ worker[c] = "none"
    /\ IF Authorized(c)
       THEN /\ worker' = [worker EXCEPT ![c] = "working"]
            /\ UNCHANGED <<stage, result, crashed>>
       ELSE /\ Return(c, "Unauthenticated")
            /\ UNCHANGED worker
    /\ UNCHANGED <<request, ctx, log, selecting, answer, crashed>>

Select(c) ==
    /\ Down(c, "ProcessPayment")
    /\ worker[c] # "none"
    /\ ~selecting[c]
    /\ selecting' = [selecting EXCEPT ![c] = TRUE]
    /\ UNCHANGED <<request, ctx, stage, result, log, worker, answer, crashed>>

\* Mutant of BankDone: a send that does not wait for a receiver.
BankDoneUnheard(c) ==
    /\ worker[c] = "working"
    /\ worker' = [worker EXCEPT ![c] =
                     IF selecting[c] THEN "sending" ELSE "ended"]
    /\ UNCHANGED <<request, ctx, stage, result, log, selecting, answer, crashed>>

\* The bank has processed the payment: the goroutine sends to processChan.
BankDone(c) ==
    /\ worker[c] = "working"
    /\ worker' = [worker EXCEPT ![c] = "sending"]
    /\ UNCHANGED <<request, ctx, stage, result, log, selecting, answer, crashed>>

\* Mutant of ReceiveDone: a closed channel is received from at once.
ReceiveDoneEarly(c) ==
    /\ selecting[c]
    /\ result[c] = "none"
    /\ Return(c, "OK")
    /\ UNCHANGED <<request, ctx, log, payment, answer, crashed>>

\* case <-processChan: both goroutines go on together, trailer and response.
ReceiveDone(c) ==
    /\ selecting[c]
    /\ result[c] = "none"
    /\ worker[c] = "sending"
    /\ worker' = [worker EXCEPT ![c] = "ended"]
    /\ Return(c, "OK")
    /\ UNCHANGED <<request, ctx, log, selecting, answer, crashed>>

\* case <-ctx.Done(): Canceled, if it was the deadline as well. When both
\* cases are ready either may be taken.
ReceiveCancelled(c) ==
    /\ selecting[c]
    /\ result[c] = "none"
    /\ ctx[c] # "open"
    /\ Return(c, "Canceled")
    /\ UNCHANGED <<request, ctx, log, payment, answer, crashed>>

-----------------------------------------------------------------------------
Init ==
    /\ request \in [Call -> {[lesson |-> "l01", method |-> GetUserV1, accepted |-> TRUE,
                              body |-> "good", tokens |-> <<>>]}]
    /\ ctx = [c \in Call |-> "none"]
    /\ stage = [c \in Call |-> 0]
    /\ result = [c \in Call |-> "none"]
    /\ log = [c \in Call |-> "none"]
    /\ worker = [c \in Call |-> "none"]
    /\ selecting = [c \in Call |-> FALSE]
    /\ answer = [c \in Call |-> "none"]
    /\ crashed = FALSE

ServerStep(c) ==
    \/ Receive(c)
    \/ LoggingInterceptor(c)
    \/ AuthInterceptor(c)
    \/ ValidationInterceptor(c)
    \/ ServeMux(c)
    \/ OrderManager(c)
    \/ ComeUp(c)
    \/ Handler(c)
    \/ GetUser(c)
    \/ CreateOrder(c)
    \/ LookUp(c)
    \/ UserServiceClient(c)
    \/ UnimplementedUserServiceServer(c)
    \/ Truncate(c)
    \/ Panic(c)
    \/ ProcessPayment(c)
    \/ Select(c)
    \/ BankDone(c)
    \/ ReceiveDone(c)
    \/ ReceiveCancelled(c)

Next ==
    \E c \in Call :
        \/ Send(c)
        \/ FailHandshake(c)
        \/ Deadline(c)
        \/ Reply(c)
        \/ ServerStep(c)

Spec == Init /\ [][Next]_vars

\* The server runs; no caller need ever send, wait or give up.
FairSpec == Spec /\ \A c \in Call : WF_vars(ServerStep(c))

-----------------------------------------------------------------------------
(* Properties.                                                             *)

\* Type invariant. A result comes from a frame further in.
TypeOK ==
    /\ request \in [Call -> Request]
    /\ ctx \in [Call -> {"none", "open", "Canceled", "DeadlineExceeded"}]
    /\ stage \in [Call -> Nat]
    /\ \A c \in Call :
           /\ stage[c] <= Len(Frames(c))
           /\ result[c] # "none" => stage[c] < Len(Frames(c))
    /\ result \in [Call -> Code \cup {"none"}]
    /\ log \in [Call -> Code \cup {"none"}]
    /\ worker \in [Call -> {"none", "working", "sending", "ended"}]
    /\ selecting \in [Call -> BOOLEAN]
    /\ answer \in [Call -> Code \cup {"none"}]
    /\ crashed \in BOOLEAN

\* The notes of 05, 06 and 20: a bad request is rejected "before it even
\* reaches the core business logic". Whatever a program did for a call, a
\* payment begun or an OK, the call had the right token as its first one, a
\* connection that was accepted, and a body without fault where one is looked
\* for (14 takes an id of ten bytes).
OnlyCheckedRequestsServed ==
    \A c \in Call :
        worker[c] # "none" \/ (Returned(c) /\ result[c] = "OK") =>
            /\ request[c].accepted
            /\ request[c].lesson \in BodyLesson =>
                   \/ request[c].body = "good"
                   \/ request[c].lesson = "l14" /\ request[c].body = "unlucky"
            /\ request[c].lesson \in TokenLesson =>
                   /\ request[c].tokens # <<>>
                   /\ request[c].tokens[1] = Secret

\* A call fails for want of a server or of a method only when it had to: a
\* caller is told Unavailable when its connection was not to be accepted, or
\* when a user_id of less than ten bytes was sent to 14's server (then every
\* caller of it may be), and Unimplemented by 13's server, or asking for
\* reflection where there is none. Every name that stubs, registrations and
\* 22's snapshot have to agree on they agree on.
FailsForCause ==
    \A c \in Call :
        /\ answer[c] = "Unavailable" =>
               \/ request[c].lesson \in {"l06", "l15"} /\ ~request[c].accepted
               \/ /\ request[c].lesson = "l14"
                  /\ \E d \in Call : request[d].lesson = "l14" /\ request[d].body = "invalid"
        /\ answer[c] = "Unimplemented" =>
               \/ request[c].lesson = "l13"
               \/ request[c].lesson = "l01" /\ request[c].method = ServerReflectionInfo

\* "Order matters: Logging runs first (to catch auth rejections)", 05: every
\* call that has gone through the chain is in the log, with the result the
\* caller is given, rejected or not.
LoggedAsAnswered ==
    \A c \in Call :
        request[c].lesson = "l05" /\ Returned(c) => log[c] = result[c]

\* A caller is told SUCCESS only of a payment the bank has processed, however
\* its deadline, the bank's answer and the two cases of the select race.
SuccessIsPaid ==
    \A c \in Call :
        request[c].lesson = "l03" /\ answer[c] = "OK" => worker[c] = "ended"

\* Every call that entered the chain comes out of it. The send to
\* processChan finds its receiver, with or without a deadline, and if the
\* bank is done before the handler has reached its select; and a panic leaves
\* no caller of the process without an end.
HandlersReturn == \A c \in Call : stage[c] > 0 ~> Returned(c)
=============================================================================
