# A TLA+ model of go-grpc-101

This directory holds TLA+ specifications of the programs in this repository,
TLC configurations that check them on small instances, and proofs that TLAPS
checks for every value of their constants.

The repository is a course in gRPC for Go: 26 numbered lessons, each a client
and a server of their own, and a production-ready cluster (topic 99) that puts
the lessons together on Kubernetes. The programs share no code but the generated
`pb/`. What makes them worth a model is not their size but what they run beside:
an informer that calls back late, clients whose streams break, a circuit breaker
in front of a rate limiter under concurrent calls, a drain that races a timeout,
goroutines that outlive their handler, pickers that are stale when used.

## Inventory

| Part (source) | State it keeps | Operations | What is hard |
|---|---|---|---|
| xDS control plane (`99-…/xds-control-plane/main.go`) | `endpointsMap`, `version`, the snapshot cache, all in memory; behind it the informer's indexer and its queue | Add/Update/Delete handlers, resync every 30 s, `handleEndpointUpdate`, start | events late, merged or missed; tombstones; crash and restart; one snapshot for all services |
| its clients (channels of gateway and order service) | stream, accepted version, routes | subscribe, take in, acknowledge, reconnect | version strings that come again after a restart; what a client keeps while its stream is down |
| API gateway (`99-…/api-gateway/main.go`) | its breaker | `POST /v1/orders` behind cmux, breaker around every call, shutdown | concurrent calls share one breaker; clients hang up; one deadline for two shutdowns |
| order service (`99-…/order-service/main.go`) | rate limiter, health status | `CreateOrder`, `Check`, shutdown | one bucket for callers, the breaker's probes and the kubelet's; it calls user-service with its caller's context, with no deadline of its own |
| user service (`99-…/user-service/main.go`) | health status | `GetUser`, shutdown | drain |
| 02 streaming | two streams, `waitc` | `MonitorTemperature`, `LiveAlerts`, client send and receive loops | two goroutines, both directions race, broken streams |
| 03 metadata and context | the channel of each call | `ProcessPayment` | a goroutine that outlives its handler; deadline against answer |
| 05 interceptors, 06 security, 20 validation | how deep a call is in its chain, the log | checks before a handler | order of the chain, results on their way out |
| 01, 04 unary calls and errors | none | `GetUser`, `CreateOrder` | error codes, a context that is done |
| 07, 08, 10, 11, 13, 18 | none | handlers, the REST proxy, a function around a client's call | names that stubs and registrations must agree on |
| 14 compression | the process itself | `GetUser` | a panic that takes every other call with it |
| 15 multiplexing | cmux on one port | REST and gRPC | connections that no matcher wants |
| 22 xDS lesson | a fixed snapshot | serve it | names that must meet across four resources |
| 09 round robin, 21 custom balancer | resolver, picker, turn | `Build`, `Pick` | stale picker, map order, turns of pickers that were replaced |
| 12 rate limiting | token bucket | interceptor | burst boundary |
| 16 circuit breaking | gobreaker's state, generation and counts | interceptor, fault-injecting server | late results, half-open probes |
| 17 retries | server's attempt counters | `GetUser`, `UpdateUser` | lost answers, retries of work already done |
| 26 graceful shutdown | health status, `stopped` | signal, drain with timeout guard | either case of the `select`; SIGKILL |
| 19, 23, 24, 25 | none | a Dockerfile, documents, sysctl values | none |

How they interact: Kubernetes' endpoints reach the control plane through the
informer's callbacks; the control plane's snapshot reaches the gateway and the
order service as xDS clients; the gateway calls the order service through
its breaker; the order service calls the user service; the kubelet's probes enter
the order service through the same interceptors as the callers do; SIGTERM starts
each process's shutdown. In the lessons a client and a server exchange messages
over one connection.

What correctness means, part by part:

* control plane: no update is lost between the API server and the snapshot; the
  snapshot never goes back to an older state; services do not disturb one
  another; once the cluster is quiet the snapshot is right, across crashes.
* mesh: a client routes to what its service was at one moment and never to an
  older state after a newer one; once all is quiet it routes to the ready pods.
* breaker: results are counted in the generation that admitted the call; no more
  probes than allowed; only infrastructure failures open it; it recovers.
* request path: the limiter keeps its rate behind the gateway; a half-open
  breaker's probes are not lost to it; breaker and pod both come back.
* shutdown: no wait for RPCs lasts until SIGKILL, which can meet the tracer's
  flush at most; nothing shorter than the wait is cut; what is logged as clean is
  clean.
* streams: every alert, once, in order, and the client ends only with all of them.
* unary servers: nothing is served, and no payment begun, that a check should
  have rejected; what is logged is what the caller gets; SUCCESS only of what the
  bank has done; every handler returns; a call fails for want of a server or a
  method only where it had to.
* balancers: an RPC finds a ready server; round robin serves from all of them.
* limiter: burst and rate hold over every window; a withdrawn pod comes back.
* retries: the server's failures alone are never told to a client, and no update
  is repeated but for a broken connection.

## Modules

`X.tla` is the model of a part, `MCX.tla` its instance for TLC, `X_proofs.tla`
the theorems about it, `X_<question>.cfg` a run. Every definition that models
code is tied to its lines in `PROJECT.json` ("map"). A definition marked
"Mutant of D" is D with a plausible bug; each property is violated when one of
them takes D's place.

    Directory (abstract) <--- Mesh ---EXTENDS---> ControlPlane
    Gobreaker <---INSTANCE--- OrderPath ---EXTENDS---> RateLimiter (abstract for it)
    Gobreaker <---EXTENDS---- CircuitBreaker
    Services  <---EXTENDS---- UnaryServers, SensorStreams
    GracefulShutdown, HashPicker, Retries stand alone

### ControlPlane

| Model | Code |
|---|---|
| `objects`, `revision` | the API server's Endpoints objects and resource version |
| `store`, `events` | the shared informer's indexer and the handler's queue |
| `endpointsMap`, `version`, `snapshot` | the globals of `main.go` and the cache's entry for `nodeID` |
| `Observe` | a watch event, or a relist after a lost watch that skips versions; a deletion found by a relist is a `Tombstone` |
| `Resync` | the 30 s resync |
| `HandleNotification` | the handler functions and `handleEndpointUpdate`, whole |
| `PanicOnTombstone` | the type assertion in `DeleteFunc` |
| `Crash`, `Restart` | the process; everything is in memory |

A snapshot is abstracted to its version and, per service, the load assignment:
listener, route and cluster have contents fixed by the service's name and are
built by the same loop. A deleted object keeps its last addresses, as the
informer's DELETED event does, which is what the handler is given.

### Directory and Mesh

`Directory` is what the mesh promises: per service the states it has been in
(`published`), per client the one it routes by (`view`), which only moves to one
at least as new; a directory that lost its memory may take a route away.

`Mesh` extends `ControlPlane` with the clients. A client has one ADS stream on
which its request, which says the version it has `accepted`, and a response go in
turn; `CreateWatch` is the snapshot cache's answer or the watch it keeps,
`SetSnapshot` the watches a new snapshot answers, in the same step as the handler
(`HandleAndPush`). `Break` and `BreakAll` are a lost stream and the end of the
process; the client goes on with what it knows and reconnects. The cache compares
version strings only, so a snapshot that is numbered as one a client has had in
the life of an earlier process is not sent to it, unless the stream has not yet
carried the service (`known`). The cache and grpc-go's client are not in the
repository and are modelled from how the code uses them. Listener, route, cluster
and endpoints of a service are requested as one: they are always built together.

`Mapped == INSTANCE Directory WITH …` maps `written` (every state a service has
been in) to `published` and a restart to `lost`; `ImplementsDirectory` is checked
and proved.

### Gobreaker and CircuitBreaker

`Gobreaker` has gobreaker's algorithm (generation, counts, `beforeRequest`,
`afterRequest`) as operators and the settings of both programs, `ClientSettings`
(16) and `GatewaySettings` (99). `CircuitBreaker` is the interceptor:
`Invoke`/`Reject` is `Execute` up to the call, `Return` is the call's result and
its report. Between them the breaker has no lock, so generations pass. `Expire`
is the breaker's `Timeout`, `Heal` the end of the server's faults.

### RateLimiter

The interceptor with `x/time/rate` before `CreateOrder` and before the health
service, with the kubelet's two probes: `Check`, `Miss`, `Restart`. `Forget` and
`Straggle` are requests whose caller has hung up, in the handler and before it
came: the limiter counts them as any other. One unit of time is the readiness
probe's period. `window` and `admitted` observe a window
that may begin at any moment.

### OrderPath

`POST /v1/orders` through gateway, order service and user service; it extends
`RateLimiter` (the order service) and takes the breaker from `Gobreaker`.
`Refuse` and `Post` are `Execute` before the RPC, `Arrive` the limiter and the
handler, `FetchUser` its call of the user service, `Deliver` the answer and its
report to the breaker. `Unroutable` is the pod that the control plane has
withdrawn. `HangUp` cancels a client's call: the breaker counts it at once, and
the client may call again at once. What becomes of the request is `Abandon`: if
it was still on its way it may arrive yet (`stray`), find the limiter and take a
token for nobody (`Stray`), or its cancellation overtakes it; if a handler serves
it, the handler goes on as an `orphan` whose result nobody takes (`Discard`). There
is one replica of each service, with which the autoscalers of `k8s/` begin. The
breaker's generation is kept at 0; when a new one begins the calls of the old one
become `stale` instead, which keeps the state finite without bounding
generations. `TickAll` lets time pass for bucket, probes and breaker alike.

### GracefulShutdown

`main()` from the signal to the end, of four programs:

* `guarded`: 26's server: health status, then `GracefulStop` against `time.After`.
* `service`: the order and user services: the metrics server is shut down between
  the two, and the deferred tracer shutdown comes last. In both programs `stopped`
  is the channel of that name; `Stop` makes `GracefulStop` return as well, so it may
  be closed after the `select` is over, and `StoppedIsClean` is about the `select`
  only.
* `gateway`: `HttpShutdown` of the HTTP server and of the metrics server under one
  deadline of 8 s, then `CloseGateway`: cmux, a gRPC server without services, and
  the deferred `conn.Close`, which cuts what HTTP requests still wait for, and the
  tracer.
* `lesson`: 01 and 06, whose `GracefulStop` has no guard (`ReturnStopped`). Their
  handlers are unary and end by themselves.

The flush of the tracer has no deadline of its own (`context.Background()`): a full
queue is exported in batches, each of which may take its exporter's whole timeout.
`Flush` is what they add up to, and the theorems hold whatever it is. `Kill` is
SIGKILL at the end of the grace period.

Time is discrete; what the runtime can do at once happens before time passes
(`Tick`'s guard), except that either ready case of a `select` may be taken. RPCs
have any length, or (not in lessons) are streams that never end. `Refuse` is
traffic that Kubernetes still routes to the closed port.

### Services

The generated code of `pb/`: the description that each `RegisterXxxServer`
registers, the full method each stub invokes, and `Handles`, by which a server
finds a handler or answers Unimplemented.

### SensorStreams

Both streams of lesson 02: the client's `main()` (`OpenMonitorTemperature`,
`RecvUpdate`, `OpenLiveAlerts`, `Send`, `CloseSend`, `Exit`), its receiving
goroutine (`RecvAlert`) and the server, which takes a stream whose method it has
(`Accept`) and runs its handlers. A stream is a FIFO in each direction; `Break`
loses what is under way, the end of the stream included, and fails both sides.
Readings are tenths of a degree.

### UnaryServers

A unary call at the servers of lessons 01, 03 to 11, 13 to 15, 18, 20 and 22 and
at 99's user-service. `Chain` is what each program registers and, outermost
first, what it puts in a request's way; `Request` is every kind of request the
lessons' clients and tests make: lesson, method, whether its connection is
`accepted`, a `body` that is invalid, unlucky or good, and the authorization
values (`tokens`). `Receive` looks the method up before any interceptor runs;
`stage` is how deep the call is, `result` what comes back: an interceptor sees
the call on its way down (`LoggingInterceptor`, `AuthInterceptor`,
`ValidationInterceptor`, and the REST proxy, `ServeMux`) and, if it called
`handler(ctx, req)`, the result on its way up (`ComeUp`). The other actions are
the handlers. `ProcessPayment` of 03 is in steps: the token check and the `go`
statement, the goroutine (`BankDone`), the two cases of the `select`
(`ReceiveDone`, a rendezvous as the channel is unbuffered, and
`ReceiveCancelled`). `Panic` is 14's slice expression on a short id: the process
is gone, with all its calls. 18's `OrderManager` is a client's function around
GetUser; its chain is the call of that function. `Snapshot` is the one that 22's
control plane sets, and `Resolve` what a client finds by its names. The caller's
`Deadline` may pass at any moment where the client sets one (01, 03, 06, 09). 03
checks the token in the handler, 05 and 06 in an interceptor, with the same
condition (`Authorized`); the secrets differ and are abstracted to one.

### HashPicker

The balancing clients of 21 and 09. The resolver reports the servers once
(`Resolve`), connections come and go (`Start`, `Lose`), and the base balancer has
a picker built of the ready ones (`Build`). 21's `Build` may return them in any
order, since it ranges over a Go map, and its `Pick` takes the user's hash modulo
their number. 09's round_robin has a turn (`next`) that is drawn with every
picker and counted by the calls that loaded it; its calls give up after a second
(`Deadline`). A picker without connections is the base balancer's error picker once
they failed: `Fail` ends an RPC that finds it. The base balancer, round_robin and
the loop of grpc-go that waits for a better picker are external.

### Retries

The two calls of lesson 17's client. `GetUser` has one attempt: its hedging
policy is ignored by grpc-go, and the server is slow with the first request it
ever gets; a request that is on its way when the deadline fires may arrive yet
(`FailGet`). `UpdateUser` goes under the retry policy: attempts, backoff, deadline,
a connection that breaks before the server has the request, while it has it or
when its answer is on the way (`Cut`). If the headers of an OK had come by then,
grpc-go has committed the attempt and the call ends UNAVAILABLE with attempts left;
otherwise it is retried. The server's counters are shared by all
clients.

## Runs

| Run | Question | Bounds, and why they suffice |
|---|---|---|
| `control_plane_informer` | Do `NothingLost`, `NeverBackwards`, `Isolation` and `EventuallyAdvertised` hold under all interleavings and one crash (plus any panic on a tombstone)? Is `Inv`, which the proofs use, an invariant? | Two tracked services and one that is not, two addresses, three writes (create, change, delete, or any mix over the services), three queued notifications, resyncs up to version 2. Three writes let an object be created, deleted and created again. The queue is longer than the resyncs can fill, so that `Observe` is never kept from it by the bound. |
| `control_plane_deleted` | Violated: a deleted service is not withdrawn. | the same, no crash |
| `control_plane_mesh` | `ImplementsDirectory`, `EventuallyRouted`, and `MeshInv` of the proofs | One client (clients share nothing but the snapshot), one address that is ready or not (states are told apart by their resource version), three writes, two queued notifications, versions up to 2 and one restart, so that version 1 and 2 come again with other contents. Its stream breaks without bound. |
| `breaker_client` | `Accounted`, `ProbesBounded`, `OnlyInfrastructureTrips`, `Recovers` | Three concurrent calls, one success and two kinds of error. Two probes and two failures (the programs have 1/3 and 100/6), so that one probe can end while another is in flight and consecutive failures can be interrupted. Three failing generations: open, half-open, open again, so that results come two generations late. Four counted requests. |
| `order_path` | `WithinRate`, `ProbesSpared`, `GatewayRecovers`, `Readmitted` | Two clients that call and hang up at will, and one cancelled request that is still on its way (`MaxStray`); a bucket of 5 that refills in one unit, 5 s (the code: 500/s, burst 1000, and a breaker timeout of 5 s, which fills the bucket as well); one probe of the breaker, tripped by two failures (code: 100 and 6); kubelet probes every unit and every second one, with two misses. Two clients and a cancelled request are one for the probe and two stragglers, and the most for which a bucket of 5 has room (`RoomForProbes` of the proofs holds with equality). Nothing but the window (1) is cut off: deadlock is checked. |
| `shutdown_pod` | `KilledOnlyInFlush`, `ZeroDropped`, `StoppedIsClean`, `Terminates`, for the four programs | Two RPCs. A unit is 2 s, rounded up: metrics 3 s is 2, the drain of 10 s is 5, the gateway's 8 s is 4, the grace period 30 s is 15; the flush is 25, five exports of about 10 s, so that it outlasts the grace period and `Kill` is met. Handlers take 0, 4, 5, 6 units or for ever: shorter than, as long as and longer than either wait. |
| `streams_client` | `AlertsInOrder`, `ExitsWithAllAlerts`, `WholeClientExits` | The code's five updates and five readings, one of them changed to exactly 30.0; two broken connections, one for each stream. |
| `streams_broken` | Violated: the client does not end when a stream breaks. | one broken connection |
| `unary_calls` | `OnlyCheckedRequestsServed`, `LoggedAsAnswered`, `SuccessIsPaid`, `FailsForCause`, `HandlersReturn` | Two calls to any of the servers, each with every kind of request its clients make, with up to two authorization values, right or wrong, which is where the first value and any value differ. Calls share nothing but 14's process, so two are enough. |
| `picker_reroute` | `Rerouted`, `Distributed` | Both clients, three connections (as many as 09 has servers) that come and go without bound, one user and RPCs without user, one RPC at a time. RPCs share only the picker and its turn. |
| `picker_sticky` | Violated: a user moves to another server though the servers are the same (21 rebuilds its picker only after a change, so a connection went and came back). | two connections, two users whose hashes differ modulo 2 |
| `retries_update` | `FailuresAreHidden`, `AppliedOnce`, `CallsEnd`, and `Inv` of the proofs | Two clients, the policy's four attempts, the server's two failures, two broken connections, at any point of an attempt, within an answer included: for one call just as many as exhaust its attempts, which `FailuresAreHidden` must allow for. |

Deadlock is not checked where the system may stop: a process that has exited,
calls that have all ended, or counters at their bound. The pickers and the
request path never stop, and deadlock is checked there.

### Fairness

Fairness is weak, per action (in `UnaryServers` per call), and only on what the
runtime, Kubernetes or time will do by itself: goroutines that can run do run, a
crashed container is restarted, a process is killed when its grace period is over,
timers fire, calls that were sent are served.
Nothing is assumed of deadlines, of writes to the cluster, of crashes or of
broken connections.

* `FairMeshSpec` adds that clients reconnect (grpc-go does, with backoff), that
  streams are served and that the informer's resync fires. A stream need not
  break; `EventuallyRouted` has the premise that it stays up in the end.
* `FairOrderSpec`: time, the kubelet's probes and restart, and whatever is under way
  at gateway and order service or between them (`Stray`). Clients need not call.
  `GatewayRecovers` has premises of its own: requests stop failing (a server that is
  broken for good keeps its breaker open), and clients call again unless refused.
* `breaker_client` assumes that the server recovers (`Heal`), that users keep
  calling and that calls end, which is what `Recovers` is about.
* `picker_reroute` assumes that a picker is rebuilt when the ready connections
  differ from its own, which is the base balancer's contract. `Distributed` has
  the premises that picker and connections stay and that the client is served
  again and again.

`HandlersReturn` and `CallsEnd` hold without fairness of the deadline.

## Findings

* `DeletedIsWithdrawn`: `DeleteFunc` hands the deleted object's last state to
  `handleEndpointUpdate`, which stores its addresses. The service stays
  advertised until the process restarts. The loop over the services is commented
  "Skip if no healthy pods".
* `ClientExits`: on an error other than `io.EOF` the receiving goroutine returns
  without closing `waitc`; `main()` waits for ever. `WholeClientExits` says what
  does hold.
* `SameServer`: a picker rebuilt over the same servers, after a connection was lost
  and came back, orders them anew, so
  "the exact same server every time" does not hold; `Rerouted` does.

Divergences met while modelling, without a run of their own:

* `03-metadata-context/server/main.go:49` says "We must halt our work" in the case
  of a cancelled caller. The handler returns, but its goroutine goes on: the bank
  processes the payment and the goroutine stays blocked at its send for ever.
* `26-graceful-shutdown/README.md:69` says the pod is withdrawn "before the socket
  completely closes". `GracefulStop` closes the listener right after the status is
  set; `GracefulShutdown` models the calls refused meanwhile.
* The gateway logs "stopped cleanly" (`api-gateway/main.go:177`) whether or not
  HTTP requests were cut when its 8 s were over; the error of `Shutdown` is dropped.
* `16-circuit-breaking/README.md:33` says a breaker should never trip on business
  errors. The gateway's settings have no `IsSuccessful`, so the assumption of the
  theorem `InfrastructureTrips` (`Settings.failures \subseteq Infrastructure`)
  does not hold for `GatewaySettings`, and in `OrderPath` invalid bodies and
  clients that hang up open the breaker for everyone.
* The order service's interceptor limits the health probes too, while
  `99-…/README.md:62` speaks of zero-downtime routing by those probes: a serving
  pod under load is withdrawn, and restarted. `RateLimiter` models this, and
  `Readmitted` says that it ends with the load.
* `ProbesSpared` needs few enough concurrent clients, and cancelled requests still
  on their way, for the bucket (`RoomForProbes`). The code's numbers give room for
  899 of them together (`ProbesAreSparedFrom899`), its load test has 10000 virtual
  users, and nothing in the code sees to it. It also needs the gateway to be the
  only one: a second one, with a breaker that is closed, may empty the bucket
  before the first one's probes.
* `99-…/README.md` draws a rate limiter and keepalive in the gateway (line 27), a
  different snapshot per client (line 45: there is one node id and one snapshot),
  and speaks of `hpa.yaml` (2 to 6 replicas of the order service), `pdb.yaml` and
  `configmap.yaml` (lines 57 to 59). `k8s/` has no such files: autoscalers,
  disruption budgets and config maps are in the manifests of the three services,
  each of which begins with one replica and keeps at least one (up to 6 order and
  user services, up to 4 gateways). The control plane has one replica and no
  autoscaler.
* The deferred tracer shutdown of 99's three services is given
  `context.Background()` (`order-service/main.go:65`, `user-service/main.go:58`,
  `api-gateway/main.go:61`). With the collector down, a full queue takes longer to
  give up than the grace period lasts. `KilledOnlyInFlush` says that spans are all
  that SIGKILL can then take; their own waits are over.
* 17's README says that "the client side only sees a single successful RPC call"
  (line 37). That is so of the server's failures. A
  connection that breaks within the answer to an update that was carried out ends
  the call UNAVAILABLE with attempts left; `FailuresAreHidden` says just when a
  client can see it.
* `xds-control-plane/main.go:118` says that resources are built "for ALL tracked
  services"; after a start the first snapshot holds those whose notification was
  handled so far, and a client that asks then loses the route of the others.
* The control plane's version counter begins at 1 again after a restart. A client
  that holds the same version string keeps its old route until the next change or
  the resync after 30 s; `EventuallyRouted` depends on the resync.
* 13's client drops the error of its first call and says that the second one
  succeeds; its server implements no method, so both end Unimplemented.
* 17's README explains hedging; grpc-go has retries but no hedging, and ignores
  the `hedgingPolicy` of the service config.
* 14's handler takes the first ten bytes of the id without looking at its length:
  a shorter id ends the process.
* REST requests without a `user_id` (08, 15) are 404, while the same handler
  accepts an empty id over gRPC.
* 19's README calls 01's server with grpcurl, which needs reflection or a proto
  file; the server registers no reflection, and the call ends Unimplemented.
* 09's turn is drawn anew with every picker, so requests are distributed evenly
  only while the connections stay.

## Proofs

All theorems hold for any number of services, clients, addresses, calls and RPCs
and any times and rates; the bounds of the modules are constants there, so they
hold for every bound. The assumptions are the named `ASSUME`s of the modules,
which TLC evaluates in the runs; `Retries` needs finitely many clients, as it
counts attempts. Two theorems need more of the constants than the code's
programs share, and state it as their hypothesis: `InfrastructureTrips`, which 16's
settings satisfy and the gateway's do not, and `ProbesAreSpared`, which the code's
values satisfy with up to 899 clients and cancelled requests at a time
(`ProbesAreSparedFrom899`). `GraceAssumption` says that what comes before the flush
is shorter than the grace period, as the values of the code and Kubernetes' 30 s
are.

* **Mesh_proofs, control plane.** The inductive invariant is `Inv`, checked by
  `control_plane_informer`. `SnapshotIsCurrent` ties the snapshot to the map.
  `Ordered` says that resource versions only go up along the way of an object:
  API server, indexer, queue from tail to head, map. `LastIsCurrent` says that the
  last notification of a service, handled or queued, is of the state the indexer
  holds. `NothingLost` alone is not inductive: with a notification still queued it
  says nothing, and `LastIsCurrent` is what it becomes then. One lemma per action,
  `NotifyPreserves` for what `Observe` and `Resync` share, `HandlePreserves` for
  the handler, `FreshIsConsistent` for the start and every crash. `NeverBackwards`
  follows from `Ordered`; `Isolation` from `SnapshotIsCurrent`.
* **Mesh_proofs, clients.** `MeshImplementsDirectory`: every step of the mesh is a step of
  `Directory` or a stutter. The invariant is `MeshInv`, beside `Inv`, which every
  step of the mesh keeps as a step of `ControlPlane` (`MeshKeepsInv`). `Recorded`
  says that every state at the API server, in the indexer, queue or map, or in a
  response is one the service has been in, which makes a client's step a `Learn`;
  `NothingOlder` that no version on its way to a client is older than the client's
  own. After a crash the map knows nothing of a service until it hears of it, which
  is the 0 that `NotOlder` allows and the step `LoseRoute` of the directory.
* **CircuitBreaker_proofs.** The invariant adds to `Accounted` and `ProbesBounded`
  that no call is of a generation yet to come and that a new generation begins
  with no call of its own (`NewGenerationIsSound`), which is why late results
  cannot be counted. `InfrastructureTrips` assumes
  `Settings.failures \subseteq Infrastructure`.
* **OrderPath_proofs, limiter.** `WithinRate` is strengthened to `tokens + admitted <=
  Burst + Rate * window`, tokens of a full bucket being lost, never saved up.
* **OrderPath_proofs, gateway.** `ImplementsLimiter`: behind the gateway the order service
  is still `RateLimiter!Spec`, step by step, so `RateIsKeptBehindGateway` follows
  from the limiter's own theorem. `OrderTypeCorrect` has the breaker's type along
  all its operations, with calls that turn stale, and that every handler serves a
  client that waits or is an orphan.

  `ProbesAreSpared` says that a half-open breaker's probes are never refused by
  the limiter, under `RoomForProbes`: the bucket has a token for every client but
  one, every cancelled request that may still arrive, every probe of the breaker and
  every probe of the kubelet, and the breaker's timeout brings as many as the first
  three need. `ProbesSpared` is far
  from inductive, as it says nothing before the breaker half-opens. `Filling` is
  what holds while it is open: however many requests are still on their way
  (`Pending`: those that clients wait for, `OnTheWay`, which are one fewer than the
  clients since one has just failed, and the strays) and however many kubelet's
  probes are due, the bucket less those has what the time so far
  brought (`Brought`), or all the probes need. `Reserved` is what that becomes: a
  token for each request on its way, each kubelet's probe that is due and each
  probe the breaker has still to admit. `ProbesAreSparedFrom899` puts in the code's
  numbers.
* **GracefulShutdown_proofs.** `TimersOK`: until the flush, timer and elapsed time
  add up to at most the timeouts so far, which by `GraceAssumption` are together
  below the grace period. So SIGKILL can find `main()` in the flush only, and 26's
  server never (`ExitsInTime`). Nothing is assumed of the flush.
  `HandlersOK`: during the wait a handler that still runs has run as long as the
  wait, so what is cut needs the whole of it (`NothingShortIsDropped`). `DrainOK`:
  nothing starts once the listener is closed.
* **Retries_proofs.** `Inv` counts: every attempt of a client but the last was
  failed by the server or by a connection that broke (`Accounted`), and the server
  fails no more than `FailFirst` in all (`FailuresBounded`). So a client that ran
  out of attempts had enough broken connections, and one that was told UNAVAILABLE
  before had one within the answer (`AnswerBroken`; `FailuresStayHidden`), and each
  update carried out beyond the first has one of its own (`UpdatesAreAppliedOnce`).
  The lemmas on finite sets (`OneAttempt`, `FewerAttempts`, `CounterKeepsUp`) do
  the arithmetic.

  What makes a client's calls end is proved as well. `CallStepsRunOut`: every step
  leaves a client's calls as they are or lowers `Left`, which starts at
  6 + 5 * `MaxAttempts`: three steps each for the program and its `GetUser`, and
  five for each attempt. `CallsAreNeverStuck`: until the client has ended, it or the
  server for it has a step to take, since what it waits for was sent and was not
  lost without its knowing (`Waits`). `CallsEnd` adds the fairness.
* **UnaryServers_proofs.** The argument goes along the chain. `Sound` is what it
  needs to know of a chain, and `ChainsAreSound` goes through them. `Checked`: a
  request on its way down has passed the check of every frame above it, and an OK
  has satisfied the check of every frame below. `Entered`: nothing has happened to
  a call before it is sent or without a connection. `Paid`: 03's goroutine belongs
  to a call with the token, and OK comes after it has ended. `Logged` is
  `LoggedAsAnswered` for one call. Most frames either pass a request on
  (`InsidePreserves`) or give a code back (`ReturnPreserves`); `PanicPreserves` is
  the one step that changes many calls.
  `FailuresHaveCauses` has an invariant of its own on top, `Causes`: an error that
  says there is no server or no method comes from the request itself or from the
  end of 14's process, which a call with a short id caused (`Culprit`); what is
  left to show is that every request of the lessons finds its handler
  (`StubsMeetRegistrations`) and 22's client its server (`SnapshotLeadsToServer`).

  `CallStepsRunOut` and `CallsAreNeverStuck` are what `HandlersReturn` rests on
  beside the fairness. `StepsLeft`: at most six frames down and up, four steps of
  the bank and the select, the answer and the end of 14's process, and the call
  itself; every step of the system uses up one of some call, and changes no other
  call but to end it. `Heard` is why the rendezvous of 03 cannot be missed: the
  goroutine is over only when the handler has a result.

* **SensorStreams_proofs.** The invariant (`StreamInv`) has the protocol in three
  stages, since both directions run at once. `Serving`: there is an n such that
  the readings after the n-th are on their way to the handler, followed by the end
  of the stream if `main()` has closed its side, and what the client received,
  followed by what is on its way back, lists the hot ones among the first n.
  `Served`: the handler has returned, and `io.EOF` is the last message back.
  `Broken`: all that is left is one error, which does not close `waitc`. The lemmas
  on lists (`HotListed`, `ColdListed`, `PrefixListed`) carry the list from reading
  to reading. The property says what is listed by an increasing function between
  places (`Lists`), so no recursion over the readings is needed.

  That the client ends is liveness, but what makes it end is proved.
  `WorkRunsOut`: every step lowers the natural number `Work`, so no behaviour has
  more than 14 steps, two more for each update and three more for each reading.
  `WholeClientIsNeverStuck`: while the connection holds, client and server never
  wait for each other, so one has a step to take until `main()` has exited. What
  `WholeClientExits` adds is that a process which can go on does.
* **HashPicker_proofs.** `TypeCorrect`: the hashed index of 21 and the turn of 09
  are within the picker's connections, although pickers are replaced by shorter
  ones between an RPC's loading one and its pick. It assumes that there is a server.

Only model-checked: every liveness property (`EventuallyAdvertised`,
`EventuallyRouted`, `Recovers`, `GatewayRecovers`, `Readmitted`, `Terminates`,
`WholeClientExits`, `HandlersReturn`, `Rerouted`, `Distributed`, `CallsEnd`), since
fairness and ENABLED are beyond the prover, and the three refuted properties,
which are counterexamples. Every invariant and every action property that a
passing run checks is proved, as is the refinement of `Directory`.

## Not modelled, and why

* The messages of `pb/` (`*.pb.go`): encoded data. Of the generated code the
  services, stubs, handlers and the proxy's route are modelled.
* Wording, logging, metrics and traces: the tracer and the metrics servers are
  there only in the shutdown; nothing that they record feeds back.
* Dockerfiles, sysctl and manifests but for the values the models use as constants.
* The libraries but for what the programs rely on: the informer, the snapshot
  cache, gobreaker, `x/time/rate`, grpc-go's balancer, retry loops and xDS client.
  They are modelled from how the code uses them. cmux's matching of bytes is
  abstracted to whether a connection is accepted.
* 13's keepalive: pings, idle and age limits and the enforcement policy live in
  grpc-go's transports; the code of the lesson sets them and sees none of them.
* Two Endpoints objects of one name in two namespaces: the manifests deploy one.
* Several replicas: the control plane has one; gateway, order and user service begin
  with one and may be scaled up to 4, 6 and 6. The models have one of each. With
  more order services a bucket gets a part of the requests, so one is the worst for
  the callers' share; several gateways at one bucket are a question of their own.
* The rich error details of lesson 04 and the trailers of 03: data that no
  behaviour depends on.
* 19, 23, 24 and 25 have no Go code.

## Plan

What is left, in the order of what could be wrong:

1. The safety half of the other liveness properties, as for the streams, the
   retries and the unary calls: steps that run out and one that is always left, for
   `Terminates`, and what a client of the mesh still has to learn for
   `EventuallyRouted`.
2. More than one replica, as the autoscalers may start them: several gateways, each
   with its breaker, before several order services with a bucket each, and a picker
   in between.
