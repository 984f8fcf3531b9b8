-------------------------------- MODULE Mesh --------------------------------
(***************************************************************************)
(* The xDS control plane with its clients: the API gateway's channel to    *)
(* xds:///order-service and the order service's to xds:///user-service.    *)
(*                                                                         *)
(* A client has one ADS stream. On it go, in turn, its request, which says *)
(* the version it has accepted, and a response. The server (go-control-    *)
(* plane's snapshot cache) answers at once or keeps the request as a watch *)
(* until a snapshot of another version is set. The listener, route,        *)
(* cluster and endpoints of a service are requested as one here: they are  *)
(* always built together, and a client without any of them has no route.   *)
(***************************************************************************)
EXTENDS ControlPlane

CONSTANTS
    Client,     \* The gRPC channels that use the control plane.
    Target      \* The service in the xds:/// target of each.

ASSUME TargetAssumption == Target \in [Client -> Tracked]

VARIABLES
    stream,     \* A client's stream: "down", or where its turn is: a
                \* "request", the "watch" kept of it, or a "response".
    accepted,   \* The version its next request says it has accepted.
    known,      \* The last response on this stream held the service.
    response,   \* The response on its way.
    view,       \* What the client routes by.
    written     \* Every state each service has been in (for the properties).

streams == <<stream, accepted, known, response>>
clients == <<streams, view>>
meshVars == <<vars, clients, written>>

-----------------------------------------------------------------------------
(* Data.                                                                   *)

Response == [version: Nat, rv: Nat, route: SUBSET Address]
NoResponse == [version |-> 0, rv |-> 0, route |-> {}]

\* A client's addresses, with the resource version they were read at.
View == [rv: Nat, route: SUBSET Address]
NoView == [rv |-> 0, route |-> {}]

\* The targets of the two channels: xds:///order-service, xds:///user-service.
GatewayTarget == "order-service"
OrderTarget == "user-service"

StateOf(s, ep) == [rv |-> ep.rv, route |-> Addresses(s, ep.ips)]

\* The present snapshot's resources for a client. The clients share one node
\* id and with it one snapshot; each is sent the names it asked for.
Resources(c) ==
    [version |-> version, rv |-> endpointsMap[Target[c]].rv,
     route |-> Advertised(Target[c])]

-----------------------------------------------------------------------------
(* The server's side of a stream.                                          *)

\* The cache answers a request at once if the client lacks the version, or
\* has not been sent the service on this stream.
MustAnswer(c) ==
    /\ version > 0
    /\ \/ accepted[c] # version
       \/ ~known[c] /\ Advertised(Target[c]) # {}

CreateWatch(c) ==
    /\ stream[c] = "request"
    /\ IF MustAnswer(c)
       THEN /\ stream' = [stream EXCEPT ![c] = "response"]
            /\ response' = [response EXCEPT ![c] = Resources(c)]
            /\ known' = [known EXCEPT ![c] = (Advertised(Target[c]) # {})]
       ELSE /\ stream' = [stream EXCEPT ![c] = "watch"]
            /\ UNCHANGED <<response, known>>
    /\ UNCHANGED <<vars, accepted, view, written>>

\* SetSnapshot answers the watches whose version the new one differs from.
SetSnapshot ==
    LET due == {c \in Client : /\ stream[c] = "watch"
                               /\ version' # version
                               /\ accepted[c] # version'}
    IN  /\ stream' = [c \in Client |-> IF c \in due THEN "response" ELSE stream[c]]
        /\ response' = [c \in Client |-> IF c \in due THEN Resources(c)'
                                         ELSE response[c]]
        /\ known' = [c \in Client |-> IF c \in due THEN Advertised(Target[c])' # {}
                                      ELSE known[c]]
        /\ UNCHANGED <<accepted, view, written>>

HandleAndPush == HandleNotification /\ SetSnapshot

-----------------------------------------------------------------------------
(* The client's side.                                                      *)

\* A new stream: its first request says the version the client holds.
Connect(c) ==
    /\ up
    /\ stream[c] = "down"
    /\ stream' = [stream EXCEPT ![c] = "request"]
    /\ UNCHANGED <<vars, accepted, known, response, view, written>>

\* The client takes the resources in and acknowledges them. A response
\* without the service takes its route away.
Receive(c) ==
    /\ stream[c] = "response"
    /\ stream' = [stream EXCEPT ![c] = "request"]
    /\ accepted' = [accepted EXCEPT ![c] = response[c].version]
    /\ view' = [view EXCEPT ![c] =
                    [rv |-> IF response[c].rv = 0 THEN @.rv ELSE response[c].rv,
                     route |-> response[c].route]]
    /\ response' = [response EXCEPT ![c] = NoResponse]
    /\ UNCHANGED <<vars, known, written>>

\* The stream breaks; the client goes on with what it knows.
Break(c) ==
    /\ stream[c] # "down"
    /\ stream' = [stream EXCEPT ![c] = "down"]
    /\ response' = [response EXCEPT ![c] = NoResponse]
    /\ known' = [known EXCEPT ![c] = FALSE]
    /\ UNCHANGED <<vars, accepted, view, written>>

\* The control plane's process ends, and all its streams with it.
BreakAll ==
    /\ stream' = [c \in Client |-> "down"]
    /\ response' = [c \in Client |-> NoResponse]
    /\ known' = [c \in Client |-> FALSE]
    /\ UNCHANGED <<accepted, view, written>>

-----------------------------------------------------------------------------
(* The cluster, with its history for the properties.                       *)

Record ==
    /\ written' = [s \in Tracked |-> written[s] \cup {StateOf(s, objects'[s])}]
    /\ UNCHANGED clients

MeshInit ==
    /\ Init
    /\ stream = [c \in Client |-> "down"]
    /\ accepted = [c \in Client |-> 0]
    /\ known = [c \in Client |-> FALSE]
    /\ response = [c \in Client |-> NoResponse]
    /\ view = [c \in Client |-> NoView]
    /\ written = [s \in Tracked |-> {NoView}]

MeshNext ==
    \/ \E n \in Name : CreateEndpoints(n) /\ Record
    \/ \E n \in Name : UpdateEndpoints(n) /\ Record
    \/ \E n \in Name : DeleteEndpoints(n) /\ Record
    \/ \E n \in Name : Observe(n) /\ UNCHANGED <<clients, written>>
    \/ \E n \in Name : Resync(n) /\ UNCHANGED <<clients, written>>
    \/ HandleAndPush
    \/ PanicOnTombstone /\ BreakAll
    \/ Crash /\ BreakAll
    \/ Restart /\ UNCHANGED <<clients, written>>
    \/ \E c \in Client : Connect(c)
    \/ \E c \in Client : CreateWatch(c)
    \/ \E c \in Client : Receive(c)
    \/ \E c \in Client : Break(c)

MeshSpec == MeshInit /\ [][MeshNext]_meshVars

\* The clients reconnect and are served, and the informer's resync fires; a
\* stream need not break.
FairMeshSpec ==
    /\ MeshSpec
    /\ Fairness
    /\ \A n \in Name : WF_vars(Resync(n))
    /\ \A c \in Client : /\ WF_meshVars(Connect(c))
                         /\ WF_meshVars(CreateWatch(c))
                         /\ WF_meshVars(Receive(c))

-----------------------------------------------------------------------------
(* Properties.                                                             *)

\* Type invariant.
MeshTypeOK ==
    /\ stream \in [Client -> {"down", "request", "watch", "response"}]
    /\ accepted \in [Client -> Nat]
    /\ known \in [Client -> BOOLEAN]
    /\ response \in [Client -> Response]
    /\ view \in [Client -> View]
    /\ written \in [Tracked -> SUBSET View]

\* The mesh implements the directory of module Directory: whatever the
\* streams, the queue and the crashes do, a client routes to what its
\* service was at one moment, and never to an older state after a newer one.
\* Only a restart of the control plane may take a route away.
Mapped == INSTANCE Directory WITH
              Service <- Tracked,
              Version <- 0..MaxRevision,
              Route <- SUBSET Address,
              published <- written,
              lost <- incarnation > 0

ImplementsDirectory == Mapped!Spec

\* Once the cluster is quiet and streams stay up, every client routes to the
\* ready pods of its service for good. The version counter restarts with the
\* process, so a client may hold the version a new snapshot gets and is not
\* sent it: it waits for the next change or resync.
EventuallyRouted ==
    (\A c \in Client : <>[](stream[c] # "down"))
        => <>[](\A c \in Client :
                    LET s == Target[c] IN
                    objects[s].alive =>
                        view[c].route = Addresses(s, objects[s].ips))

-----------------------------------------------------------------------------
(* The inductive invariant behind ImplementsDirectory, beside Inv.         *)

\* The states of a service that the API server, the indexer, the queue and
\* the handler's map hold.
Underway(s) ==
    {StateOf(s, objects[s]), StateOf(s, store[s]), StateOf(s, endpointsMap[s])}
        \cup {StateOf(s, events[i].new) : i \in Pending(s)}

ResponseState(c) == [rv |-> response[c].rv, route |-> response[c].route]

\* Every state on its way to a client is one the service has been in.
Recorded ==
    /\ \A s \in Tracked :
           /\ Underway(s) \cup {NoView} \subseteq written[s]
           /\ \A w \in written[s] : /\ w.rv <= objects[s].rv
                                    /\ w.rv = 0 => w = NoView
    /\ \A c \in Client :
           stream[c] = "response" => ResponseState(c) \in written[Target[c]]

\* A version a client may be led to: none, or one not older than its own.
NotOlder(c, rv) == rv = 0 \/ view[c].rv <= rv

\* No version on its way to a client is older than the client's; in the
\* first life of the process none is missing, either.
NothingOlder ==
    \A c \in Client :
        LET s == Target[c] IN
        /\ view[c].rv <= objects[s].rv
        /\ \A k \in Underway(s) : NotOlder(c, k.rv)
        /\ incarnation = 0 /\ up => view[c].rv <= endpointsMap[s].rv
        /\ stream[c] # "down" => up
        /\ stream[c] = "response" =>
               /\ NotOlder(c, response[c].rv)
               /\ response[c].rv <= endpointsMap[s].rv
               /\ incarnation = 0 => view[c].rv <= response[c].rv

MeshInv ==
    /\ MeshTypeOK
    /\ revision <= MaxRevision
    /\ Recorded
    /\ NothingOlder
=============================================================================
