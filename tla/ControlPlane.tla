---------------------------- MODULE ControlPlane ----------------------------
(***************************************************************************)
(* The xDS control plane of the production cluster                         *)
(* (99-production-ready-cluster/xds-control-plane/main.go) with the        *)
(* Kubernetes API server and the client-go informer that feed it.          *)
(*                                                                         *)
(*   API server --watch / relist--> informer store --notifications-->      *)
(*   handleEndpointUpdate --rebuild--> snapshot cache                      *)
(*                                                                         *)
(* The informer updates its indexer and queues a notification in one step; *)
(* a single goroutine calls the handlers in queue order, arbitrarily later.*)
(* Everything the process keeps is in memory: a crash loses it all.        *)
(***************************************************************************)
EXTENDS Integers, Sequences, FiniteSets

CONSTANTS
    Name,           \* Names of the Endpoints objects in the cluster.
    IP,             \* Pod addresses.
    MaxRevision,    \* Bound: how many writes the API server takes.
    MaxQueue,       \* Bound: notifications the informer has queued at once.
    MaxVersion,     \* Bound: versions the periodic resync may lead to, in the
                    \* process's first life; further in each later one.
    MaxIncarnation  \* Bound: starts of the process that follow a crash.

Tracked == {"order-service", "user-service"}

ASSUME NameAssumption == Tracked \subseteq Name

ASSUME BoundAssumption ==
    /\ MaxRevision \in Nat
    /\ MaxQueue \in Nat \ {0}
    /\ MaxVersion \in Nat
    /\ MaxIncarnation \in Nat

VARIABLES
    objects,      \* The Endpoints objects in the API server.
    revision,     \* Its resource version: the number of writes so far.
    store,        \* The informer's indexer.
    events,       \* Notifications queued for the event handler.
    endpointsMap, \* The handler's map from a service to its pod addresses.
    version,      \* The snapshot version counter.
    snapshot,     \* The snapshot in the cache for nodeID.
    up,           \* The process runs.
    incarnation   \* How many times it was started again.

cluster == <<objects, revision>>
process == <<store, events, endpointsMap, version, snapshot>>
vars == <<objects, revision, store, events, endpointsMap, version, snapshot,
          up, incarnation>>

-----------------------------------------------------------------------------
(* Data.                                                                   *)

\* An Endpoints object: deletion keeps its final addresses, as the DELETED
\* watch event does. Not alive: no such object (or no such indexer entry).
Endpoints == [alive: BOOLEAN, rv: Nat, ips: SUBSET IP]
Absent == [alive |-> FALSE, rv |-> 0, ips |-> {}]

\* What the handler keeps of an object: its ready addresses. The resource
\* version they were read at is carried for the properties.
Entry == [rv: Nat, ips: SUBSET IP]
ActiveIPs(ep) == [rv |-> ep.rv, ips |-> ep.ips]

\* Tombstone: a deletion the informer missed and found by a relist. It is
\* delivered as a cache.DeletedFinalStateUnknown, not as an *Endpoints.
Kind == {"Add", "Update", "Delete", "Tombstone"}
Notification == [kind: Kind, name: Name, old: Endpoints, new: Endpoints]

\* buildEndpoints: every address gets the port of its service.
Port(service) == IF service = "user-service" THEN 50069 ELSE 50068
Addresses(service, ips) ==
    {[address |-> ip, port |-> Port(service)] : ip \in ips}

Address == [address: IP, port: {50068, 50069}]

\* The resources of a snapshot. Listener, route, cluster and load assignment
\* are built for the same services under names fixed by the service, so a
\* snapshot is its version and the load assignment of each service in it.
BuildSnapshot(v, entries) ==
    [version   |-> v,
     endpoints |-> [s \in {t \in Tracked : entries[t].ips # {}} |->
                        Addresses(s, entries[s].ips)]]

Snapshot == [version: Nat,
             endpoints: UNION {[S -> SUBSET Address] : S \in SUBSET Tracked}]

NoSnapshot == [version |-> 0, endpoints |-> [s \in {} |-> {}]]

Advertised(s) ==
    IF s \in DOMAIN snapshot.endpoints THEN snapshot.endpoints[s] ELSE {}

-----------------------------------------------------------------------------
(* The API server (outside the program).                                   *)

Write(n, ep) ==
    /\ revision < MaxRevision
    /\ revision' = revision + 1
    /\ objects' = [objects EXCEPT ![n] = ep]
    /\ UNCHANGED <<process, up, incarnation>>

CreateEndpoints(n) ==
    /\ ~objects[n].alive
    /\ \E ips \in SUBSET IP :
           Write(n, [alive |-> TRUE, rv |-> revision + 1, ips |-> ips])

\* Pods become ready, unready or move.
UpdateEndpoints(n) ==
    /\ objects[n].alive
    /\ \E ips \in SUBSET IP \ {objects[n].ips} :
           Write(n, [alive |-> TRUE, rv |-> revision + 1, ips |-> ips])

DeleteEndpoints(n) ==
    /\ objects[n].alive
    /\ Write(n, [objects[n] EXCEPT !.alive = FALSE, !.rv = revision + 1])

-----------------------------------------------------------------------------
(* The informer (client-go, as startK8sWatcher configures it).             *)

Notify(kind, n, old, new) ==
    /\ Len(events) < MaxQueue
    /\ events' = Append(events, [kind |-> kind, name |-> n,
                                 old |-> old, new |-> new])

\* A watch event, or a (re)list that skipped some versions, brings the
\* indexer's entry of n to the object's present state. A deletion that a
\* relist found is a tombstone with the last state the indexer knew.
Observe(n) ==
    /\ up
    /\ store[n] # objects[n]
    /\ store[n].alive \/ objects[n].alive
    /\ store' = [store EXCEPT ![n] = objects[n]]
    /\ \/ /\ objects[n].alive
          /\ Notify(IF store[n].alive THEN "Update" ELSE "Add",
                    n, store[n], objects[n])
       \/ /\ ~objects[n].alive
          /\ \/ Notify("Delete", n, objects[n], objects[n])
             \/ Notify("Tombstone", n, store[n], store[n])
    /\ UNCHANGED <<cluster, endpointsMap, version, snapshot, up, incarnation>>

\* Mutant of Resync: the informer is made with a resync period of 0.
ResyncNever(n) == n \in {} /\ UNCHANGED vars

\* The 30 s resync redelivers every object of the indexer as an update. (It
\* leaves room in the bounded queue for what the watch brings.)
Resync(n) ==
    /\ up
    /\ store[n].alive
    /\ version + Len(events) < MaxVersion * (incarnation + 1)
    /\ Len(events) + 1 < MaxQueue
    /\ Notify("Update", n, store[n], store[n])
    /\ UNCHANGED <<cluster, store, endpointsMap, version, snapshot, up,
                   incarnation>>

-----------------------------------------------------------------------------
(* The event handler.                                                      *)

\* Mutant of Delivered: UpdateFunc passes its first argument.
DeliveredOld(e) == e.old

\* AddFunc, UpdateFunc and DeleteFunc all pass on the (new) object.
Delivered(e) == e.new

UntrackedUpdate(n) ==
    /\ n \notin Tracked
    /\ UNCHANGED <<endpointsMap, version, snapshot>>

\* Mutant of TrackedUpdate: an early return when no pod is ready.
TrackedUpdateUnlessEmpty(n, ep) ==
    /\ n \in Tracked
    /\ endpointsMap' = IF ep.ips = {} THEN endpointsMap
                       ELSE [endpointsMap EXCEPT ![n] = ActiveIPs(ep)]
    /\ version' = version + 1
    /\ snapshot' = BuildSnapshot(version', endpointsMap')

\* Mutant of TrackedUpdate: the snapshot is built for the service alone.
TrackedUpdateAlone(n, ep) ==
    /\ n \in Tracked
    /\ endpointsMap' = [endpointsMap EXCEPT ![n] = ActiveIPs(ep)]
    /\ version' = version + 1
    /\ snapshot' = BuildSnapshot(version',
                       [s \in Tracked |->
                            IF s = n THEN ActiveIPs(ep) ELSE ActiveIPs(Absent)])

TrackedUpdate(n, ep) ==
    /\ n \in Tracked
    /\ endpointsMap' = [endpointsMap EXCEPT ![n] = ActiveIPs(ep)]
    /\ version' = version + 1
    /\ snapshot' = BuildSnapshot(version', endpointsMap')

handleEndpointUpdate(n, ep) == UntrackedUpdate(n) \/ TrackedUpdate(n, ep)

\* Mutant of HandleNotification: each notification is handled in a goroutine
\* of its own (the mutex alone does not keep their order).
HandleInAnyOrder ==
    /\ up
    /\ \E i \in 1..Len(events) :
           /\ events[i].kind # "Tombstone"
           /\ events' = SubSeq(events, 1, i - 1)
                            \o SubSeq(events, i + 1, Len(events))
           /\ handleEndpointUpdate(events[i].name, Delivered(events[i]))
    /\ UNCHANGED <<cluster, store, up, incarnation>>

HandleNotification ==
    /\ up
    /\ events # <<>>
    /\ Head(events).kind # "Tombstone"
    /\ events' = Tail(events)
    /\ handleEndpointUpdate(Head(events).name, Delivered(Head(events)))
    /\ UNCHANGED <<cluster, store, up, incarnation>>

-----------------------------------------------------------------------------
(* The process.                                                            *)

Die ==
    /\ up' = FALSE
    /\ store' = [n \in Name |-> Absent]
    /\ events' = <<>>
    /\ endpointsMap' = [s \in Tracked |-> ActiveIPs(Absent)]
    /\ version' = 0
    /\ snapshot' = NoSnapshot
    /\ UNCHANGED <<cluster, incarnation>>

\* DeleteFunc asserts that its argument is an *Endpoints: a tombstone, of
\* any object in the cluster, panics, and client-go lets the panic through.
PanicOnTombstone ==
    /\ up
    /\ events # <<>>
    /\ Head(events).kind = "Tombstone"
    /\ Die

Crash ==
    /\ up
    /\ incarnation < MaxIncarnation
    /\ Die

\* The Deployment starts the container again, with empty memory.
Restart ==
    /\ ~up
    /\ up' = TRUE
    /\ incarnation' = incarnation + 1
    /\ UNCHANGED <<cluster, process>>

-----------------------------------------------------------------------------
Init ==
    /\ objects = [n \in Name |-> Absent]
    /\ revision = 0
    /\ store = [n \in Name |-> Absent]
    /\ events = <<>>
    /\ endpointsMap = [s \in Tracked |-> ActiveIPs(Absent)]
    /\ version = 0
    /\ snapshot = NoSnapshot
    /\ up = TRUE
    /\ incarnation = 0

Next ==
    \/ \E n \in Name : CreateEndpoints(n)
    \/ \E n \in Name : UpdateEndpoints(n)
    \/ \E n \in Name : DeleteEndpoints(n)
    \/ \E n \in Name : Observe(n)
    \/ \E n \in Name : Resync(n)
    \/ HandleNotification
    \/ PanicOnTombstone
    \/ Crash
    \/ Restart

Spec == Init /\ [][Next]_vars

\* The informer's and the handler's goroutines run, and the Deployment
\* restarts the process; the cluster need not change, nor the process crash.
Fairness ==
    /\ \A n \in Name : WF_vars(Observe(n))
    /\ WF_vars(HandleNotification)
    /\ WF_vars(PanicOnTombstone)
    /\ WF_vars(Restart)

FairSpec == Spec /\ Fairness

-----------------------------------------------------------------------------
(* Properties.                                                             *)

\* Type invariant.
TypeOK ==
    /\ objects \in [Name -> Endpoints]
    /\ revision \in Nat
    /\ store \in [Name -> Endpoints]
    /\ events \in Seq(Notification)
    /\ endpointsMap \in [Tracked -> Entry]
    /\ version \in Nat
    /\ snapshot \in Snapshot
    /\ up \in BOOLEAN
    /\ incarnation \in Nat

Pending(n) == {i \in 1..Len(events) : events[i].name = n}

\* The informer has seen n as it is, and its last notification is handled.
Settled(n) == up /\ store[n] = objects[n] /\ Pending(n) = {}

\* Nothing is lost between the API server and the snapshot: once the
\* informer knows a tracked service as it is and no notification of it is
\* queued, the snapshot routes to exactly its ready pods, whatever came
\* before: skipped versions, resyncs, the other service's updates, crashes
\* of the process, and an Endpoints object deleted and created again.
NothingLost ==
    \A s \in Tracked :
        Settled(s) /\ objects[s].alive
            => Advertised(s) = Addresses(s, objects[s].ips)

\* While the process lives, what it advertises of a service never goes back
\* to an older state of it: the handlers run in the order of the watch.
NeverBackwards ==
    [][up /\ up' => \A s \in Tracked :
           endpointsMap'[s].rv >= endpointsMap[s].rv]_vars

\* An update of one service rebuilds the whole snapshot, yet changes what is
\* advertised of that service alone.
Isolation ==
    [][up /\ up' => \A s \in Tracked :
           Advertised(s)' # Advertised(s)
               => events # <<>> /\ Head(events).name = s]_vars

\* Once the cluster is quiet the snapshot holds the ready pods of every
\* tracked service for good: panics on tombstones and restarts included.
EventuallyAdvertised ==
    <>[](\A s \in Tracked :
             objects[s].alive => Advertised(s) = Addresses(s, objects[s].ips))

\* What the README of the cluster says of the control plane ("Watches the K8s
\* Endpoints API and dynamically pushes LDS, RDS, CDS, and EDS updates"), for
\* a service that was deleted: none of its pods is advertised any more. The
\* code handles the deletion with the object's final addresses.
DeletedIsWithdrawn ==
    \A s \in Tracked :
        Settled(s) /\ ~objects[s].alive => Advertised(s) = {}

-----------------------------------------------------------------------------
(* The inductive invariant behind NothingLost and NeverBackwards.          *)

\* The snapshot is the one the present map builds.
SnapshotIsCurrent == snapshot = BuildSnapshot(version, endpointsMap)

\* Versions only go up along the way of an object: the API server, the
\* indexer, the queue from its tail to its head, the handler's map.
Ordered ==
    /\ \A n \in Name :
           /\ objects[n].rv <= revision
           /\ store[n].rv <= objects[n].rv
    /\ \A i \in 1..Len(events) : events[i].new.rv <= store[events[i].name].rv
    /\ \A i, j \in 1..Len(events) :
           i < j /\ events[i].name = events[j].name
               => events[i].new.rv <= events[j].new.rv
    /\ \A s \in Tracked :
           /\ endpointsMap[s].rv <= store[s].rv
           /\ \A i \in Pending(s) : endpointsMap[s].rv <= events[i].new.rv

\* The last notification of a service, handled or queued, is of the state
\* the indexer holds; only a tombstone, which is never handled, is older.
LastIsCurrent ==
    \A s \in Tracked :
        /\ Pending(s) = {} => endpointsMap[s] = ActiveIPs(store[s])
        /\ \A i \in Pending(s) :
               (\A j \in Pending(s) : j <= i) /\ events[i].kind # "Tombstone"
                   => events[i].new = store[s]

Inv == TypeOK /\ SnapshotIsCurrent /\ Ordered /\ LastIsCurrent
=============================================================================
