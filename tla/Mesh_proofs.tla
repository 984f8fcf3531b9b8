----------------------------- MODULE Mesh_proofs -----------------------------
(***************************************************************************)
(* Proofs about ControlPlane and about Mesh, which puts it between the     *)
(* cluster and the xDS clients, for any names, clients, addresses and      *)
(* bounds: first what the control plane keeps, then that the mesh          *)
(* implements the directory.                                               *)
(***************************************************************************)
EXTENDS Mesh, SequenceTheorems, TLAPS

-----------------------------------------------------------------------------
(* The data.                                                               *)

\* What the handler keeps of an Endpoints object is an entry of its map.
LEMMA EntryType ==
    ASSUME NEW ep \in Endpoints
    PROVE  /\ ActiveIPs(ep) \in Entry
           /\ ActiveIPs(ep).rv = ep.rv
           /\ ActiveIPs(ep).ips = ep.ips
BY DEF ActiveIPs, Entry, Endpoints

\* The absent object is an Endpoints value of version 0 without addresses.
LEMMA AbsentType ==
    /\ Absent \in Endpoints
    /\ Absent.rv = 0
    /\ Absent.ips = {}
    /\ Absent.alive = FALSE
BY DEF Absent, Endpoints

\* The load assignment of a service holds addresses.
LEMMA AddressesType ==
    ASSUME NEW s, NEW ips \in SUBSET IP
    PROVE  Addresses(s, ips) \in SUBSET Address
BY DEF Addresses, Address, Port

\* A rebuild yields a snapshot.
LEMMA BuildSnapshotType ==
    ASSUME NEW v \in Nat, NEW entries \in [Tracked -> Entry]
    PROVE  BuildSnapshot(v, entries) \in Snapshot
<1> DEFINE S == {t \in Tracked : entries[t].ips # {}}
           f == [s \in S |-> Addresses(s, entries[s].ips)]
<1>1. S \in SUBSET Tracked
  OBVIOUS
<1>2. \A s \in S : Addresses(s, entries[s].ips) \in SUBSET Address
  <2>1. \A s \in S : entries[s].ips \in SUBSET IP
    BY DEF Entry
  <2> QED
    BY <2>1, AddressesType
<1>3. f \in [S -> SUBSET Address]
  BY <1>2
<1>4. f \in UNION {[T -> SUBSET Address] : T \in SUBSET Tracked}
  BY <1>1, <1>3
<1>5. BuildSnapshot(v, entries) = [version |-> v, endpoints |-> f]
  BY DEF BuildSnapshot
<1> HIDE DEF S, f
<1> QED
  BY <1>4, <1>5 DEF Snapshot

\* The rebuild of an empty map is the cache without a snapshot.
LEMMA EmptySnapshot ==
    BuildSnapshot(0, [s \in Tracked |-> ActiveIPs(Absent)]) = NoSnapshot
<1> DEFINE em == [s \in Tracked |-> ActiveIPs(Absent)]
<1>1. \A s \in Tracked : em[s].ips = {}
  BY AbsentType, EntryType
<1>2. {t \in Tracked : em[t].ips # {}} = {}
  BY <1>1
<1>3. [s \in {t \in Tracked : em[t].ips # {}} |-> Addresses(s, em[s].ips)]
        = [s \in {} |-> {}]
  BY <1>2
<1> QED
  BY <1>3 DEF BuildSnapshot, NoSnapshot

\* Every queued notification is of a cluster object.
LEMMA QueuedType ==
    ASSUME NEW q \in Seq(Notification), NEW i \in 1..Len(q)
    PROVE  /\ q[i] \in Notification
           /\ q[i].kind \in Kind
           /\ q[i].name \in Name
           /\ q[i].old \in Endpoints
           /\ q[i].new \in Endpoints
<1>1. q[i] \in Notification
  OBVIOUS
<1> QED
  BY <1>1 DEF Notification

-----------------------------------------------------------------------------
(* The cluster's steps.                                                    *)

\* A write of the API server leaves the process alone and gives the object a
\* version above all others.
LEMMA WritePreserves ==
    ASSUME Inv, NEW n \in Name, NEW ep \in Endpoints,
           ep.rv = revision + 1, Write(n, ep)
    PROVE  Inv'
<1> USE DEF process
<1>1. TypeOK'
  BY DEF Inv, TypeOK, Write
<1>2. SnapshotIsCurrent'
  BY DEF Inv, SnapshotIsCurrent, Write
<1>3. Ordered'
  <2>1. \A m \in Name : objects'[m].rv <= revision' /\ store'[m].rv <= objects'[m].rv
    BY DEF Inv, Ordered, TypeOK, Write, Endpoints
  <2> QED
    BY <2>1 DEF Inv, Ordered, TypeOK, Write, Pending
<1>4. LastIsCurrent'
  BY DEF Inv, LastIsCurrent, Write, Pending
<1> QED
  BY <1>1, <1>2, <1>3, <1>4 DEF Inv

-----------------------------------------------------------------------------
(* The informer's steps.                                                   *)

\* A notification queued with the indexer's update: n's entry becomes ep and
\* the notification is of ep or, for a tombstone, of the entry before.
NotifyStep(n, kind, old, new, ep) ==
    /\ Notify(kind, n, old, new)
    /\ store' = [store EXCEPT ![n] = ep]
    /\ store[n].rv <= new.rv
    /\ new.rv <= ep.rv
    /\ ep.rv <= objects[n].rv
    /\ kind # "Tombstone" => new = ep
    /\ UNCHANGED <<objects, revision, endpointsMap, version, snapshot, up,
                   incarnation>>

\* Such a step preserves the invariant.
LEMMA NotifyPreserves ==
    ASSUME Inv, NEW n \in Name, NEW kind \in Kind, NEW old \in Endpoints,
           NEW new \in Endpoints, NEW ep \in Endpoints,
           NotifyStep(n, kind, old, new, ep)
    PROVE  Inv'
<1> USE DEF NotifyStep
<1> DEFINE e == [kind |-> kind, name |-> n, old |-> old, new |-> new]
<1>e. e \in Notification /\ e.name = n /\ e.kind = kind /\ e.new = new
  BY DEF Notification
<1>t. TypeOK
  BY DEF Inv
<1>0. /\ events \in Seq(Notification)
      /\ events' = Append(events, e)
  BY <1>t DEF TypeOK, Notify
<1> HIDE DEF e
<1>1. /\ events' \in Seq(Notification)
      /\ Len(events') = Len(events) + 1
      /\ Len(events) \in Nat
      /\ \A i \in 1..Len(events) : events'[i] = events[i]
      /\ events'[Len(events) + 1] = e
  BY <1>0, <1>e
<1>2. \A i \in 1..Len(events) : /\ events[i] \in Notification
                                /\ events[i].name \in Name
                                /\ events[i].new \in Endpoints
  BY <1>0, QueuedType
<1>s. store' \in [Name -> Endpoints] /\ store'[n] = ep
      /\ \A m \in Name \ {n} : store'[m] = store[m]
  BY <1>t DEF TypeOK
<1>3. TypeOK'
  <2>1. /\ objects' \in [Name -> Endpoints]
        /\ revision' \in Nat
    BY <1>t DEF TypeOK
  <2>2. /\ endpointsMap' \in [Tracked -> Entry]
        /\ version' \in Nat
        /\ snapshot' \in Snapshot
        /\ up' \in BOOLEAN
        /\ incarnation' \in Nat
    BY <1>t DEF TypeOK
  <2> QED
    BY <1>1, <1>s, <2>1, <2>2 DEF TypeOK
<1>4. SnapshotIsCurrent'
  BY DEF Inv, SnapshotIsCurrent
<1>6. \A m \in Name : store[m].rv \in Nat /\ store'[m].rv \in Nat
                      /\ store[m].rv <= store'[m].rv
  BY <1>s, <1>t DEF TypeOK, Endpoints
<1>7. Ordered'
  <2>1. \A m \in Name : objects'[m].rv <= revision' /\ store'[m].rv <= objects'[m].rv
    BY <1>s DEF Inv, Ordered
  <2>2. ASSUME NEW i \in 1..Len(events')
        PROVE  events'[i].new.rv <= store'[events'[i].name].rv
    <3>1. CASE i \in 1..Len(events)
      <4>1. events[i].new.rv \in Nat /\ events[i].new.rv <= store[events[i].name].rv
        BY <3>1, <1>2 DEF Inv, Ordered, Endpoints
      <4> QED
        BY <4>1, <3>1, <1>1, <1>2, <1>6
    <3>2. CASE i = Len(events) + 1
      BY <3>2, <1>1, <1>s, <1>e
    <3> QED
      BY <3>1, <3>2, <1>1
  <2>3. ASSUME NEW i \in 1..Len(events'), NEW j \in 1..Len(events'),
               i < j, events'[i].name = events'[j].name
        PROVE  events'[i].new.rv <= events'[j].new.rv
    <3>0. i \in 1..Len(events)
      BY <2>3, <1>1
    <3>1. CASE j \in 1..Len(events)
      BY <3>0, <3>1, <2>3, <1>1 DEF Inv, Ordered
    <3>2. CASE j = Len(events) + 1
      <4>1. events'[i].name = n /\ events'[j].new = new
        BY <3>2, <2>3, <1>1, <1>e
      <4>2. events[i].new.rv <= store[n].rv
        BY <4>1, <3>0, <1>1 DEF Inv, Ordered
      <4>3. events[i].new.rv \in Nat /\ new.rv \in Nat
        BY <3>0, <1>2 DEF Endpoints
      <4> QED
        BY <4>1, <4>2, <4>3, <3>0, <1>1, <1>6
    <3> QED
      BY <3>1, <3>2, <1>1
  <2>4. ASSUME NEW s \in Tracked
        PROVE  endpointsMap'[s].rv <= store'[s].rv
    <3>1. s \in Name /\ endpointsMap[s].rv \in Nat
      BY NameAssumption, <1>t DEF TypeOK, Entry
    <3> QED
      BY <3>1, <1>6 DEF Inv, Ordered
  <2>5. ASSUME NEW s \in Tracked, NEW i \in Pending(s)'
        PROVE  endpointsMap'[s].rv <= events'[i].new.rv
    <3>0. i \in 1..Len(events') /\ events'[i].name = s
      BY DEF Pending
    <3>1. CASE i \in 1..Len(events)
      <4>1. i \in Pending(s)
        BY <3>0, <3>1, <1>1 DEF Pending
      <4> QED
        BY <4>1, <3>1, <1>1 DEF Inv, Ordered
    <3>2. CASE i = Len(events) + 1
      <4>1. s = n /\ events'[i].new = new
        BY <3>0, <3>2, <1>1, <1>e
      <4>2. endpointsMap[n].rv <= store[n].rv /\ endpointsMap[n].rv \in Nat
        BY <4>1, <1>t DEF Inv, Ordered, TypeOK, Entry
      <4>3. new.rv \in Nat
        BY DEF Endpoints
      <4> QED
        BY <4>1, <4>2, <4>3, <1>6
    <3> QED
      BY <3>0, <3>1, <3>2, <1>1
  <2> QED
    BY <2>1, <2>2, <2>3, <2>4, <2>5 DEF Ordered
<1>8. LastIsCurrent'
  <2> SUFFICES ASSUME NEW s \in Tracked
               PROVE  /\ (Pending(s) = {} => endpointsMap[s] = ActiveIPs(store[s]))'
                      /\ \A i \in Pending(s)' :
                             (\A j \in Pending(s)' : j <= i) /\ events'[i].kind # "Tombstone"
                                 => events'[i].new = store'[s]
    BY DEF LastIsCurrent
  <2>1. CASE s = n
    <3>1. Len(events) + 1 \in Pending(s)'
      BY <2>1, <1>1, <1>e DEF Pending
    <3>2. ASSUME NEW i \in Pending(s)', \A j \in Pending(s)' : j <= i
          PROVE  events'[i] = e
      <4>1. i \in 1..Len(events) + 1
        BY <1>1 DEF Pending
      <4>2. i >= Len(events) + 1
        BY <3>1, <3>2
      <4> QED
        BY <4>1, <4>2, <1>1
    <3> QED
      BY <3>1, <3>2, <2>1, <1>s, <1>e
  <2>2. CASE s # n
    <3>1. Pending(s)' = Pending(s)
      BY <2>2, <1>1, <1>e DEF Pending
    <3>2. store'[s] = store[s]
      BY <2>2, <1>s, NameAssumption
    <3>3. \A i \in Pending(s) : events'[i] = events[i]
      BY <1>1 DEF Pending
    <3> QED
      BY <3>1, <3>2, <3>3 DEF Inv, LastIsCurrent, ActiveIPs
  <2> QED
    BY <2>1, <2>2
<1> QED
  BY <1>3, <1>4, <1>7, <1>8 DEF Inv

\* A watch event or a relist preserves the invariant.
LEMMA ObservePreserves ==
    ASSUME Inv, NEW n \in Name, Observe(n)
    PROVE  Inv'
<1>1. /\ store[n] \in Endpoints
      /\ objects[n] \in Endpoints
      /\ store[n].rv <= objects[n].rv
      /\ store[n].rv \in Nat
      /\ objects[n].rv \in Nat
  BY DEF Inv, TypeOK, Ordered, Endpoints
<1>2. /\ store' = [store EXCEPT ![n] = objects[n]]
      /\ UNCHANGED <<objects, revision, endpointsMap, version, snapshot, up,
                     incarnation>>
  BY DEF Observe, cluster
<1>3. ASSUME NEW k \in {"Add", "Update", "Delete"}, Notify(k, n, objects[n], objects[n])
      PROVE  Inv'
  <2>1. NotifyStep(n, k, objects[n], objects[n], objects[n])
    BY <1>1, <1>2, <1>3 DEF NotifyStep
  <2> QED
    BY <1>1, <2>1, NotifyPreserves DEF Kind
<1>4. ASSUME NEW k \in {"Add", "Update", "Delete"}, Notify(k, n, store[n], objects[n])
      PROVE  Inv'
  <2>1. NotifyStep(n, k, store[n], objects[n], objects[n])
    BY <1>1, <1>2, <1>4 DEF NotifyStep
  <2> QED
    BY <1>1, <2>1, NotifyPreserves DEF Kind
<1>5. ASSUME Notify("Tombstone", n, store[n], store[n])
      PROVE  Inv'
  <2>1. NotifyStep(n, "Tombstone", store[n], store[n], objects[n])
    BY <1>1, <1>2, <1>5 DEF NotifyStep
  <2> QED
    BY <1>1, <2>1, NotifyPreserves DEF Kind
<1> QED
  BY <1>3, <1>4, <1>5 DEF Observe

\* So does the periodic resync.
LEMMA ResyncPreserves ==
    ASSUME Inv, NEW n \in Name, Resync(n)
    PROVE  Inv'
<1>1. /\ store[n] \in Endpoints
      /\ store[n].rv <= objects[n].rv
      /\ store[n].rv \in Nat
  BY DEF Inv, TypeOK, Ordered, Endpoints
<1>2. store' = [store EXCEPT ![n] = store[n]]
  BY DEF Inv, TypeOK, Resync
<1>3. NotifyStep(n, "Update", store[n], store[n], store[n])
  <2>1. /\ Notify("Update", n, store[n], store[n])
        /\ UNCHANGED <<objects, revision, endpointsMap, version, snapshot, up,
                       incarnation>>
    BY DEF Resync, cluster
  <2>2. store[n].rv <= store[n].rv
    BY <1>1
  <2> QED
    BY <1>1, <1>2, <2>1, <2>2, Zenon DEF NotifyStep
<1> QED
  BY <1>1, <1>3, NotifyPreserves DEF Kind

-----------------------------------------------------------------------------
(* The handler's step.                                                     *)

\* What remains of the queue when its head is taken.
LEMMA QueueTail ==
    ASSUME events \in Seq(Notification), events # <<>>, events' = Tail(events)
    PROVE  /\ events' \in Seq(Notification)
           /\ Len(events') = Len(events) - 1
           /\ Len(events) \in Nat
           /\ 1 \in 1..Len(events)
           /\ \A i \in 1..Len(events') : /\ i + 1 \in 1..Len(events)
                                         /\ events'[i] = events[i + 1]
           /\ Head(events) = events[1]
<1>1. /\ Len(events) \in Nat \ {0}
      /\ events' \in Seq(Notification)
      /\ Len(events') = Len(events) - 1
      /\ Head(events) = events[1]
  BY EmptySeq, HeadTailProperties
<1>2. \A i \in 1..Len(events') : events'[i] = events[i + 1]
  BY HeadTailProperties
<1> QED
  BY <1>1, <1>2

\* Handling the notification at the head preserves the invariant: the map
\* takes the version at the head, which is not older than its own and not
\* newer than those behind it.
LEMMA HandlePreserves ==
    ASSUME Inv, HandleNotification
    PROVE  /\ Inv'
           /\ \A s \in Tracked : endpointsMap'[s].rv >= endpointsMap[s].rv
<1> DEFINE e == Head(events)
<1>t. TypeOK
  BY DEF Inv
<1>0. /\ events \in Seq(Notification)
      /\ events # <<>>
      /\ events' = Tail(events)
      /\ e.kind # "Tombstone"
      /\ UNCHANGED <<objects, revision, store, up, incarnation>>
  BY <1>t DEF TypeOK, HandleNotification, cluster
<1>1. /\ events' \in Seq(Notification)
      /\ Len(events') = Len(events) - 1
      /\ Len(events) \in Nat
      /\ 1 \in 1..Len(events)
      /\ \A i \in 1..Len(events') : /\ i + 1 \in 1..Len(events)
                                    /\ events'[i] = events[i + 1]
      /\ e = events[1]
  BY <1>0, QueueTail
<1>2. e.name \in Name /\ e.new \in Endpoints
  BY <1>0, <1>1, QueuedType
<1> HIDE DEF e
<1>3. \/ /\ e.name \notin Tracked
         /\ UNCHANGED <<endpointsMap, version, snapshot>>
      \/ /\ e.name \in Tracked
         /\ endpointsMap' = [endpointsMap EXCEPT ![e.name] = ActiveIPs(e.new)]
         /\ version' = version + 1
         /\ snapshot' = BuildSnapshot(version', endpointsMap')
  BY DEF HandleNotification, handleEndpointUpdate, UntrackedUpdate,
         TrackedUpdate, Delivered, e
<1>4. ActiveIPs(e.new) \in Entry /\ ActiveIPs(e.new).rv = e.new.rv
  BY <1>2, EntryType
<1>5. /\ endpointsMap' \in [Tracked -> Entry]
      /\ version' \in Nat
      /\ snapshot' = BuildSnapshot(version', endpointsMap')
  BY <1>3, <1>4, <1>t DEF TypeOK, Inv, SnapshotIsCurrent
<1>6. \A s \in Tracked :
          endpointsMap'[s] = IF s = e.name THEN ActiveIPs(e.new) ELSE endpointsMap[s]
  BY <1>3, <1>t DEF TypeOK
<1>7. TypeOK'
  <2>1. snapshot' \in Snapshot
    BY <1>5, BuildSnapshotType
  <2> QED
    BY <1>0, <1>1, <1>5, <2>1, <1>t DEF TypeOK
<1>8. ASSUME NEW s \in Tracked
      PROVE  \A j \in Pending(s) :
                 \/ j = 1 /\ e.name = s
                 \/ (j - 1) \in Pending(s)' /\ j \in Nat
  BY <1>1 DEF Pending
<1>9. \A s \in Tracked : \A i \in Pending(s)' :
          (i + 1) \in Pending(s) /\ events'[i] = events[i + 1] /\ i \in Nat
  BY <1>1 DEF Pending
<1>10. \A s \in Tracked : endpointsMap[s].rv \in Nat /\ endpointsMap'[s].rv \in Nat
  BY <1>5, <1>t DEF TypeOK, Entry
<1>11. \A s \in Tracked : endpointsMap'[s].rv >= endpointsMap[s].rv
  <2> SUFFICES ASSUME NEW s \in Tracked, e.name = s
               PROVE  endpointsMap'[s].rv >= endpointsMap[s].rv
    BY <1>6, <1>10
  <2>1. 1 \in Pending(s)
    BY <1>1 DEF Pending
  <2>2. endpointsMap[s].rv <= events[1].new.rv
    BY <2>1 DEF Inv, Ordered
  <2> QED
    BY <2>2, <1>1, <1>4, <1>6, <1>10
<1>12. Ordered'
  <2>1. \A m \in Name : objects'[m].rv <= revision' /\ store'[m].rv <= objects'[m].rv
    BY <1>0 DEF Inv, Ordered
  <2>2. \A i \in 1..Len(events') : events'[i].new.rv <= store'[events'[i].name].rv
    BY <1>0, <1>1 DEF Inv, Ordered
  <2>3. \A i, j \in 1..Len(events') :
            i < j /\ events'[i].name = events'[j].name
                => events'[i].new.rv <= events'[j].new.rv
    <3>1. \A i, j \in 1..Len(events') : i < j => i + 1 < j + 1
      OBVIOUS
    <3> QED
      BY <3>1, <1>1 DEF Inv, Ordered
  <2>4. ASSUME NEW s \in Tracked
        PROVE  endpointsMap'[s].rv <= store'[s].rv
    <3>1. CASE e.name = s
      BY <3>1, <1>0, <1>1, <1>4, <1>6 DEF Inv, Ordered
    <3>2. CASE e.name # s
      BY <3>2, <1>0, <1>6 DEF Inv, Ordered
    <3> QED
      BY <3>1, <3>2
  <2>5. ASSUME NEW s \in Tracked, NEW i \in Pending(s)'
        PROVE  endpointsMap'[s].rv <= events'[i].new.rv
    <3>1. CASE e.name = s
      <4>1. /\ i + 1 \in 1..Len(events)
            /\ 1 < i + 1
            /\ events[i + 1].name = s
            /\ events[1].name = s
        BY <3>1, <1>1, <1>9 DEF Pending
      <4>2. events[1].new.rv <= events[i + 1].new.rv
        BY <4>1, <1>1 DEF Inv, Ordered
      <4> QED
        BY <3>1, <4>2, <1>1, <1>4, <1>6, <1>9
    <3>2. CASE e.name # s
      BY <3>2, <1>6, <1>9 DEF Inv, Ordered
    <3> QED
      BY <3>1, <3>2
  <2> QED
    BY <2>1, <2>2, <2>3, <2>4, <2>5 DEF Ordered
<1>13. LastIsCurrent'
  <2> SUFFICES ASSUME NEW s \in Tracked
               PROVE  /\ (Pending(s) = {} => endpointsMap[s] = ActiveIPs(store[s]))'
                      /\ \A i \in Pending(s)' :
                             (\A j \in Pending(s)' : j <= i) /\ events'[i].kind # "Tombstone"
                                 => events'[i].new = store'[s]
    BY DEF LastIsCurrent
  <2>1. ASSUME Pending(s)' = {}
        PROVE  endpointsMap'[s] = ActiveIPs(store[s])
    <3>1. CASE e.name = s
      <4>1. 1 \in Pending(s) /\ \A j \in Pending(s) : j <= 1
        <5>1. 1 \in Pending(s)
          BY <3>1, <1>1 DEF Pending
        <5>2. \A j \in Pending(s) : j = 1
          BY <2>1, <1>8
        <5> QED
          BY <5>1, <5>2
      <4>2. events[1].new = store[s]
        BY <4>1, <1>0, <1>1 DEF Inv, LastIsCurrent
      <4> QED
        BY <3>1, <4>2, <1>1, <1>6
    <3>2. CASE e.name # s
      BY <2>1, <3>2, <1>6, <1>8 DEF Inv, LastIsCurrent
    <3> QED
      BY <3>1, <3>2
  <2>2. ASSUME NEW i \in Pending(s)', \A j \in Pending(s)' : j <= i,
               events'[i].kind # "Tombstone"
        PROVE  events'[i].new = store[s]
    <3>1. i + 1 \in Pending(s) /\ events'[i] = events[i + 1] /\ i \in Nat
      BY <1>9
    <3>2. \A j \in Pending(s) : j <= i + 1
      BY <2>2, <3>1, <1>8, <1>9
    <3> QED
      BY <2>2, <3>1, <3>2 DEF Inv, LastIsCurrent
  <2> QED
    BY <2>1, <2>2, <1>0 DEF ActiveIPs
<1> QED
  BY <1>5, <1>7, <1>11, <1>12, <1>13 DEF Inv, SnapshotIsCurrent

-----------------------------------------------------------------------------
(* The process and the theorems.                                           *)

\* The memory of a process that has just started, and of none.
Fresh ==
    /\ store = [n \in Name |-> Absent]
    /\ events = <<>>
    /\ endpointsMap = [s \in Tracked |-> ActiveIPs(Absent)]
    /\ version = 0
    /\ snapshot = NoSnapshot

ClusterOK ==
    /\ objects \in [Name -> Endpoints]
    /\ revision \in Nat
    /\ \A n \in Name : objects[n].rv <= revision
    /\ up \in BOOLEAN
    /\ incarnation \in Nat

\* A fresh process knows nothing, and that is consistent.
LEMMA FreshIsConsistent == Fresh /\ ClusterOK => Inv
<1> SUFFICES ASSUME Fresh, ClusterOK
             PROVE  Inv
  OBVIOUS
<1> USE DEF Fresh, ClusterOK
<1>1. endpointsMap \in [Tracked -> Entry]
  BY AbsentType, EntryType
<1>2. \A s \in Tracked : /\ endpointsMap[s] = ActiveIPs(store[s])
                         /\ endpointsMap[s].rv = 0
  BY AbsentType, EntryType, NameAssumption
<1>3. SnapshotIsCurrent
  BY EmptySnapshot DEF SnapshotIsCurrent
<1>4. snapshot \in Snapshot
  BY <1>1, <1>3, BuildSnapshotType DEF SnapshotIsCurrent
<1>5. events \in Seq(Notification) /\ Len(events) = 0
  OBVIOUS
<1>6. TypeOK
  BY <1>1, <1>4, <1>5, AbsentType DEF TypeOK
<1>7. \A s \in Tracked : Pending(s) = {}
  BY <1>5 DEF Pending
<1>8. \A n \in Name : store[n].rv = 0 /\ objects[n].rv \in Nat
  BY AbsentType DEF Endpoints
<1>9. Ordered
  BY <1>2, <1>5, <1>7, <1>8, NameAssumption DEF Ordered
<1>10. LastIsCurrent
  BY <1>2, <1>7 DEF LastIsCurrent
<1> QED
  BY <1>3, <1>6, <1>9, <1>10 DEF Inv

\* Every step preserves the invariant.
LEMMA StepPreserves == Inv /\ [Next]_vars => Inv'
<1> SUFFICES ASSUME Inv, [Next]_vars
             PROVE  Inv'
  OBVIOUS
<1>t. TypeOK /\ \A n \in Name : objects[n] \in Endpoints /\ objects[n].rv <= revision
  BY DEF Inv, TypeOK, Ordered
<1>1. ASSUME NEW n \in Name, CreateEndpoints(n)
      PROVE  Inv'
  <2>1. PICK ips \in SUBSET IP :
            Write(n, [alive |-> TRUE, rv |-> revision + 1, ips |-> ips])
    BY <1>1 DEF CreateEndpoints
  <2>2. [alive |-> TRUE, rv |-> revision + 1, ips |-> ips] \in Endpoints
    BY <1>t DEF TypeOK, Endpoints
  <2> QED
    BY <2>1, <2>2, WritePreserves
<1>2. ASSUME NEW n \in Name, UpdateEndpoints(n)
      PROVE  Inv'
  <2>1. PICK ips \in SUBSET IP :
            Write(n, [alive |-> TRUE, rv |-> revision + 1, ips |-> ips])
    BY <1>2 DEF UpdateEndpoints
  <2>2. [alive |-> TRUE, rv |-> revision + 1, ips |-> ips] \in Endpoints
    BY <1>t DEF TypeOK, Endpoints
  <2> QED
    BY <2>1, <2>2, WritePreserves
<1>3. ASSUME NEW n \in Name, DeleteEndpoints(n)
      PROVE  Inv'
  <2> DEFINE ep == [objects[n] EXCEPT !.alive = FALSE, !.rv = revision + 1]
  <2>1. ep \in Endpoints /\ ep.rv = revision + 1
    <3>1. objects[n] \in [alive: BOOLEAN, rv: Nat, ips: SUBSET IP]
      BY <1>t DEF Endpoints
    <3>2. revision + 1 \in Nat
      BY <1>t DEF TypeOK
    <3> QED
      BY <3>1, <3>2 DEF Endpoints
  <2>2. Write(n, ep)
    BY <1>3 DEF DeleteEndpoints
  <2> HIDE DEF ep
  <2> QED
    BY <2>1, <2>2, WritePreserves
<1>4. ASSUME NEW n \in Name, Observe(n)
      PROVE  Inv'
  BY <1>4, ObservePreserves
<1>5. ASSUME NEW n \in Name, Resync(n)
      PROVE  Inv'
  BY <1>5, ResyncPreserves
<1>6. CASE HandleNotification
  BY <1>6, HandlePreserves
<1>7. CASE Die
  <2>1. Fresh' /\ ClusterOK'
    BY <1>7, <1>t DEF Die, cluster, Fresh, ClusterOK, TypeOK
  <2>2. Fresh' /\ ClusterOK' => Inv'
    BY FreshIsConsistent, PTL
  <2> QED
    BY <2>1, <2>2
<1>8. CASE Restart
  BY <1>8 DEF Restart, cluster, process, Inv, TypeOK, SnapshotIsCurrent,
              Ordered, LastIsCurrent, Pending
<1>9. CASE UNCHANGED vars
  BY <1>9 DEF vars, Inv, TypeOK, SnapshotIsCurrent, Ordered, LastIsCurrent, Pending
<1> QED
  BY <1>1, <1>2, <1>3, <1>4, <1>5, <1>6, <1>7, <1>8, <1>9
     DEF Next, PanicOnTombstone, Crash

\* The invariant holds in every reachable state.
THEOREM Invariance == Spec => []Inv
<1>1. Init => Inv
  <2>1. Init => Fresh /\ ClusterOK
    BY AbsentType DEF Init, Fresh, ClusterOK
  <2> QED
    BY <2>1, FreshIsConsistent
<1> QED
  BY <1>1, StepPreserves, PTL DEF Spec

\* The variables keep their types.
THEOREM TypeCorrect == Spec => []TypeOK
<1>1. Inv => TypeOK
  BY DEF Inv
<1> QED
  BY <1>1, Invariance, PTL

\* Nothing is lost between the API server and the snapshot (NothingLost).
THEOREM NothingIsLost == Spec => []NothingLost
<1>1. ASSUME Inv
      PROVE  NothingLost
  <2> SUFFICES ASSUME NEW s \in Tracked, Settled(s)
               PROVE  Advertised(s) = Addresses(s, objects[s].ips)
    BY DEF NothingLost
  <2>1. endpointsMap[s] = ActiveIPs(objects[s])
    BY <1>1 DEF Settled, Inv, LastIsCurrent
  <2>2. endpointsMap[s].ips = objects[s].ips
    BY <1>1, <2>1, EntryType, NameAssumption DEF Inv, TypeOK
  <2>3. snapshot.endpoints = [t \in {u \in Tracked : endpointsMap[u].ips # {}} |->
                                  Addresses(t, endpointsMap[t].ips)]
    BY <1>1 DEF Inv, SnapshotIsCurrent, BuildSnapshot
  <2>4. CASE objects[s].ips # {}
    BY <2>2, <2>3, <2>4 DEF Advertised
  <2>5. CASE objects[s].ips = {}
    <3>1. Addresses(s, objects[s].ips) = {}
      BY <2>5 DEF Addresses
    <3>2. s \notin DOMAIN snapshot.endpoints
      BY <2>2, <2>3, <2>5
    <3> QED
      BY <3>1, <3>2 DEF Advertised
  <2> QED
    BY <2>4, <2>5
<1> QED
  BY <1>1, Invariance, PTL

\* What is advertised never goes back in time while the process lives
\* (NeverBackwards).
THEOREM AdvertisingNeverGoesBackwards == Spec => NeverBackwards
<1>1. ASSUME Inv, [Next]_vars, up, up'
      PROVE  \A s \in Tracked : endpointsMap'[s].rv >= endpointsMap[s].rv
  <2>1. CASE HandleNotification
    BY <1>1, <2>1, HandlePreserves
  <2>2. CASE UNCHANGED endpointsMap
    BY <1>1, <2>2 DEF Inv, TypeOK, Entry
  <2>3. ~Die /\ ~Restart
    BY <1>1 DEF Die, Restart
  <2> QED
    BY <1>1, <2>1, <2>2, <2>3
       DEF Next, vars, process, CreateEndpoints, UpdateEndpoints,
           DeleteEndpoints, Write, Observe, Resync, PanicOnTombstone, Crash
<1> QED
  BY <1>1, Invariance, PTL DEF Spec, NeverBackwards

\* What is advertised of a service depends on its own entry alone.
AdvertisedOfEntry ==
    \A s \in Tracked :
        Advertised(s) = IF endpointsMap[s].ips # {}
                        THEN Addresses(s, endpointsMap[s].ips) ELSE {}

\* A current snapshot advertises so.
LEMMA AdvertisedIsOfEntry == SnapshotIsCurrent => AdvertisedOfEntry
BY DEF SnapshotIsCurrent, BuildSnapshot, Advertised, AdvertisedOfEntry

\* An update changes what is advertised of its own service only (Isolation).
THEOREM UpdatesAreIsolated == Spec => Isolation
<1>1. ASSUME Inv, [Next]_vars, Inv', up, up', NEW s \in Tracked,
             Advertised(s)' # Advertised(s)
      PROVE  events # <<>> /\ Head(events).name = s
  <2>1. AdvertisedOfEntry
    BY <1>1, AdvertisedIsOfEntry DEF Inv
  <2>2. AdvertisedOfEntry'
    <3>1. SnapshotIsCurrent' => AdvertisedOfEntry'
      BY AdvertisedIsOfEntry, PTL
    <3> QED
      BY <1>1, <3>1 DEF Inv
  <2>3. endpointsMap'[s] # endpointsMap[s]
    BY <1>1, <2>1, <2>2 DEF AdvertisedOfEntry
  <2>4. ~Die /\ ~Restart
    BY <1>1 DEF Die, Restart
  <2>5. HandleNotification
    BY <1>1, <2>3, <2>4
       DEF Next, vars, process, CreateEndpoints, UpdateEndpoints,
           DeleteEndpoints, Write, Observe, Resync, PanicOnTombstone, Crash
  <2>6. endpointsMap' = endpointsMap
        \/ endpointsMap' = [endpointsMap EXCEPT ![Head(events).name] =
                                ActiveIPs(Head(events).new)]
    BY <2>5 DEF HandleNotification, handleEndpointUpdate, UntrackedUpdate,
                TrackedUpdate, Delivered
  <2> QED
    BY <1>1, <2>3, <2>5, <2>6 DEF HandleNotification, Inv, TypeOK
<1>2. Inv /\ Inv' /\ [Next]_vars
        => (up /\ up' => \A s \in Tracked :
               Advertised(s)' # Advertised(s)
                   => events # <<>> /\ Head(events).name = s)
  BY <1>1
<1> QED
  BY <1>2, Invariance, PTL DEF Spec, Isolation

-----------------------------------------------------------------------------
(* The control plane inside the mesh.                                      *)

\* A step of the mesh is a step of the control plane or none.
LEMMA MeshStepIsStep == [MeshNext]_meshVars => [Next]_vars
BY DEF MeshNext, meshVars, HandleAndPush, Connect, CreateWatch, Receive, Break,
       Next

\* So the control plane's invariant holds in the mesh.
THEOREM MeshKeepsInv == MeshSpec => []Inv
<1>1. MeshInit => Inv
  <2>1. Init => Fresh /\ ClusterOK
    BY AbsentType DEF Init, Fresh, ClusterOK
  <2> QED
    BY <2>1, FreshIsConsistent DEF MeshInit
<1>2. Inv /\ [MeshNext]_meshVars => Inv'
  BY MeshStepIsStep, StepPreserves
<1> QED
  BY <1>1, <1>2, PTL DEF MeshSpec

-----------------------------------------------------------------------------
(* States and versions.                                                    *)

\* A service's state has its object's version, and addresses.
LEMMA StateType ==
    ASSUME NEW s \in Tracked, NEW ep, ep.rv \in Nat, ep.ips \in SUBSET IP
    PROVE  /\ StateOf(s, ep) \in View
           /\ StateOf(s, ep).rv = ep.rv
BY AddressesType DEF StateOf, View

\* No object has the state no client has seen.
LEMMA AbsentState ==
    ASSUME NEW s \in Tracked
    PROVE  /\ StateOf(s, Absent) = NoView
           /\ StateOf(s, ActiveIPs(Absent)) = NoView
BY DEF StateOf, Absent, NoView, Addresses, ActiveIPs

\* An object and the handler's entry of it have the same state.
LEMMA EntryState ==
    ASSUME NEW s \in Tracked, NEW ep
    PROVE  StateOf(s, ActiveIPs(ep)) = StateOf(s, ep)
BY DEF StateOf, ActiveIPs

\* The versions and states under way are of their types.
LEMMA UnderwayType ==
    ASSUME Inv, NEW s \in Tracked
    PROVE  /\ Underway(s) \subseteq View
           /\ objects[s].rv \in Nat
           /\ endpointsMap[s].rv \in Nat
           /\ StateOf(s, objects[s]).rv = objects[s].rv
           /\ StateOf(s, endpointsMap[s]).rv = endpointsMap[s].rv
           /\ endpointsMap[s].rv <= objects[s].rv
           /\ objects[s].rv <= revision
           /\ revision \in Nat
<1> USE NameAssumption
<1>1. /\ objects[s] \in Endpoints /\ store[s] \in Endpoints
      /\ endpointsMap[s] \in Entry
      /\ \A i \in Pending(s) : events[i].new \in Endpoints
  BY QueuedType DEF Inv, TypeOK, Pending
<1>2. /\ StateOf(s, objects[s]) \in View
      /\ StateOf(s, objects[s]).rv = objects[s].rv
      /\ StateOf(s, store[s]) \in View
      /\ StateOf(s, endpointsMap[s]) \in View
      /\ StateOf(s, endpointsMap[s]).rv = endpointsMap[s].rv
      /\ \A i \in Pending(s) : StateOf(s, events[i].new) \in View
  BY <1>1, StateType DEF Endpoints, Entry
<1>3. objects[s].rv \in Nat /\ endpointsMap[s].rv \in Nat /\ store[s].rv \in Nat
  BY <1>1 DEF Endpoints, Entry
<1>4. /\ endpointsMap[s].rv <= store[s].rv
      /\ store[s].rv <= objects[s].rv
      /\ objects[s].rv <= revision
      /\ revision \in Nat
  BY DEF Inv, Ordered, TypeOK
<1> QED
  BY <1>2, <1>3, <1>4 DEF Underway

\* A client is sent the state in the handler's map.
LEMMA ResourcesState ==
    ASSUME Inv, NEW c \in Client
    PROVE  /\ Resources(c) \in Response
           /\ Resources(c).rv = endpointsMap[Target[c]].rv
           /\ [rv |-> Resources(c).rv, route |-> Resources(c).route]
                = StateOf(Target[c], endpointsMap[Target[c]])
<1> DEFINE s == Target[c]
<1>1. s \in Tracked
  BY TargetAssumption
<1>2. Advertised(s) = Addresses(s, endpointsMap[s].ips)
  <2>1. Advertised(s) = IF endpointsMap[s].ips # {}
                        THEN Addresses(s, endpointsMap[s].ips) ELSE {}
    BY <1>1, AdvertisedIsOfEntry DEF Inv, AdvertisedOfEntry
  <2>2. Addresses(s, {}) = {}
    BY DEF Addresses
  <2> QED
    BY <2>1, <2>2
<1>3. StateOf(s, endpointsMap[s]) \in View
  BY <1>1, UnderwayType DEF Underway
<1>4. /\ endpointsMap[s].rv \in Nat
      /\ Addresses(s, endpointsMap[s].ips) \in SUBSET Address
  BY <1>3, <1>1, UnderwayType, AddressesType DEF StateOf, View
<1>5. version \in Nat
  BY DEF Inv, TypeOK
<1> QED
  BY <1>2, <1>4, <1>5 DEF Resources, Response, StateOf

\* The same as state predicates, to be used after a step.
VersionsTyped ==
    \A s \in Tracked : /\ endpointsMap[s].rv \in Nat
                       /\ StateOf(s, endpointsMap[s]).rv = endpointsMap[s].rv

LEMMA VersionsAreTyped == Inv => VersionsTyped
BY UnderwayType DEF VersionsTyped

ResourcesTyped ==
    \A c \in Client :
        /\ Resources(c) \in Response
        /\ Resources(c).rv = endpointsMap[Target[c]].rv
        /\ [rv |-> Resources(c).rv, route |-> Resources(c).route]
             = StateOf(Target[c], endpointsMap[Target[c]])

LEMMA ResourcesAreTyped == Inv => ResourcesTyped
BY ResourcesState DEF ResourcesTyped

\* The handler's map holds the oldest version of a service under way.
LEMMA MapIsOldest ==
    ASSUME Inv, NEW s \in Tracked, NEW k \in Underway(s), NEW rv \in Nat,
           rv <= endpointsMap[s].rv
    PROVE  rv <= k.rv
<1> USE NameAssumption
<1>1. /\ objects[s] \in Endpoints /\ store[s] \in Endpoints
      /\ endpointsMap[s] \in Entry
      /\ \A i \in Pending(s) : events[i].new \in Endpoints
  BY QueuedType DEF Inv, TypeOK, Pending
<1>2. /\ endpointsMap[s].rv <= store[s].rv
      /\ store[s].rv <= objects[s].rv
      /\ \A i \in Pending(s) : endpointsMap[s].rv <= events[i].new.rv
  BY DEF Inv, Ordered
<1>3. \/ k = StateOf(s, objects[s])
      \/ k = StateOf(s, store[s])
      \/ k = StateOf(s, endpointsMap[s])
      \/ \E i \in Pending(s) : k = StateOf(s, events[i].new)
  BY DEF Underway
<1>4. \/ k.rv = objects[s].rv
      \/ k.rv = store[s].rv
      \/ k.rv = endpointsMap[s].rv
      \/ \E i \in Pending(s) : k.rv = events[i].new.rv
  BY <1>3 DEF StateOf
<1> QED
  BY <1>1, <1>2, <1>4 DEF Endpoints, Entry

-----------------------------------------------------------------------------
(* What each step does to the states under way.                            *)

\* A watch event, a relist or a resync spreads what the API server or the
\* indexer holds.
LEMMA InformerSpreads ==
    ASSUME Inv, NEW n \in Name, Observe(n) \/ Resync(n), NEW s \in Tracked
    PROVE  /\ Underway(s)' \subseteq Underway(s)
           /\ UNCHANGED <<objects, revision, endpointsMap, up, incarnation>>
<1> USE NameAssumption
<1>1. UNCHANGED <<objects, revision, endpointsMap, up, incarnation>>
  BY DEF Observe, Resync, cluster
<1>2. PICK new : /\ new \in {objects[n], store[n]}
                 /\ \E kind, old : Notify(kind, n, old, new)
  BY DEF Observe, Resync
<1>3. PICK e : e.name = n /\ e.new = new /\ events' = Append(events, e)
  BY <1>2 DEF Notify
<1>4. store'[s] \in {store[s], objects[s]}
  BY DEF Observe, Resync, Inv, TypeOK
<1>5. /\ Len(events') = Len(events) + 1
      /\ Len(events) \in Nat
      /\ \A i \in 1..Len(events) : events'[i] = events[i]
      /\ events'[Len(events) + 1] = e
  BY <1>3 DEF Inv, TypeOK
<1>6. ASSUME NEW i \in Pending(s)'
      PROVE  StateOf(s, events'[i].new) \in Underway(s)
  <2>0. i \in 1..Len(events') /\ events'[i].name = s
    BY DEF Pending
  <2>1. CASE i \in 1..Len(events)
    <3>1. i \in Pending(s) /\ events'[i] = events[i]
      BY <2>0, <2>1, <1>5 DEF Pending
    <3> QED
      BY <3>1 DEF Underway
  <2>2. CASE i = Len(events) + 1
    <3>1. events'[i].new \in {objects[s], store[s]}
      BY <2>0, <2>2, <1>2, <1>3, <1>5
    <3> QED
      BY <3>1 DEF Underway
  <2> QED
    BY <2>0, <2>1, <2>2, <1>5
<1>7. {StateOf(s, events'[i].new) : i \in Pending(s)'} \subseteq Underway(s)
  BY <1>6
<1>8. {StateOf(s, objects'[s]), StateOf(s, store'[s]), StateOf(s, endpointsMap'[s])}
        \subseteq Underway(s)
  BY <1>1, <1>4 DEF Underway
<1> QED
  BY <1>1, <1>7, <1>8 DEF Underway

\* The handler takes a state from the queue.
LEMMA HandlerTakes ==
    ASSUME Inv, HandleNotification, NEW s \in Tracked
    PROVE  /\ Underway(s)' \subseteq Underway(s)
           /\ UNCHANGED <<objects, revision, up, incarnation>>
           /\ endpointsMap'[s].rv >= endpointsMap[s].rv
<1>1. /\ UNCHANGED <<objects, revision, store, up, incarnation>>
      /\ events \in Seq(Notification)
      /\ events # <<>>
      /\ events' = Tail(events)
  BY DEF HandleNotification, cluster, Inv, TypeOK
<1>2. /\ Len(events') = Len(events) - 1
      /\ Len(events) \in Nat
      /\ 1 \in 1..Len(events)
      /\ \A i \in 1..Len(events') : /\ i + 1 \in 1..Len(events)
                                    /\ events'[i] = events[i + 1]
      /\ Head(events) = events[1]
  BY <1>1, QueueTail
<1>3. \A i \in Pending(s)' : i + 1 \in Pending(s) /\ events'[i] = events[i + 1]
  BY <1>2 DEF Pending
<1>4. \/ endpointsMap'[s] = endpointsMap[s]
      \/ /\ events[1].name = s
         /\ endpointsMap'[s] = ActiveIPs(events[1].new)
  BY <1>2 DEF HandleNotification, handleEndpointUpdate, UntrackedUpdate,
              TrackedUpdate, Delivered, Inv, TypeOK
<1>5. StateOf(s, endpointsMap'[s]) \in Underway(s)
  <2>1. CASE endpointsMap'[s] = endpointsMap[s]
    BY <2>1 DEF Underway
  <2>2. CASE events[1].name = s /\ endpointsMap'[s] = ActiveIPs(events[1].new)
    <3>1. 1 \in Pending(s)
      BY <2>2, <1>2 DEF Pending
    <3>2. StateOf(s, endpointsMap'[s]) = StateOf(s, events[1].new)
      BY <2>2, EntryState
    <3> QED
      BY <3>1, <3>2 DEF Underway
  <2> QED
    BY <1>4, <2>1, <2>2
<1>6. {StateOf(s, events'[i].new) : i \in Pending(s)'} \subseteq Underway(s)
  BY <1>3 DEF Underway
<1>7. {StateOf(s, objects'[s]), StateOf(s, store'[s])} \subseteq Underway(s)
  BY <1>1 DEF Underway
<1>8. Underway(s)' \subseteq Underway(s)
  BY <1>5, <1>6, <1>7 DEF Underway
<1> QED
  BY <1>1, <1>8, HandlePreserves

\* A write brings one new state, a process that ends leaves none of its own.
LEMMA WriteBringsOne ==
    ASSUME NEW n \in Name, NEW ep, Write(n, ep), NEW s \in Tracked
    PROVE  Underway(s)' \subseteq Underway(s) \cup {StateOf(s, objects'[s])}
BY DEF Write, process, Underway, Pending

LEMMA DeathLeavesNone ==
    ASSUME Die, NEW s \in Tracked
    PROVE  Underway(s)' \subseteq {StateOf(s, objects[s]), NoView}
<1>1. Pending(s)' = {}
  BY DEF Die, Pending
<1>2. /\ objects'[s] = objects[s]
      /\ store'[s] = Absent
      /\ endpointsMap'[s] = ActiveIPs(Absent)
  BY NameAssumption DEF Die, cluster
<1> QED
  BY <1>1, <1>2, AbsentState DEF Underway

-----------------------------------------------------------------------------
(* The invariant.                                                          *)

\* What the steps of the process and of the streams have in common: nothing
\* new gets under way, and a new response is of the handler's map.
StreamsStep ==
    /\ UNCHANGED <<objects, revision, up, incarnation, written, view>>
    /\ \A s \in Tracked : /\ Underway(s)' \subseteq Underway(s)
                          /\ endpointsMap'[s].rv >= endpointsMap[s].rv
    /\ \A c \in Client :
           /\ stream'[c] # "down" => up
           /\ stream'[c] = "response" =>
                  \/ stream[c] = "response" /\ response'[c] = response[c]
                  \/ /\ ResponseState(c)' = StateOf(Target[c], endpointsMap'[Target[c]])
                     /\ response'[c].rv = endpointsMap'[Target[c]].rv

\* Such a step preserves the invariant.
LEMMA StreamsPreserve ==
    ASSUME Inv, Inv', MeshInv, MeshTypeOK', StreamsStep
    PROVE  MeshInv'
<1> USE DEF StreamsStep
<1>t. /\ Target \in [Client -> Tracked]
      /\ \A s \in Tracked : /\ endpointsMap[s].rv \in Nat
                            /\ endpointsMap'[s].rv \in Nat
                            /\ StateOf(s, endpointsMap'[s]) \in Underway(s)'
                            /\ StateOf(s, endpointsMap'[s]).rv = endpointsMap'[s].rv
  <2>1. \A s \in Tracked : StateOf(s, endpointsMap[s]) \in Underway(s)
    BY DEF Underway
  <2>2. (\A s \in Tracked : StateOf(s, endpointsMap[s]) \in Underway(s))'
    BY DEF Underway
  <2>3. Inv' => VersionsTyped'
    BY VersionsAreTyped, PTL
  <2> QED
    BY <2>2, <2>3, VersionsAreTyped, TargetAssumption DEF VersionsTyped
<1>1. revision' <= MaxRevision
  BY DEF MeshInv
<1>2. Recorded'
  <2>1. ASSUME NEW s \in Tracked
        PROVE  /\ Underway(s)' \cup {NoView} \subseteq written'[s]
               /\ \A w \in written'[s] : /\ w.rv <= objects'[s].rv
                                         /\ w.rv = 0 => w = NoView
    BY DEF MeshInv, Recorded
  <2>2. ASSUME NEW c \in Client, stream'[c] = "response"
        PROVE  ResponseState(c)' \in written'[Target[c]]
    <3>1. CASE stream[c] = "response" /\ response'[c] = response[c]
      BY <3>1 DEF MeshInv, Recorded, ResponseState
    <3>2. CASE ResponseState(c)' = StateOf(Target[c], endpointsMap'[Target[c]])
      BY <3>2, <2>1, <1>t
    <3> QED
      BY <3>1, <3>2, <2>2
  <2> QED
    BY <2>1, <2>2 DEF Recorded
<1>3. NothingOlder'
  <2> SUFFICES ASSUME NEW c \in Client
               PROVE  LET s == Target[c] IN
                      /\ view[c].rv <= objects[s].rv
                      /\ \A k \in Underway(s)' : NotOlder(c, k.rv)
                      /\ incarnation = 0 /\ up => view[c].rv <= endpointsMap'[s].rv
                      /\ stream'[c] # "down" => up
                      /\ stream'[c] = "response" =>
                             /\ NotOlder(c, response'[c].rv)
                             /\ response'[c].rv <= endpointsMap'[s].rv
                             /\ incarnation = 0 => view[c].rv <= response'[c].rv
    BY DEF NothingOlder, NotOlder
  <2> DEFINE s == Target[c]
  <2>0. s \in Tracked
    BY <1>t
  <2>1. /\ view[c].rv <= objects[s].rv
        /\ \A k \in Underway(s) : NotOlder(c, k.rv)
        /\ incarnation = 0 /\ up => view[c].rv <= endpointsMap[s].rv
        /\ stream[c] = "response" =>
               /\ NotOlder(c, response[c].rv)
               /\ response[c].rv <= endpointsMap[s].rv
               /\ incarnation = 0 => view[c].rv <= response[c].rv
    BY DEF MeshInv, NothingOlder
  <2>2. \A k \in Underway(s)' : NotOlder(c, k.rv)
    BY <2>0, <2>1
  <2>3. view[c].rv \in Nat
    BY DEF MeshInv, MeshTypeOK, View
  <2>4. incarnation = 0 /\ up => view[c].rv <= endpointsMap'[s].rv
    BY <2>0, <2>1, <2>3, <1>t
  <2>5. NotOlder(c, endpointsMap'[s].rv)
    BY <2>0, <2>2, <1>t
  <2>6. ASSUME stream'[c] = "response"
        PROVE  /\ NotOlder(c, response'[c].rv)
               /\ response'[c].rv <= endpointsMap'[s].rv
               /\ incarnation = 0 => view[c].rv <= response'[c].rv
    <3>1. CASE stream[c] = "response" /\ response'[c] = response[c]
      <4>1. response[c].rv \in Nat
        BY DEF MeshInv, MeshTypeOK, Response
      <4> QED
        BY <3>1, <4>1, <2>0, <2>1, <1>t
    <3>2. CASE response'[c].rv = endpointsMap'[s].rv
      BY <3>2, <2>0, <2>4, <2>5, <2>6, <1>t
    <3> QED
      BY <3>1, <3>2, <2>6
  <2> QED
    BY <2>1, <2>2, <2>4, <2>6
<1> QED
  BY <1>1, <1>2, <1>3 DEF MeshInv

\* The informer's steps, the handler's with its push to the watches, and the
\* streams' are such steps.
LEMMA InformerPreserves ==
    ASSUME Inv, Inv', MeshInv, NEW n \in Name, Observe(n) \/ Resync(n),
           UNCHANGED <<clients, written>>
    PROVE  MeshInv'
<1>1. MeshTypeOK'
  BY DEF clients, streams, MeshInv, MeshTypeOK
<1>2. \A s \in Tracked : /\ Underway(s)' \subseteq Underway(s)
                         /\ UNCHANGED <<objects, revision, endpointsMap, up, incarnation>>
  BY InformerSpreads
<1>3. UNCHANGED <<objects, revision, endpointsMap, up, incarnation>>
  BY <1>2 DEF Tracked
<1>4. \A s \in Tracked : endpointsMap[s].rv \in Nat
  BY UnderwayType
<1>5. StreamsStep
  BY <1>2, <1>3, <1>4 DEF StreamsStep, clients, streams, MeshInv, NothingOlder
<1> QED
  BY <1>1, <1>5, StreamsPreserve

LEMMA PushPreserves ==
    ASSUME Inv, Inv', MeshInv, HandleAndPush
    PROVE  MeshInv'
<1>1. \A s \in Tracked : /\ Underway(s)' \subseteq Underway(s)
                         /\ UNCHANGED <<objects, revision, up, incarnation>>
                         /\ endpointsMap'[s].rv >= endpointsMap[s].rv
  BY HandlerTakes DEF HandleAndPush
<1>2. UNCHANGED <<objects, revision, up, incarnation, accepted, view, written>>
  BY <1>1 DEF Tracked, HandleAndPush, SetSnapshot
<1>3. \A c \in Client : Resources(c)' \in Response
                        /\ (Resources(c).rv = endpointsMap[Target[c]].rv)'
                        /\ ([rv |-> Resources(c).rv, route |-> Resources(c).route]
                               = StateOf(Target[c], endpointsMap[Target[c]]))'
  <2>1. Inv' => ResourcesTyped'
    BY ResourcesAreTyped, PTL
  <2> QED
    BY <2>1 DEF ResourcesTyped
<1>4. \A c \in Client :
          \/ stream'[c] = stream[c] /\ response'[c] = response[c]
          \/ stream[c] = "watch" /\ stream'[c] = "response"
             /\ response'[c] = Resources(c)'
  BY DEF HandleAndPush, SetSnapshot
<1>5. MeshTypeOK'
  <2>1. /\ stream' \in [Client -> {"down", "request", "watch", "response"}]
        /\ response' \in [Client -> Response]
        /\ known' \in [Client -> BOOLEAN]
    BY <1>3 DEF HandleAndPush, SetSnapshot, MeshInv, MeshTypeOK
  <2> QED
    BY <2>1, <1>2 DEF MeshInv, MeshTypeOK
<1>6. \A c \in Client : stream'[c] # "down" => up
  BY <1>4 DEF MeshInv, NothingOlder
<1>7. \A c \in Client : stream'[c] = "response" =>
          \/ stream[c] = "response" /\ response'[c] = response[c]
          \/ /\ ResponseState(c)' = StateOf(Target[c], endpointsMap'[Target[c]])
             /\ response'[c].rv = endpointsMap'[Target[c]].rv
  BY <1>3, <1>4 DEF ResponseState
<1>8. StreamsStep
  BY <1>1, <1>2, <1>6, <1>7 DEF StreamsStep
<1> QED
  BY <1>5, <1>8, StreamsPreserve

LEMMA StreamPreserves ==
    ASSUME Inv, Inv', MeshInv, NEW c \in Client,
           Connect(c) \/ CreateWatch(c) \/ Break(c)
    PROVE  MeshInv'
<1>1. UNCHANGED vars /\ UNCHANGED <<accepted, view, written>>
  BY DEF Connect, CreateWatch, Break
<1>2. \A s \in Tracked : /\ Underway(s)' = Underway(s)
                         /\ endpointsMap[s].rv \in Nat
  BY <1>1, UnderwayType DEF vars, Underway, Pending
<1>3. /\ Resources(c) \in Response
      /\ Resources(c).rv = endpointsMap[Target[c]].rv
      /\ [rv |-> Resources(c).rv, route |-> Resources(c).route]
             = StateOf(Target[c], endpointsMap[Target[c]])
      /\ NoResponse \in Response
  BY ResourcesState DEF NoResponse, Response
<1>4. \A d \in Client :
          \/ stream'[d] = stream[d] /\ response'[d] = response[d]
          \/ stream'[d] = "request" /\ up
          \/ stream'[d] = "watch" /\ stream[d] = "request"
          \/ stream'[d] = "down"
          \/ /\ stream'[d] = "response"
             /\ stream[d] = "request"
             /\ d = c
             /\ response'[d] = Resources(c)
  BY DEF Connect, CreateWatch, Break, MeshInv, MeshTypeOK
<1>5. MeshTypeOK'
  <2>1. /\ stream' \in [Client -> {"down", "request", "watch", "response"}]
        /\ response' \in [Client -> Response]
        /\ known' \in [Client -> BOOLEAN]
    BY <1>3 DEF Connect, CreateWatch, Break, MeshInv, MeshTypeOK
  <2> QED
    BY <2>1, <1>1 DEF MeshInv, MeshTypeOK
<1>6. \A d \in Client : stream'[d] # "down" => up
  BY <1>4 DEF MeshInv, NothingOlder
<1>7. \A d \in Client : stream'[d] = "response" =>
          \/ stream[d] = "response" /\ response'[d] = response[d]
          \/ /\ ResponseState(d)' = StateOf(Target[d], endpointsMap'[Target[d]])
             /\ response'[d].rv = endpointsMap'[Target[d]].rv
  BY <1>1, <1>3, <1>4 DEF ResponseState, vars
<1>8. StreamsStep
  BY <1>1, <1>2, <1>6, <1>7 DEF StreamsStep, vars
<1> QED
  BY <1>5, <1>8, StreamsPreserve

\* A write gives its service a state newer than all before.
LEMMA WriteRecords ==
    ASSUME Inv, Inv', MeshInv, NEW n \in Name, NEW ep \in Endpoints,
           ep.rv = revision + 1, Write(n, ep), Record
    PROVE  /\ MeshInv'
           /\ Mapped!Next \/ UNCHANGED Mapped!vars
<1>1. /\ revision < MaxRevision
      /\ revision' = revision + 1
      /\ revision \in Nat
      /\ objects' = [objects EXCEPT ![n] = ep]
      /\ UNCHANGED <<store, events, endpointsMap, version, snapshot, up, incarnation>>
      /\ UNCHANGED <<stream, accepted, known, response, view>>
  BY DEF Write, Record, process, clients, streams, Inv, TypeOK
<1>2. ASSUME NEW s \in Tracked
      PROVE  /\ s = n => /\ objects'[s] = ep
                         /\ StateOf(s, ep) \in View
                         /\ StateOf(s, ep).rv = revision + 1
             /\ s # n => objects'[s] = objects[s]
             /\ objects[s].rv \in Nat
             /\ objects[s].rv <= revision
             /\ objects[s].rv <= objects'[s].rv
             /\ written'[s] = written[s] \cup {StateOf(s, objects'[s])}
             /\ Underway(s)' \subseteq Underway(s) \cup {StateOf(s, objects'[s])}
             /\ Underway(s) \subseteq written[s]
             /\ StateOf(s, objects[s]) \in Underway(s)
             /\ \A w \in written[s] : /\ w \in View
                                      /\ w.rv <= objects[s].rv
                                      /\ w.rv = 0 => w = NoView
  <2>1. /\ s = n => objects'[s] = ep
        /\ s # n => objects'[s] = objects[s]
    BY <1>1, NameAssumption DEF Inv, TypeOK
  <2>2. StateOf(s, ep) \in View /\ StateOf(s, ep).rv = revision + 1
    BY StateType DEF Endpoints
  <2>3. objects[s].rv \in Nat /\ objects[s].rv <= revision
    BY UnderwayType
  <2>4. written'[s] = written[s] \cup {StateOf(s, objects'[s])}
    BY DEF Record
  <2>5. Underway(s)' \subseteq Underway(s) \cup {StateOf(s, objects'[s])}
    BY WriteBringsOne
  <2>6. /\ Underway(s) \subseteq written[s]
        /\ \A w \in written[s] : /\ w \in View
                                 /\ w.rv <= objects[s].rv
                                 /\ w.rv = 0 => w = NoView
    BY DEF MeshInv, MeshTypeOK, Recorded
  <2>7. StateOf(s, objects[s]) \in Underway(s)
    BY DEF Underway
  <2> QED
    BY <2>1, <2>2, <2>3, <2>4, <2>5, <2>6, <2>7, <1>1
<1>3. ASSUME NEW s \in Tracked, s # n
      PROVE  /\ written'[s] = written[s]
             /\ StateOf(s, objects'[s]) \in Underway(s)
  <2>1. /\ objects'[s] = objects[s]
        /\ StateOf(s, objects[s]) \in Underway(s)
        /\ Underway(s) \subseteq written[s]
        /\ written'[s] = written[s] \cup {StateOf(s, objects'[s])}
    BY <1>2, <1>3
  <2> QED
    BY <2>1
<1>4. MeshTypeOK'
  <2>1. \A s \in Tracked : written'[s] \subseteq View
    <3> SUFFICES ASSUME NEW s \in Tracked
                 PROVE  written'[s] \subseteq View
      OBVIOUS
    <3>1. CASE s = n
      BY <3>1, <1>2
    <3>2. CASE s # n
      BY <3>2, <1>2, <1>3
    <3> QED
      BY <3>1, <3>2
  <2>2. written' \in [Tracked -> SUBSET View]
    BY <2>1 DEF Record
  <2> QED
    BY <2>2, <1>1 DEF MeshInv, MeshTypeOK
<1>5. Recorded'
  <2>1. ASSUME NEW s \in Tracked
        PROVE  /\ Underway(s)' \cup {NoView} \subseteq written'[s]
               /\ \A w \in written'[s] : /\ w.rv <= objects'[s].rv
                                         /\ w.rv = 0 => w = NoView
    <3>1. NoView \in written[s]
      BY DEF MeshInv, Recorded
    <3>2. ASSUME NEW w \in written[s]
          PROVE  w.rv <= objects'[s].rv /\ (w.rv = 0 => w = NoView)
      <4>1. w.rv \in Nat /\ w.rv <= objects[s].rv /\ (w.rv = 0 => w = NoView)
        BY <1>2 DEF View
      <4>2. objects'[s].rv \in Nat
        BY <1>1, <1>2 DEF Endpoints
      <4> QED
        BY <4>1, <4>2, <1>2
    <3>3. CASE s = n
      BY <3>1, <3>2, <3>3, <1>1, <1>2
    <3>4. CASE s # n
      BY <3>1, <3>2, <3>4, <1>2, <1>3
    <3> QED
      BY <3>3, <3>4
  <2>2. ASSUME NEW c \in Client, stream'[c] = "response"
        PROVE  ResponseState(c)' \in written'[Target[c]]
    <3>1. ResponseState(c)' \in written[Target[c]]
      BY <2>2, <1>1 DEF ResponseState, MeshInv, Recorded
    <3> QED
      BY <3>1, <1>2, TargetAssumption
  <2> QED
    BY <2>1, <2>2 DEF Recorded
<1>6. NothingOlder'
  <2>1. ASSUME NEW c \in Client
        PROVE  \A k \in Underway(Target[c])' : NotOlder(c, k.rv)
    <3> DEFINE s == Target[c]
    <3>0. s \in Tracked
      BY TargetAssumption
    <3>1. \A k \in Underway(s) : NotOlder(c, k.rv)
      BY DEF MeshInv, NothingOlder
    <3>2. view[c].rv \in Nat
      BY DEF MeshInv, MeshTypeOK, View
    <3>3. view[c].rv <= objects[s].rv
      BY DEF MeshInv, NothingOlder
    <3>4. NotOlder(c, StateOf(s, objects'[s]).rv)
      <4>1. CASE s = n
        <5>1. view[c].rv <= revision + 1
          BY <3>2, <3>3, <3>0, <1>1, <1>2
        <5> QED
          BY <4>1, <5>1, <3>0, <1>2 DEF NotOlder
      <4>2. CASE s # n
        BY <4>2, <3>0, <3>1, <1>3
      <4> QED
        BY <4>1, <4>2
    <3> QED
      BY <3>0, <3>1, <3>4, <1>2
  <2>2. ASSUME NEW c \in Client
        PROVE  view[c].rv <= objects'[Target[c]].rv
    <3>1. view[c].rv <= objects[Target[c]].rv /\ view[c].rv \in Nat
      BY DEF MeshInv, MeshTypeOK, NothingOlder, View
    <3>2. /\ objects[Target[c]].rv \in Nat
          /\ objects'[Target[c]].rv \in Nat
          /\ objects[Target[c]].rv <= objects'[Target[c]].rv
      BY <1>1, <1>2, TargetAssumption DEF Endpoints
    <3> QED
      BY <3>1, <3>2
  <2> QED
    BY <2>1, <2>2, <1>1 DEF MeshInv, NothingOlder, NotOlder
<1>7. Mapped!Next \/ UNCHANGED Mapped!vars
  <2>1. CASE n \in Tracked
    <3>1. StateOf(n, ep) \in Mapped!State
      BY <2>1, <1>1, <1>2, BoundAssumption DEF Mapped!State, View
    <3>2. \A old \in written[n] : old.rv < StateOf(n, ep).rv
      <4>1. \A old \in written[n] : old.rv \in Nat
        BY <2>1, <1>2 DEF View
      <4> QED
        BY <2>1, <4>1, <1>1, <1>2
    <3>3. written' = [written EXCEPT ![n] = @ \cup {StateOf(n, ep)}]
      <4>1. \A s \in Tracked :
                written'[s] = [written EXCEPT ![n] = @ \cup {StateOf(n, ep)}][s]
        BY <2>1, <1>2, <1>3 DEF MeshInv, MeshTypeOK
      <4> QED
        BY <4>1 DEF Record, MeshInv, MeshTypeOK
    <3>4. Mapped!Publish(n)
      BY <3>1, <3>2, <3>3, <1>1 DEF Mapped!Publish
    <3> QED
      BY <2>1, <3>4 DEF Mapped!Next
  <2>2. CASE n \notin Tracked
    <3>1. written' = written
      BY <2>2, <1>3 DEF Record, MeshInv, MeshTypeOK
    <3> QED
      BY <3>1, <1>1 DEF Mapped!vars
  <2> QED
    BY <2>1, <2>2
<1>8. revision' <= MaxRevision
  BY <1>1, BoundAssumption
<1> QED
  BY <1>4, <1>5, <1>6, <1>7, <1>8 DEF MeshInv

\* The control plane's end takes its streams along; the clients keep what
\* they know.
LEMMA DeathPreserves ==
    ASSUME Inv, MeshInv, Die, BreakAll
    PROVE  MeshInv'
<1>1. /\ UNCHANGED <<objects, revision, incarnation, accepted, view, written>>
      /\ up' = FALSE
      /\ stream' = [c \in Client |-> "down"]
      /\ response' = [c \in Client |-> NoResponse]
      /\ known' = [c \in Client |-> FALSE]
  BY DEF Die, BreakAll, cluster
<1>2. MeshTypeOK'
  <2>1. NoResponse \in Response
    BY DEF NoResponse, Response
  <2> QED
    BY <1>1, <2>1 DEF MeshInv, MeshTypeOK
<1>3. ASSUME NEW s \in Tracked
      PROVE  /\ Underway(s)' \subseteq {StateOf(s, objects[s]), NoView}
             /\ StateOf(s, objects[s]) \in Underway(s)
             /\ Underway(s) \cup {NoView} \subseteq written[s]
             /\ \A w \in written[s] : /\ w.rv <= objects[s].rv
                                      /\ w.rv = 0 => w = NoView
  BY DeathLeavesNone DEF MeshInv, Recorded, Underway
<1>4. Recorded'
  <2>1. \A s \in Tracked :
            /\ Underway(s)' \cup {NoView} \subseteq written[s]
            /\ \A w \in written[s] : /\ w.rv <= objects[s].rv
                                     /\ w.rv = 0 => w = NoView
    BY <1>3
  <2> QED
    BY <2>1, <1>1 DEF Recorded
<1>5. NothingOlder'
  <2>1. ASSUME NEW c \in Client
        PROVE  \A k \in Underway(Target[c])' : NotOlder(c, k.rv)
    BY <1>3, TargetAssumption DEF MeshInv, NothingOlder, NotOlder, NoView
  <2> QED
    BY <2>1, <1>1 DEF MeshInv, NothingOlder, NotOlder
<1> QED
  BY <1>1, <1>2, <1>4, <1>5 DEF MeshInv

LEMMA RestartPreserves ==
    ASSUME Inv, MeshInv, Restart, UNCHANGED <<clients, written>>
    PROVE  MeshInv'
<1>1. /\ UNCHANGED <<objects, revision, store, events, endpointsMap>>
      /\ UNCHANGED <<stream, accepted, known, response, view, written>>
      /\ incarnation' # 0
      /\ ~up
  BY DEF Restart, cluster, process, clients, streams, Inv, TypeOK
<1>2. MeshTypeOK'
  BY <1>1 DEF MeshInv, MeshTypeOK
<1>3. \A s \in Tracked : Underway(s)' = Underway(s)
  BY <1>1 DEF Underway, Pending
<1>4. Recorded'
  BY <1>1, <1>3 DEF MeshInv, Recorded, ResponseState
<1>5. NothingOlder'
  <2>1. \A c \in Client : stream'[c] = "down"
    BY <1>1 DEF MeshInv, NothingOlder
  <2> QED
    BY <2>1, <1>1, <1>3, TargetAssumption DEF MeshInv, NothingOlder, NotOlder
<1> QED
  BY <1>1, <1>2, <1>4, <1>5 DEF MeshInv

\* What a client receives is not older than what it has, or takes its route
\* away.
LEMMA ReceiveLearns ==
    ASSUME Inv, MeshInv, NEW c \in Client, Receive(c)
    PROVE  /\ MeshInv'
           /\ Mapped!Next
<1> DEFINE s == Target[c]
           r == response[c]
<1>0. s \in Tracked
  BY TargetAssumption
<1>1. /\ stream[c] = "response"
      /\ UNCHANGED <<vars, known, written>>
      /\ stream' = [stream EXCEPT ![c] = "request"]
      /\ accepted' = [accepted EXCEPT ![c] = r.version]
      /\ response' = [response EXCEPT ![c] = NoResponse]
  BY DEF Receive
<1>2. /\ r \in Response
      /\ view[c] \in View
      /\ view \in [Client -> View]
  BY DEF MeshInv, MeshTypeOK
<1>3. /\ r.rv \in Nat
      /\ r.route \in SUBSET Address
      /\ r.version \in Nat
      /\ view[c].rv \in Nat
      /\ view[c] = [rv |-> view[c].rv, route |-> view[c].route]
  BY <1>2 DEF Response, View
<1>4. view' = [view EXCEPT ![c] = [rv |-> IF r.rv = 0 THEN view[c].rv ELSE r.rv,
                                   route |-> r.route]]
  BY DEF Receive
<1>5. /\ [rv |-> r.rv, route |-> r.route] \in written[s]
      /\ NotOlder(c, r.rv)
      /\ r.rv <= endpointsMap[s].rv
      /\ incarnation = 0 => view[c].rv <= r.rv
      /\ r.rv = 0 => r.route = {}
  <2>1. [rv |-> r.rv, route |-> r.route] \in written[s]
    BY <1>1 DEF MeshInv, Recorded, ResponseState
  <2>2. \A w \in written[s] : w.rv = 0 => w = NoView
    BY <1>0 DEF MeshInv, Recorded
  <2>3. r.rv = 0 => r.route = {}
    BY <2>1, <2>2 DEF NoView
  <2> QED
    BY <2>1, <2>3, <1>1 DEF MeshInv, NothingOlder
<1> HIDE DEF s, r
<1>6. Mapped!Next
  <2>1. CASE r.rv # 0
    <3>1. view' = [view EXCEPT ![c] = [rv |-> r.rv, route |-> r.route]]
      BY <2>1, <1>4
    <3>2. view[c].rv <= r.rv
      BY <2>1, <1>5 DEF NotOlder
    <3> QED
      BY <3>1, <3>2, <1>1, <1>5 DEF Mapped!Next, Mapped!Learn, vars, s
  <2>2. CASE r.rv = 0 /\ incarnation = 0
    <3>1. view[c].rv = 0
      BY <2>2, <1>3, <1>5
    <3>2. view' = [view EXCEPT ![c] = [rv |-> r.rv, route |-> r.route]]
      BY <3>1, <2>2, <1>4
    <3> QED
      BY <2>2, <3>1, <3>2, <1>1, <1>5 DEF Mapped!Next, Mapped!Learn, vars, s
  <2>3. CASE r.rv = 0 /\ incarnation # 0
    <3>1. view' = [view EXCEPT ![c] = [rv |-> view[c].rv, route |-> {}]]
      BY <2>3, <1>4, <1>5
    <3>2. view' = [view EXCEPT ![c].route = {}]
      BY <3>1, <1>2, <1>3 DEF View
    <3>3. incarnation > 0
      BY <2>3 DEF Inv, TypeOK
    <3> QED
      BY <3>2, <3>3, <1>1 DEF Mapped!Next, Mapped!LoseRoute, vars
  <2> QED
    BY <2>1, <2>2, <2>3
<1>7. MeshTypeOK'
  <2>1. NoResponse \in Response
    BY DEF NoResponse, Response
  <2>2. [rv |-> IF r.rv = 0 THEN view[c].rv ELSE r.rv, route |-> r.route] \in View
    BY <1>3 DEF View
  <2>3. view' \in [Client -> View]
    BY <2>2, <1>2, <1>4
  <2> QED
    BY <2>1, <2>3, <1>1, <1>3 DEF MeshInv, MeshTypeOK
<1>8. \A t \in Tracked : Underway(t)' = Underway(t)
  BY <1>1 DEF vars, Underway, Pending
<1>9. Recorded'
  BY <1>1, <1>8 DEF MeshInv, MeshTypeOK, Recorded, ResponseState, vars
<1>10. NothingOlder'
  <2>1. ASSUME NEW d \in Client, d # c
        PROVE  /\ view'[d] = view[d]
               /\ stream'[d] = stream[d]
               /\ response'[d] = response[d]
    BY <2>1, <1>1, <1>4 DEF MeshInv, MeshTypeOK
  <2>2. /\ view'[c].rv = IF r.rv = 0 THEN view[c].rv ELSE r.rv
        /\ stream'[c] = "request"
    BY <1>1, <1>2, <1>4 DEF MeshInv, MeshTypeOK
  <2>3. /\ \A k \in Underway(s) : k \in View /\ NotOlder(c, k.rv)
        /\ view[c].rv <= objects[s].rv
        /\ incarnation = 0 /\ up => view[c].rv <= endpointsMap[s].rv
        /\ up
    BY <1>0, <1>1, UnderwayType DEF MeshInv, NothingOlder, s
  <2>4. ASSUME NEW k \in Underway(s)
        PROVE  r.rv = 0 \/ k.rv = 0 \/ r.rv <= k.rv
    BY <1>0, <1>3, <1>5, MapIsOldest
  <2>5. /\ view'[c].rv <= objects[s].rv
        /\ incarnation = 0 => view'[c].rv <= endpointsMap[s].rv
    <3>1. /\ endpointsMap[s].rv \in Nat
          /\ objects[s].rv \in Nat
          /\ endpointsMap[s].rv <= objects[s].rv
      BY <1>0, UnderwayType
    <3> QED
      BY <3>1, <2>2, <2>3, <1>3, <1>5
  <2>6. \A k \in Underway(s) : k.rv = 0 \/ view'[c].rv <= k.rv
    BY <2>2, <2>3, <2>4 DEF NotOlder
  <2>7. ASSUME NEW d \in Client
        PROVE  /\ view'[d].rv <= objects'[Target[d]].rv
               /\ \A k \in Underway(Target[d])' : k.rv = 0 \/ view'[d].rv <= k.rv
               /\ incarnation' = 0 /\ up' => view'[d].rv <= endpointsMap'[Target[d]].rv
               /\ stream'[d] # "down" => up'
               /\ stream'[d] = "response" =>
                      /\ response'[d].rv = 0 \/ view'[d].rv <= response'[d].rv
                      /\ response'[d].rv <= endpointsMap'[Target[d]].rv
                      /\ incarnation' = 0 => view'[d].rv <= response'[d].rv
    <3>1. CASE d = c
      BY <3>1, <1>0, <1>1, <1>8, <2>2, <2>3, <2>5, <2>6 DEF vars, s
    <3>2. CASE d # c
      BY <3>2, <2>1, <1>1, <1>8, TargetAssumption
         DEF vars, MeshInv, NothingOlder, NotOlder
    <3> QED
      BY <3>1, <3>2
  <2> QED
    BY <2>7 DEF NothingOlder, NotOlder
<1> QED
  BY <1>1, <1>6, <1>7, <1>9, <1>10 DEF MeshInv, vars

-----------------------------------------------------------------------------
(* The theorems.                                                           *)

\* The initial states.
LEMMA InitEstablishes == MeshInit => MeshInv /\ Mapped!Init
<1> SUFFICES ASSUME MeshInit
             PROVE  MeshInv /\ Mapped!Init
  OBVIOUS
<1> USE DEF MeshInit, Init
<1>1. \A s \in Tracked : /\ objects[s] = Absent
                         /\ store[s] = Absent
                         /\ endpointsMap[s] = ActiveIPs(Absent)
                         /\ Pending(s) = {}
  BY NameAssumption DEF Pending
<1>2. \A s \in Tracked : Underway(s) = {NoView}
  BY <1>1, AbsentState DEF Underway
<1>3. NoView \in View /\ NoView.rv = 0 /\ NoResponse \in Response
  BY DEF NoView, View, NoResponse, Response
<1>4. MeshTypeOK
  BY <1>3 DEF MeshTypeOK
<1>5. revision <= MaxRevision
  BY BoundAssumption
<1>6. Recorded
  BY <1>1, <1>2, <1>3, AbsentType DEF Recorded
<1>7. NothingOlder
  BY <1>1, <1>2, <1>3, AbsentType, EntryType, TargetAssumption
     DEF NothingOlder, NotOlder
<1>8. Mapped!Init
  BY DEF Mapped!Init, Mapped!Unknown, NoView
<1> QED
  BY <1>4, <1>5, <1>6, <1>7, <1>8 DEF MeshInv

\* Every step preserves the invariant, and is a step of the directory or
\* none.
LEMMA MeshStep ==
    Inv /\ Inv' /\ MeshInv /\ [MeshNext]_meshVars
        => MeshInv' /\ [Mapped!Next]_(Mapped!vars)
<1> SUFFICES ASSUME Inv, Inv', MeshInv, [MeshNext]_meshVars
             PROVE  MeshInv' /\ (Mapped!Next \/ UNCHANGED Mapped!vars)
  OBVIOUS
<1>t. /\ revision \in Nat
      /\ \A n \in Name : objects[n] \in Endpoints
  BY DEF Inv, TypeOK
<1>1. ASSUME NEW n \in Name, CreateEndpoints(n) \/ UpdateEndpoints(n), Record
      PROVE  MeshInv' /\ (Mapped!Next \/ UNCHANGED Mapped!vars)
  <2>1. PICK ips \in SUBSET IP :
            Write(n, [alive |-> TRUE, rv |-> revision + 1, ips |-> ips])
    BY <1>1 DEF CreateEndpoints, UpdateEndpoints
  <2>2. [alive |-> TRUE, rv |-> revision + 1, ips |-> ips] \in Endpoints
    BY <1>t DEF Endpoints
  <2> QED
    BY <2>1, <2>2, <1>1, WriteRecords
<1>2. ASSUME NEW n \in Name, DeleteEndpoints(n), Record
      PROVE  MeshInv' /\ (Mapped!Next \/ UNCHANGED Mapped!vars)
  <2> DEFINE ep == [objects[n] EXCEPT !.alive = FALSE, !.rv = revision + 1]
  <2>1. ep \in Endpoints /\ ep.rv = revision + 1
    <3>1. objects[n] \in [alive: BOOLEAN, rv: Nat, ips: SUBSET IP]
      BY <1>t DEF Endpoints
    <3>2. revision + 1 \in Nat
      BY <1>t
    <3> QED
      BY <3>1, <3>2 DEF Endpoints
  <2>2. Write(n, ep)
    BY <1>2 DEF DeleteEndpoints
  <2> HIDE DEF ep
  <2> QED
    BY <2>1, <2>2, <1>2, WriteRecords
<1>3. ASSUME NEW n \in Name, Observe(n) \/ Resync(n), UNCHANGED <<clients, written>>
      PROVE  MeshInv' /\ UNCHANGED Mapped!vars
  <2>1. MeshInv'
    BY <1>3, InformerPreserves
  <2> QED
    BY <2>1, <1>3 DEF Observe, Resync, clients, Mapped!vars
<1>4. CASE HandleAndPush
  <2>1. MeshInv'
    BY <1>4, PushPreserves
  <2> QED
    BY <2>1, <1>4 DEF HandleAndPush, HandleNotification, SetSnapshot, Mapped!vars
<1>5. CASE Die /\ BreakAll
  <2>1. MeshInv'
    BY <1>5, DeathPreserves
  <2> QED
    BY <2>1, <1>5 DEF Die, BreakAll, Mapped!vars
<1>6. CASE Restart /\ UNCHANGED <<clients, written>>
  <2>1. MeshInv'
    BY <1>6, RestartPreserves
  <2>2. (incarnation > 0)' = TRUE
    BY <1>6 DEF Restart, Inv, TypeOK
  <2>3. Mapped!Forget
    BY <2>2, <1>6 DEF Mapped!Forget, clients
  <2> QED
    BY <2>1, <2>3 DEF Mapped!Next
<1>7. ASSUME NEW c \in Client, Connect(c) \/ CreateWatch(c) \/ Break(c)
      PROVE  MeshInv' /\ UNCHANGED Mapped!vars
  <2>1. MeshInv'
    BY <1>7, StreamPreserves
  <2> QED
    BY <2>1, <1>7 DEF Connect, CreateWatch, Break, vars, Mapped!vars
<1>8. ASSUME NEW c \in Client, Receive(c)
      PROVE  MeshInv' /\ Mapped!Next
  BY <1>8, ReceiveLearns
<1>9. CASE UNCHANGED meshVars
  <2>1. UNCHANGED vars /\ UNCHANGED <<stream, accepted, known, response, view, written>>
    BY <1>9 DEF meshVars, clients, streams
  <2>2. \A s \in Tracked : Underway(s)' = Underway(s)
    BY <2>1 DEF vars, Underway, Pending
  <2>3. MeshTypeOK' /\ Recorded'
    BY <2>1, <2>2 DEF vars, MeshInv, MeshTypeOK, Recorded, ResponseState
  <2>4. NothingOlder'
    BY <2>1, <2>2, TargetAssumption DEF vars, MeshInv, NothingOlder, NotOlder
  <2> QED
    BY <2>1, <2>3, <2>4 DEF vars, MeshInv, Mapped!vars
<1> QED
  BY <1>1, <1>2, <1>3, <1>4, <1>5, <1>6, <1>7, <1>8, <1>9
     DEF MeshNext, PanicOnTombstone, Crash

\* The invariant of the mesh holds in every reachable state.
THEOREM MeshInvariance == MeshSpec => []MeshInv
<1> QED
  BY InitEstablishes, MeshStep, MeshKeepsInv, PTL DEF MeshSpec

\* The variables of the mesh keep their types.
THEOREM MeshTypeCorrect == MeshSpec => []MeshTypeOK
<1>1. MeshInv => MeshTypeOK
  BY DEF MeshInv
<1> QED
  BY <1>1, MeshInvariance, PTL

\* The mesh implements the directory: clients route to former states of
\* their services, in order, and lose a route to restarts alone.
THEOREM MeshImplementsDirectory == MeshSpec => ImplementsDirectory
<1> QED
  BY InitEstablishes, MeshStep, MeshKeepsInv, MeshInvariance, PTL
     DEF MeshSpec, ImplementsDirectory, Mapped!Spec
=============================================================================
