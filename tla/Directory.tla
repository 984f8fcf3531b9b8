------------------------------ MODULE Directory ------------------------------
(***************************************************************************)
(* What the mesh of 99-production-ready-cluster promises to a gRPC client: *)
(* a directory that is read late but in order. A client routes to what its *)
(* service's Endpoints were at some moment, and never to anything older    *)
(* than what it has routed to before. A directory that has lost its memory *)
(* may take a client's route away, but gives it no older one instead.      *)
(***************************************************************************)
EXTENDS Integers

CONSTANTS
    Service,    \* What is looked up.
    Client,     \* Who looks it up.
    Target,     \* The service each client looks up.
    Version,    \* Orders the states of a service; 0 is before any.
    Route       \* The sets of addresses a service may have.

VARIABLES
    published,  \* The states each service has been in.
    view,       \* The state each client routes by.
    lost        \* The directory has lost its memory.

vars == <<published, view, lost>>

State == [rv: Version, route: Route]
Unknown == [rv |-> 0, route |-> {}]

\* A service changes, which makes everything known of it outdated.
Publish(s) ==
    /\ \E new \in State :
           /\ \A old \in published[s] : old.rv < new.rv
           /\ published' = [published EXCEPT ![s] = @ \cup {new}]
    /\ UNCHANGED <<view, lost>>

\* A client learns of a state at least as new as the one it knows.
Learn(c) ==
    /\ \E new \in published[Target[c]] :
           /\ view[c].rv <= new.rv
           /\ view' = [view EXCEPT ![c] = new]
    /\ UNCHANGED <<published, lost>>

Forget ==
    /\ lost' = TRUE
    /\ UNCHANGED <<published, view>>

\* The directory does not know the client's service any more.
LoseRoute(c) ==
    /\ lost
    /\ view' = [view EXCEPT ![c].route = {}]
    /\ UNCHANGED <<published, lost>>

Init ==
    /\ published = [s \in Service |-> {Unknown}]
    /\ view = [c \in Client |-> Unknown]
    /\ lost = FALSE

Next ==
    \/ \E s \in Service : Publish(s)
    \/ \E c \in Client : Learn(c)
    \/ Forget
    \/ \E c \in Client : LoseRoute(c)

Spec == Init /\ [][Next]_vars
=============================================================================
