----------------------------- MODULE HashPicker -----------------------------
(***************************************************************************)
(* The clients that balance their RPCs: 21-custom-lb with the balancer     *)
(* "consistent_hash" of its own, 09-load-balancing with "round_robin".     *)
(* gRPC has a picker built of the ready SubConns after that set has        *)
(* changed and whenever the resolver reports; an RPC picks with the picker *)
(* it loaded, and waits for another one if the SubConn it is given is not  *)
(* ready any more.                                                         *)
(***************************************************************************)
EXTENDS Integers, Sequences, FiniteSets, SequencesExt

CONSTANTS
    SubConn,    \* The servers' connections.
    User,       \* Values of the user_id metadata.
    NoUser,     \* An RPC without user_id.
    Hash,       \* crc32.ChecksumIEEE of each user_id.
    Rpc,        \* RPCs under way at the same time.
    None        \* No SubConn.

ASSUME HashPickerAssumption ==
    /\ SubConn # {} /\ IsFiniteSet(SubConn)
    /\ None \notin SubConn
    /\ NoUser \notin User
    /\ Hash \in [User -> Nat]

VARIABLES
    program,    \* Whose client it is, "l21" or "l09".
    addresses,  \* What the resolver has reported.
    ready,      \* The SubConns that are ready.
    picker,     \* The current picker's subConns; <<>> is the error picker.
    next,       \* Whose turn it is among them, for round_robin.
    user,       \* An RPC's user_id, None when it is not under way.
    loaded,     \* The picker it loaded, <<>> while it waits for one.
    picked,     \* The SubConn it was given.
    served      \* The connections and the choice of a user's last RPC.

vars == <<program, addresses, ready, picker, next, user, loaded, picked, served>>

-----------------------------------------------------------------------------
\* Mutant of Pickers: a new picker keeps the connections it had, if any.
PickersOfOld(scs) ==
    SetToSeqs(IF picker = <<>> THEN scs ELSE ToSet(picker))

\* The pickers Build may return for the ready connections: ranging over a
\* map visits them in any order.
Pickers(scs) == SetToSeqs(scs)

\* Mutant of Index: one connection too many.
IndexPast(u, conns) == 1 + (Hash[u] % (Len(conns) + 1))

\* hash % uint32(len(p.subConns)), counted from 1.
Index(u, conns) == 1 + (Hash[u] % Len(conns))

\* Mutant of Policy: 09's service config is left out, and gRPC falls back to
\* "pick_first (which only sends traffic to Server-A)".
PolicyOmitted == [l21 |-> "consistent_hash", l09 |-> "pick_first"]

\* The service configs of the two clients.
Policy == [l21 |-> "consistent_hash", l09 |-> "round_robin"]

\* Pick of 21: the first connection without user_id, else the hashed one.
Pick(u, conns) ==
    IF u = NoUser THEN conns[1] ELSE conns[Index(u, conns)]

\* An RPC's connection. It counts the current picker's turns; the count of a
\* picker that was replaced is its own, and may stand anywhere.
Choice(r) ==
    CASE Policy[program] = "consistent_hash" -> {Pick(user[r], loaded[r])}
      [] Policy[program] = "pick_first" -> {loaded[r][1]}
      [] OTHER -> IF loaded[r] = picker THEN {picker[next]} ELSE ToSet(loaded[r])

Turn(r) ==
    next' = IF Policy[program] = "round_robin" /\ loaded[r] = picker
            THEN 1 + (next % Len(picker)) ELSE next

-----------------------------------------------------------------------------
\* The resolver reports the servers' addresses, once: it knows no others, and
\* ResolveNow does nothing.
Resolve ==
    /\ addresses = {}
    /\ addresses' = SubConn
    /\ UNCHANGED <<program, ready, picker, next, user, loaded, picked, served>>

\* A server listens, and the connection to it becomes ready.
Start(s) ==
    /\ s \in addresses \ ready
    /\ ready' = ready \cup {s}
    /\ UNCHANGED <<program, addresses, picker, next, user, loaded, picked, served>>

\* A server or the connection to it is lost.
Lose(s) ==
    /\ s \in ready
    /\ ready' = ready \ {s}
    /\ UNCHANGED <<program, addresses, picker, next, user, loaded, picked, served>>

\* The base balancer has a new picker built and publishes it. The first turn
\* of round_robin is drawn.
Build ==
    /\ picker' \in Pickers(ready)
    /\ IF Policy[program] = "round_robin" /\ picker' # <<>>
       THEN next' \in 1..Len(picker') ELSE next' = 1
    /\ UNCHANGED <<program, addresses, ready, user, loaded, picked, served>>

\* main() of 21 calls GetUser, with user_id or without.
Call(r) ==
    /\ program = "l21"
    /\ user[r] = None
    /\ \E u \in User \cup {NoUser} : user' = [user EXCEPT ![r] = u]
    /\ UNCHANGED <<program, addresses, ready, picker, next, loaded, picked, served>>

\* main() of 09 calls Ping.
Ping(r) ==
    /\ program = "l09"
    /\ user[r] = None
    /\ user' = [user EXCEPT ![r] = NoUser]
    /\ UNCHANGED <<program, addresses, ready, picker, next, loaded, picked, served>>

Load(r) ==
    /\ user[r] # None
    /\ picked[r] = None
    /\ loaded[r] # picker
    /\ loaded' = [loaded EXCEPT ![r] = picker]
    /\ UNCHANGED <<program, addresses, ready, picker, next, user, picked, served>>

\* A picker of no connection and a lost connection leave the RPC waiting.
Take(r) ==
    /\ picked[r] = None
    /\ loaded[r] # <<>>
    /\ \E sc \in Choice(r) \cap ready :
           /\ picked' = [picked EXCEPT ![r] = sc]
           /\ served' = IF user[r] = NoUser THEN served
                        ELSE [served EXCEPT ![user[r]] = <<ToSet(loaded[r]), sc>>]
    /\ Turn(r)
    /\ UNCHANGED <<program, addresses, ready, picker, user, loaded>>

\* The RPC is over.
End(r) ==
    /\ user' = [user EXCEPT ![r] = None]
    /\ loaded' = [loaded EXCEPT ![r] = <<>>]
    /\ picked' = [picked EXCEPT ![r] = None]
    /\ UNCHANGED <<program, addresses, ready, picker, next, served>>

\* The server answers.
Return(r) == picked[r] # None /\ End(r)

\* The connections failed and none is ready: the base balancer's own error
\* picker fails an RPC with UNAVAILABLE.
Fail(r) ==
    /\ addresses # {}
    /\ picker = <<>>
    /\ user[r] # None
    /\ loaded[r] = <<>>
    /\ End(r)

\* 09 waits a second at most.
Deadline(r) == program = "l09" /\ user[r] # None /\ End(r)

-----------------------------------------------------------------------------
Init ==
    /\ program \in {"l21", "l09"}
    /\ addresses = {}
    /\ ready = {}
    /\ picker = <<>>
    /\ next = 1
    /\ user = [r \in Rpc |-> None]
    /\ loaded = [r \in Rpc |-> <<>>]
    /\ picked = [r \in Rpc |-> None]
    /\ served = [u \in User |-> <<{}, None>>]

Next ==
    \/ Resolve
    \/ \E s \in SubConn : Start(s)
    \/ \E s \in SubConn : Lose(s)
    \/ Build
    \/ \E r \in Rpc : Call(r)
    \/ \E r \in Rpc : Load(r)
    \/ \E r \in Rpc : Take(r)
    \/ \E r \in Rpc : Ping(r)
    \/ \E r \in Rpc : Return(r)
    \/ \E r \in Rpc : Fail(r)
    \/ \E r \in Rpc : Deadline(r)

Spec == Init /\ [][Next]_vars

\* The balancer follows the connections, and an RPC that waits tries the
\* picker there is.
FairSpec ==
    /\ Spec
    /\ WF_vars(ToSet(picker) # ready /\ Build)
    /\ \A r \in Rpc : WF_vars(Load(r)) /\ WF_vars(Take(r))

-----------------------------------------------------------------------------
(* Properties.                                                             *)

\* Type invariant. The index of every RPC that has a picker is one of its
\* connections, however many are left.
TypeOK ==
    /\ program \in {"l21", "l09"}
    /\ addresses \in {{}, SubConn}
    /\ ready \subseteq addresses
    /\ next \in 1..Cardinality(SubConn)
    /\ picker # <<>> => next <= Len(picker)
    /\ picker \in UNION { SetToSeqs(scs) : scs \in SUBSET SubConn }
    /\ user \in [Rpc -> User \cup {NoUser, None}]
    /\ loaded \in [Rpc -> UNION { SetToSeqs(scs) : scs \in SUBSET SubConn }]
    /\ picked \in [Rpc -> SubConn \cup {None}]
    /\ served \in [User -> (SUBSET SubConn) \X (SubConn \cup {None})]
    /\ \A r \in Rpc :
           loaded[r] # <<>> /\ user[r] \in User =>
               Index(user[r], loaded[r]) \in 1..Len(loaded[r])

\* "Our modulo logic will seamlessly recalculate and route traffic to the
\* remaining servers": once the connections no longer change and some are
\* ready, every RPC is given one of them, if its picker was stale as well,
\* unless it is over before: failed while none was ready, or out of time.
Rerouted ==
    \A scs \in (SUBSET SubConn) \ {{}} :
        <>[](ready = scs) =>
            \A r \in Rpc : user[r] # None ~> picked[r] # None \/ user[r] = None

\* "You should see the requests being distributed evenly", README of 09: once
\* connections and picker stay the same, a client that is served again and
\* again is served by every ready server again and again, wherever the turn
\* stood when the picker was built and whichever calls ran out of time.
Distributed ==
    \A s \in SubConn :
        (/\ program = "l09"
         /\ <>[](s \in ready /\ ToSet(picker) = ready)
         /\ <>[][~Build]_vars
         /\ []<>(\E r \in Rpc : picked[r] # None)
         /\ []<>(\A r \in Rpc : picked[r] = None))
            => []<>(\E r \in Rpc : picked[r] = s)

\* What the README of 21 says: the picker will "consistently route that
\* specific user to the exact same server every time". Two RPCs of a user
\* that chose among the same connections.
SameServer ==
    [][\A u \in User :
           served'[u][1] = served[u][1] => served'[u][2] = served[u][2]]_vars
=============================================================================
