-------------------------- MODULE HashPicker_proofs --------------------------
(***************************************************************************)
(* That no client of HashPicker ever indexes past its picker's             *)
(* connections, for any connections, users, hashes and RPCs: neither the   *)
(* hashed index of 21 nor the turn of 09, however the connections come and *)
(* go between an RPC's loading a picker and its pick.                      *)
(***************************************************************************)
EXTENDS HashPicker, FiniteSetTheorems, SequenceTheorems, TLAPS

\* The pickers there may be.
Orders == UNION { SetToSeqs(scs) : scs \in SUBSET SubConn }

\* A picker lists at most the servers' connections, each of them ready once.
LEMMA OrderType ==
    ASSUME NEW conns \in Orders
    PROVE  /\ conns \in Seq(SubConn)
           /\ Len(conns) \in 0..Cardinality(SubConn)
           /\ ToSet(conns) \subseteq SubConn
<1>1. PICK scs \in SUBSET SubConn : conns \in SetToSeqs(scs)
  BY DEF Orders
<1>2. IsFiniteSet(scs) /\ Cardinality(scs) <= Cardinality(SubConn)
  BY FS_Subset, HashPickerAssumption
<1>3. Cardinality(scs) \in Nat /\ Cardinality(SubConn) \in Nat
  BY <1>2, FS_CardinalityType, HashPickerAssumption
<1>4. conns \in [1..Cardinality(scs) -> SubConn]
  BY <1>1 DEF SetToSeqs
<1>5. conns \in Seq(SubConn) /\ Len(conns) = Cardinality(scs)
  BY <1>3, <1>4, IsASeq, LenProperties
<1>6. ToSet(conns) \subseteq SubConn
  BY <1>4 DEF ToSet
<1> QED
  BY <1>2, <1>3, <1>5, <1>6

\* A picker that is not the error picker has a connection.
LEMMA SomeConnection ==
    ASSUME NEW conns \in Orders, conns # <<>>
    PROVE  Len(conns) \in 1..Cardinality(SubConn)
<1>1. conns \in Seq(SubConn) /\ Len(conns) \in 0..Cardinality(SubConn)
  BY OrderType
<1>2. Len(conns) # 0
  BY <1>1, EmptySeq
<1>3. Cardinality(SubConn) \in Nat
  BY FS_CardinalityType, HashPickerAssumption
<1> QED
  BY <1>1, <1>2, <1>3

\* The error picker is the picker of no connection.
LEMMA ErrorPicker == <<>> \in Orders
<1>1. Cardinality({}) = 0
  BY FS_EmptySet
<1>2. <<>> \in [1..0 -> {}]
  BY EmptySeq
<1>3. <<>> \in SetToSeqs({})
  BY <1>1, <1>2 DEF SetToSeqs
<1> QED
  BY <1>3 DEF Orders

\* A hash modulo the number of connections is one of their indices.
LEMMA IndexInBounds ==
    ASSUME NEW conns \in Orders, conns # <<>>, NEW u \in User
    PROVE  Index(u, conns) \in 1..Len(conns)
<1>1. Len(conns) \in Nat \ {0}
  BY SomeConnection, FS_CardinalityType, HashPickerAssumption
<1>2. Hash[u] \in Nat
  BY HashPickerAssumption
<1>3. Hash[u] % Len(conns) \in 0..(Len(conns) - 1)
  BY <1>1, <1>2
<1> QED
  BY <1>1, <1>3 DEF Index

\* So is the next turn.
LEMMA TurnInBounds ==
    ASSUME NEW conns \in Orders, conns # <<>>, NEW t \in Nat
    PROVE  1 + (t % Len(conns)) \in 1..Len(conns)
<1>1. Len(conns) \in Nat \ {0}
  BY SomeConnection, FS_CardinalityType, HashPickerAssumption
<1>2. t % Len(conns) \in 0..(Len(conns) - 1)
  BY <1>1
<1> QED
  BY <1>1, <1>2

\* What is inductive: the typing alone, from which the indices follow.
Typing ==
    /\ program \in {"l21", "l09"}
    /\ addresses \in {{}, SubConn}
    /\ ready \subseteq addresses
    /\ next \in 1..Cardinality(SubConn)
    /\ picker # <<>> => next <= Len(picker)
    /\ picker \in Orders
    /\ user \in [Rpc -> User \cup {NoUser, None}]
    /\ loaded \in [Rpc -> Orders]
    /\ picked \in [Rpc -> SubConn \cup {None}]
    /\ served \in [User -> (SUBSET SubConn) \X (SubConn \cup {None})]

LEMMA TypingSuffices == Typing => TypeOK
BY IndexInBounds DEF Typing, TypeOK, Orders

\* The initial state.
LEMMA InitTyping == Init => Typing
<1>1. 1 \in 1..Cardinality(SubConn)
  <2>1. Cardinality(SubConn) \in Nat /\ Cardinality(SubConn) # 0
    BY FS_CardinalityType, FS_EmptySet, HashPickerAssumption
  <2> QED
    BY <2>1
<1> QED
  BY <1>1, ErrorPicker DEF Init, Typing

\* A new picker starts with one of its connections' turns.
LEMMA BuildTyping ==
    ASSUME Typing, Build
    PROVE  Typing'
<1>1. /\ picker' \in SetToSeqs(ready)
      /\ next' = 1 \/ (picker' # <<>> /\ next' \in 1..Len(picker'))
      /\ UNCHANGED <<program, addresses, ready, user, loaded, picked, served>>
  BY DEF Build, Pickers
<1>2. picker' \in Orders
  BY <1>1 DEF Typing, Orders
<1>3. /\ next' \in 1..Cardinality(SubConn)
      /\ picker' # <<>> => next' <= Len(picker')
  <2>1. CASE picker' = <<>>
    <3>1. next' = 1
      BY <1>1, <2>1
    <3> QED
      BY <2>1, <3>1, FS_CardinalityType, HashPickerAssumption DEF Typing
  <2>2. CASE picker' # <<>>
    <3>1. Len(picker') \in 1..Cardinality(SubConn)
      BY <1>2, <2>2, SomeConnection
    <3>2. next' \in 1..Len(picker')
      BY <1>1, <3>1
    <3>3. Cardinality(SubConn) \in Nat
      BY FS_CardinalityType, HashPickerAssumption
    <3> QED
      BY <3>1, <3>2, <3>3
  <2> QED
    BY <2>1, <2>2
<1> QED
  BY <1>1, <1>2, <1>3 DEF Typing

\* An RPC is given a ready connection, and the turn goes round its picker.
LEMMA TakeTyping ==
    ASSUME Typing, NEW r \in Rpc, Take(r)
    PROVE  Typing'
<1>1. /\ loaded[r] # <<>>
      /\ UNCHANGED <<program, addresses, ready, picker, user, loaded>>
      /\ \/ next' = 1 + (next % Len(picker)) /\ loaded[r] = picker
         \/ next' = next
  BY DEF Take, Turn
<1>2. loaded[r] \in Orders
  BY DEF Typing
<1>3. PICK sc \in ready :
          /\ picked' = [picked EXCEPT ![r] = sc]
          /\ served' = IF user[r] = NoUser THEN served
                       ELSE [served EXCEPT ![user[r]] = <<ToSet(loaded[r]), sc>>]
  BY DEF Take
<1>4. sc \in SubConn /\ ToSet(loaded[r]) \subseteq SubConn
  BY <1>2, OrderType DEF Typing
<1>5. picked' \in [Rpc -> SubConn \cup {None}]
  BY <1>3, <1>4 DEF Typing
<1>6. served' \in [User -> (SUBSET SubConn) \X (SubConn \cup {None})]
  <2>1. <<ToSet(loaded[r]), sc>> \in (SUBSET SubConn) \X (SubConn \cup {None})
    BY <1>4
  <2> QED
    BY <1>3, <2>1 DEF Typing
<1>7. /\ next' \in 1..Cardinality(SubConn)
      /\ picker # <<>> => next' <= Len(picker)
  <2>1. CASE next' = next
    BY <2>1 DEF Typing
  <2>2. CASE next' = 1 + (next % Len(picker)) /\ loaded[r] = picker
    <3>1. next' \in 1..Len(picker)
      BY <2>2, <1>1, <1>2, TurnInBounds DEF Typing
    <3>2. Len(picker) \in 1..Cardinality(SubConn) /\ Cardinality(SubConn) \in Nat
      BY <2>2, <1>1, <1>2, SomeConnection, FS_CardinalityType,
         HashPickerAssumption
    <3> QED
      BY <3>1, <3>2
  <2> QED
    BY <1>1, <2>1, <2>2
<1> QED
  BY <1>1, <1>5, <1>6, <1>7 DEF Typing

LEMMA StepTyping ==
    ASSUME Typing, [Next]_vars
    PROVE  Typing'
<1> USE DEF Typing
<1>1. CASE UNCHANGED vars
  BY <1>1 DEF vars
<1>2. CASE Resolve
  BY <1>2 DEF Resolve
<1>3. ASSUME NEW s \in SubConn, Start(s) \/ Lose(s) PROVE Typing'
  BY <1>3 DEF Start, Lose
<1>4. CASE Build
  BY <1>4, BuildTyping
<1>5. ASSUME NEW r \in Rpc, Call(r) \/ Ping(r) PROVE Typing'
  BY <1>5 DEF Call, Ping
<1>6. ASSUME NEW r \in Rpc, Load(r) PROVE Typing'
  BY <1>6 DEF Load
<1>7. ASSUME NEW r \in Rpc, Take(r) PROVE Typing'
  BY <1>7, TakeTyping
<1>8. ASSUME NEW r \in Rpc, Return(r) \/ Fail(r) \/ Deadline(r)
       PROVE  Typing'
  BY <1>8, ErrorPicker DEF Return, Fail, Deadline, End
<1> QED
  BY <1>1, <1>2, <1>3, <1>4, <1>5, <1>6, <1>7, <1>8 DEF Next

\* In every state each index a client computes is one of its picker's: the
\* hashed one of every RPC that has loaded a picker, and the turn.
THEOREM TypeCorrect == Spec => []TypeOK
<1>1. Spec => []Typing
  BY InitTyping, StepTyping, PTL DEF Spec
<1> QED
  BY <1>1, TypingSuffices, PTL
=============================================================================
