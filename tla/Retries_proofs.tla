--------------------------- MODULE Retries_proofs ---------------------------
(***************************************************************************)
(* That retries hide the server's failures and repeat no update but for a  *)
(* broken connection, for any number of clients, any retry policy and any  *)
(* server that fails its first requests. The argument is a count: every    *)
(* attempt that was followed by another is one of the server's failures or *)
(* one broken connection.                                                  *)
(***************************************************************************)
EXTENDS Retries, FiniteSetTheorems, TLAPS

Conditions(c) == FailuresBounded(c) /\ Progress(c) /\ Accounted(c)

-----------------------------------------------------------------------------
(* Sets of attempts.                                                       *)

\* A set of a call's attempts is finite, and not larger than the policy's
\* maximum.
LEMMA AttemptsAreFinite ==
    ASSUME NEW S, S \subseteq Attempt
    PROVE  /\ IsFiniteSet(S)
           /\ Cardinality(S) \in 0..MaxAttempts
<1>1. IsFiniteSet(Attempt) /\ Cardinality(Attempt) = MaxAttempts
  BY FS_Interval, RetryAssumption DEF Attempt
<1>2. IsFiniteSet(S) /\ Cardinality(S) <= MaxAttempts
  BY <1>1, FS_Subset
<1>3. Cardinality(S) \in Nat
  BY <1>2, FS_CardinalityType
<1> QED
  BY <1>2, <1>3, RetryAssumption

\* Removing an attempt from a set of them makes it smaller by one at most.
LEMMA OneAttempt ==
    ASSUME NEW S, S \subseteq Attempt, NEW k
    PROVE  /\ Cardinality(S \ {k}) <= Cardinality(S)
           /\ k \in S => Cardinality(S) = 1 + Cardinality(S \ {k})
           /\ Cardinality(S \cup {k}) <= 1 + Cardinality(S)
           /\ k \in S => S \cup {k} = S
<1>1. IsFiniteSet(S) /\ Cardinality(S) \in Nat
  BY AttemptsAreFinite, RetryAssumption
<1>2. Cardinality(S \ {k}) = IF k \in S THEN Cardinality(S) - 1 ELSE Cardinality(S)
  BY <1>1, FS_RemoveElement
<1>3. Cardinality(S \cup {k}) = IF k \in S THEN Cardinality(S) ELSE Cardinality(S) + 1
  BY <1>1, FS_AddElement
<1> QED
  BY <1>1, <1>2, <1>3

\* Fewer attempts than another set of them has.
LEMMA FewerAttempts ==
    ASSUME NEW S, NEW T, S \subseteq T, T \subseteq Attempt
    PROVE  Cardinality(S) <= Cardinality(T)
<1>1. IsFiniteSet(T)
  BY AttemptsAreFinite
<1> QED
  BY <1>1, FS_Subset

\* The counts of a call's failures are numbers.
LEMMA CountsAreNumbers ==
    ASSUME NEW c \in Call
    PROVE  /\ Failed(c) \subseteq Attempt
           /\ Failing(c) \subseteq Attempt
           /\ Cardinality(Failed(c)) \in Nat
           /\ Cardinality(Failing(c)) \in Nat
           /\ Cardinality(Failed(c) \ {attempts[c]}) \in Nat
           /\ Cardinality(Failed(c) \ {attempts[c]}) <= Cardinality(Failed(c))
<1>1. /\ Failed(c) \subseteq Attempt
      /\ Failing(c) \subseteq Attempt
      /\ Failed(c) \ {attempts[c]} \subseteq Attempt
  BY DEF Failed, Failing
<1>2. \A n \in 0..MaxAttempts : n \in Nat
  BY RetryAssumption
<1> QED
  BY <1>1, <1>2, AttemptsAreFinite, OneAttempt

-----------------------------------------------------------------------------
(* Steps that leave a call alone.                                          *)

\* A call whose own state is left alone keeps its conditions, however far the
\* server's counter goes for others.
LEMMA OthersKeep ==
    ASSUME TypeOK, NEW d \in Call, Conditions(d),
           UNCHANGED <<client[d], get[d], attempts[d], rpc[d], cuts[d]>>,
           updateAttempt' \in Nat, updateAttempt <= updateAttempt'
    PROVE  Conditions(d)'
<1>1. Failed(d)' = Failed(d) /\ Failing(d)' = Failing(d)
  BY DEF Failed, Failing
<1>2. FailuresBounded(d)'
  <2>1. Cardinality(Failing(d)) \in Nat /\ updateAttempt \in Nat
    BY CountsAreNumbers DEF TypeOK
  <2>2. Cardinality(Failing(d))' = Cardinality(Failing(d))
    BY <1>1
  <2> QED
    BY <2>1, <2>2 DEF Conditions, FailuresBounded
<1>3. Progress(d)'
  BY DEF Conditions, Progress, AnswerBroken
<1>4. Accounted(d)'
  BY <1>1 DEF Conditions, Accounted
<1> QED
  BY <1>2, <1>3, <1>4 DEF Conditions
\* What Inv says besides: of the first calls.
FirstCalls ==
    /\ getAttempt <= Cardinality(Begun)
    /\ \A c \in Call : get[c] = "slow" => getAttempt > 0

LEMMA InvParts == Inv <=> TypeOK /\ FirstCalls /\ \A c \in Call : Conditions(c)
  BY DEF Inv, FirstCalls, Conditions

\* A step that touches updates alone keeps the rest.
LEMMA FirstCallsKeep ==
    ASSUME FirstCalls, UNCHANGED <<get, getAttempt>>
    PROVE  FirstCalls'
<1>1. Begun' = Begun
  BY DEF Begun
<1> QED
  BY <1>1 DEF FirstCalls

-----------------------------------------------------------------------------
(* GetUser.                                                                *)

\* No step of a first call disturbs the updates.
LEMMA GetKeepsConditions ==
    ASSUME TypeOK, NEW c \in Call, NEW d \in Call, Conditions(d), UNCHANGED updates,
           GetUser(c) \/ ReceiveGet(c) \/ RespondGet(c) \/ DeliverGet(c) \/ FailGet(c)
    PROVE  Conditions(d)'
<1>1. UNCHANGED <<attempts, rpc, updateAttempt, cuts>>
  BY DEF updates
<1>2. Failed(d)' = Failed(d) /\ Failing(d)' = Failing(d)
  BY <1>1 DEF Failed, Failing
<1>3. FailuresBounded(d)'
  BY <1>1, <1>2 DEF Conditions, FailuresBounded
<1>4. \/ UNCHANGED client[d]
      \/ client[d] \in {"start", "getting"} /\ client'[d] \in {"getting", "between"}
  BY DEF GetUser, ReceiveGet, RespondGet, DeliverGet, FailGet, TypeOK
<1>5. client'[d] = "start" => get'[d] = "none"
  BY DEF GetUser, ReceiveGet, RespondGet, DeliverGet, FailGet, TypeOK, Conditions, Progress
<1>6. Progress(d)'
  BY <1>1, <1>4, <1>5 DEF Conditions, Progress, AnswerBroken
<1>7. Accounted(d)'
  BY <1>1, <1>2, <1>4 DEF Conditions, Accounted
<1> QED
  BY <1>3, <1>6, <1>7 DEF Conditions

\* The requests begun are calls.
LEMMA BegunIsFinite == IsFiniteSet(Begun) /\ Cardinality(Begun) \in Nat
                           /\ Cardinality(Begun) <= Cardinality(Call)
<1>1. Begun \subseteq Call /\ IsFiniteSet(Call)
  BY RetryAssumption DEF Begun
<1>2. IsFiniteSet(Begun) /\ Cardinality(Begun) <= Cardinality(Call)
  BY <1>1, FS_Subset
<1> QED
  BY <1>2, FS_CardinalityType

\* Another request is begun, and the counter has gone up by one at most.
LEMMA CounterKeepsUp ==
    ASSUME FirstCalls, getAttempt \in Nat, NEW c \in Call,
           \/ Begun' = Begun /\ getAttempt' = getAttempt
           \/ c \notin Begun /\ Begun' = Begun \cup {c}
                  /\ getAttempt' \in {getAttempt, getAttempt + 1}
    PROVE  /\ getAttempt' <= Cardinality(Begun')
           /\ getAttempt' \in 0..Cardinality(Call)
<1>1. Cardinality(Call) \in Nat
  BY FS_CardinalityType, RetryAssumption
<1>2. /\ Cardinality(Begun') \in Nat
      /\ Cardinality(Begun') <= Cardinality(Call)
  <2>1. Begun' \subseteq Call /\ IsFiniteSet(Call)
    BY RetryAssumption DEF Begun
  <2>2. IsFiniteSet(Begun') /\ Cardinality(Begun') <= Cardinality(Call)
    BY <2>1, FS_Subset
  <2> QED
    BY <2>2, FS_CardinalityType
<1>3. c \notin Begun => Cardinality(Begun \cup {c}) = Cardinality(Begun) + 1
  BY BegunIsFinite, FS_AddElement
<1>4. getAttempt' <= Cardinality(Begun')
  <2>1. getAttempt <= Cardinality(Begun) /\ Cardinality(Begun) \in Nat
    BY BegunIsFinite DEF FirstCalls
  <2>2. CASE Begun' = Begun /\ getAttempt' = getAttempt
    BY <2>1, <2>2
  <2>3. CASE /\ c \notin Begun /\ Begun' = Begun \cup {c}
             /\ getAttempt' \in {getAttempt, getAttempt + 1}
    <3>1. Cardinality(Begun') = Cardinality(Begun) + 1
      BY <1>3, <2>3
    <3> QED
      BY <2>1, <2>3, <3>1
  <2> QED
    BY <2>2, <2>3
<1>5. getAttempt' \in Nat
  OBVIOUS
<1> QED
  BY <1>1, <1>2, <1>4, <1>5

LEMMA GetPreserves ==
    ASSUME Inv, NEW c \in Call,
           GetUser(c) \/ ReceiveGet(c) \/ RespondGet(c) \/ DeliverGet(c) \/ FailGet(c)
    PROVE  Inv'
<1> USE InvParts
<1>1. getAttempt \in Nat
  <2>1. Cardinality(Call) \in Nat
    BY FS_CardinalityType, RetryAssumption
  <2> QED
    BY <2>1 DEF TypeOK
<1>2. UNCHANGED updates
  BY DEF GetUser, ReceiveGet, RespondGet, DeliverGet, FailGet
<1>3. \A d \in Call : Conditions(d)'
  BY <1>2, GetKeepsConditions
<1>4. \/ Begun' = Begun /\ getAttempt' = getAttempt
      \/ c \notin Begun /\ Begun' = Begun \cup {c}
             /\ getAttempt' \in {getAttempt, getAttempt + 1}
  <2>1. CASE GetUser(c)
    <3>1. get[c] = "none"
      BY <2>1 DEF GetUser, Conditions, Progress
    <3> QED
      BY <2>1, <3>1 DEF GetUser, Begun, TypeOK
  <2>2. CASE ReceiveGet(c)
    <3>1. get'[c] \in {"slow", "over"} /\ \A d \in Call \ {c} : get'[d] = get[d]
      BY <2>2 DEF ReceiveGet, TypeOK
    <3> QED
      BY <2>2, <3>1 DEF ReceiveGet, Begun
  <2>3. CASE RespondGet(c)
    BY <2>3 DEF RespondGet, Begun, TypeOK
  <2>4. CASE DeliverGet(c)
    BY <2>4 DEF DeliverGet, Begun
  <2>5. CASE FailGet(c)
    <3>1. CASE get[c] = "sent" /\ get' = [get EXCEPT ![c] = "over"]
      <4>1. get'[c] = "over" /\ \A d \in Call \ {c} : get'[d] = get[d]
        BY <3>1 DEF TypeOK
      <4> QED
        BY <2>5, <3>1, <4>1 DEF FailGet, Begun
    <3>2. CASE UNCHANGED get
      BY <2>5, <3>2 DEF FailGet, Begun
    <3> QED
      BY <2>5, <3>1, <3>2 DEF FailGet
  <2> QED
    BY <2>1, <2>2, <2>3, <2>4, <2>5
<1>5. getAttempt' <= Cardinality(Begun') /\ getAttempt' \in 0..Cardinality(Call)
  BY <1>1, <1>4, CounterKeepsUp
<1>6. \A d \in Call :
          get'[d] = "slow" =>
              /\ getAttempt' > 0
              /\ \/ get[d] = "slow"
                 \/ d = c /\ \A e \in Call : get[e] # "slow"
  <2>1. CASE ReceiveGet(c)
    <3>1. getAttempt' = getAttempt + 1
      BY <2>1 DEF ReceiveGet
    <3>2. \A d \in Call \ {c} : get'[d] = get[d]
      BY <2>1 DEF ReceiveGet, TypeOK
    <3>3. get'[c] = "slow" => getAttempt = 0
      BY <2>1, <1>1, <3>1 DEF ReceiveGet, TypeOK
    <3>4. getAttempt = 0 => \A e \in Call : get[e] # "slow"
      BY <1>1 DEF FirstCalls
    <3> QED
      BY <1>1, <3>1, <3>2, <3>3, <3>4
  <2>2. CASE ~ReceiveGet(c)
    <3>1. getAttempt' = getAttempt /\ \A d \in Call : get'[d] = "slow" => get[d] = "slow"
      BY <2>2 DEF GetUser, RespondGet, DeliverGet, FailGet, TypeOK
    <3> QED
      BY <3>1 DEF FirstCalls
  <2> QED
    BY <2>1, <2>2
<1>7. /\ client' \in [Call -> {"start", "getting", "between", "waiting",
                              "backoff"} \cup Final]
      /\ get' \in [Call -> {"none", "sent", "slow", "over"}]
  BY DEF GetUser, ReceiveGet, RespondGet, DeliverGet, FailGet, TypeOK
<1>8. \A d, e \in Call : get'[d] = "slow" /\ get'[e] = "slow" => d = e
  BY <1>6 DEF TypeOK
<1>9. TypeOK'
  BY <1>2, <1>5, <1>7, <1>8 DEF TypeOK, updates
<1>10. FirstCalls'
  BY <1>5, <1>6 DEF FirstCalls
<1> QED
  BY <1>3, <1>9, <1>10 DEF Inv, FirstCalls, Conditions
-----------------------------------------------------------------------------
(* UpdateUser.                                                             *)

\* A step of one call's update need be looked at for that call alone.
LEMMA OneCallChanges ==
    ASSUME Inv, NEW c \in Call, UNCHANGED <<get, getAttempt>>,
           \A d \in Call \ {c} :
               UNCHANGED <<client[d], attempts[d], rpc[d], cuts[d]>>,
           updateAttempt <= updateAttempt',
           TypeOK', Conditions(c)'
    PROVE  Inv'
<1>1. TypeOK /\ FirstCalls /\ \A d \in Call : Conditions(d)
  BY InvParts
<1>2. FirstCalls'
  BY <1>1, FirstCallsKeep
<1>3. ASSUME NEW d \in Call \ {c} PROVE Conditions(d)'
  <2>1. updateAttempt' \in Nat /\ UNCHANGED get[d]
    BY DEF TypeOK
  <2> QED
    BY <1>1, <2>1, OthersKeep
<1> QED
  BY <1>2, <1>3 DEF Inv, FirstCalls, Conditions

\* A new attempt is neither failed nor failing, and the one before it is
\* accounted for.
LEMMA TryPreserves ==
    ASSUME Inv, NEW c \in Call, UpdateUser(c) \/ Retry(c)
    PROVE  Inv'
<1> DEFINE a == attempts[c] + 1
<1>1. TypeOK /\ Conditions(c)
  BY InvParts
<1>2. Try(c) /\ client[c] \in {"between", "backoff"}
  BY DEF UpdateUser, Retry
<1>3. a \in Attempt /\ attempts[c] \in Nat
  <2>1. attempts[c] \in 0..MaxAttempts /\ attempts[c] < MaxAttempts
    BY <1>1, <1>2, RetryAssumption DEF TypeOK, Conditions, Progress
  <2> QED
    BY <2>1, RetryAssumption DEF Attempt
<1>4. rpc[c][a] = "none"
  BY <1>1, <1>3 DEF Conditions, Progress
<1>5. /\ client' = [client EXCEPT ![c] = "waiting"]
      /\ attempts' = [attempts EXCEPT ![c] = a]
      /\ rpc' = [rpc EXCEPT ![c] = [rpc[c] EXCEPT ![a] = "sent"]]
      /\ UNCHANGED <<get, getAttempt, updateAttempt, cuts>>
  BY <1>2 DEF Try
<1>6. TypeOK'
  BY <1>1, <1>3, <1>5 DEF TypeOK, Attempt
<1>7. /\ client'[c] = "waiting" /\ attempts'[c] = a /\ cuts'[c] = cuts[c]
      /\ \A k \in Attempt : rpc'[c][k] = IF k = a THEN "sent" ELSE rpc[c][k]
  BY <1>1, <1>5 DEF TypeOK
<1>8. Failed(c)' = Failed(c) /\ Failing(c)' = Failing(c) /\ a \notin Failed(c)
  BY <1>4, <1>7 DEF Failed, Failing
<1>9. Conditions(c)'
  <2>1. FailuresBounded(c)'
    BY <1>1, <1>5, <1>8 DEF Conditions, FailuresBounded
  <2>2. Progress(c)'
    BY <1>1, <1>3, <1>7 DEF Conditions, Progress, AnswerBroken, Attempt
  <2>3. Accounted(c)'
    <3>1. Failed(c) \ {a} = Failed(c)
      BY <1>8
    <3>2. Cardinality(Failed(c)) \in Nat /\ cuts[c] \in Nat
      BY <1>1, CountsAreNumbers DEF TypeOK
    <3>3. attempts[c] <= cuts[c] + Cardinality(Failed(c))
      BY <1>1, <1>2, <3>2 DEF Conditions, Progress, Accounted
    <3>4. a <= 1 + cuts[c] + Cardinality(Failed(c))
      BY <1>3, <3>2, <3>3
    <3> QED
      BY <1>7, <1>8, <3>1, <3>4 DEF Accounted
  <2> QED
    BY <2>1, <2>2, <2>3 DEF Conditions
<1>10. \A d \in Call \ {c} : UNCHANGED <<client[d], attempts[d], rpc[d], cuts[d]>>
  BY <1>1, <1>5 DEF TypeOK
<1>11. updateAttempt <= updateAttempt'
  BY <1>1, <1>5 DEF TypeOK
<1> QED
  BY <1>5, <1>6, <1>9, <1>10, <1>11, OneCallChanges

\* The call's attempts stay as they are when its client moves on, to OK, to
\* Deadline or, if the last attempt is accounted for, past Unavailable.
LEMMA MoveOnPreserves ==
    ASSUME Inv, NEW c \in Call,
           NEW next \in {"OK", "Deadline", "backoff", "Unavailable"},
           client' = [client EXCEPT ![c] = next],
           UNCHANGED <<get, getAttempt, updates>>,
           next = "OK" => attempts[c] > 0 /\ rpc[c][attempts[c]] = "OK",
           next = "backoff" => attempts[c] < MaxAttempts,
           next = "Unavailable" => attempts[c] = MaxAttempts,
           next \in {"backoff", "Unavailable"} =>
               attempts[c] <= cuts[c] + Cardinality(Failed(c))
    PROVE  Inv'
<1>1. TypeOK /\ Conditions(c)
  BY InvParts
<1>2. UNCHANGED <<attempts, rpc, updateAttempt, cuts>>
  BY DEF updates
<1>3. client'[c] = next /\ \A d \in Call \ {c} : client'[d] = client[d]
  BY <1>1 DEF TypeOK
<1>4. TypeOK'
  BY <1>1, <1>2 DEF TypeOK, Final
<1>5. Failed(c)' = Failed(c) /\ Failing(c)' = Failing(c)
  BY <1>2 DEF Failed, Failing
<1>6. FailuresBounded(c)'
  BY <1>1, <1>2, <1>5 DEF Conditions, FailuresBounded
<1>7. Progress(c)'
  BY <1>1, <1>2, <1>3 DEF Conditions, Progress, AnswerBroken
<1>8. Accounted(c)'
  BY <1>1, <1>2, <1>3, <1>5 DEF Conditions, Accounted
<1>9. Conditions(c)'
  BY <1>6, <1>7, <1>8 DEF Conditions
<1>10. updateAttempt <= updateAttempt'
  BY <1>1, <1>2 DEF TypeOK
<1> QED
  BY <1>2, <1>3, <1>4, <1>9, <1>10, OneCallChanges

\* An answer UNAVAILABLE is one of the server's failures.
LEMMA DeliverPreserves ==
    ASSUME Inv, NEW c \in Call, Deliver(c)
    PROVE  Inv'
<1>1. TypeOK /\ Conditions(c)
  BY InvParts
<1>2. client[c] = "waiting" /\ UNCHANGED <<get, getAttempt, updates>>
  BY DEF Deliver
<1>3. attempts[c] > 0 /\ attempts[c] \in Attempt
  <2>1. attempts[c] > 0 /\ attempts[c] \in 0..MaxAttempts
    BY <1>1, <1>2 DEF Conditions, Progress, TypeOK
  <2> QED
    BY <2>1, RetryAssumption DEF Attempt
<1>4. CASE rpc[c][attempts[c]] = "OK" /\ client' = [client EXCEPT ![c] = "OK"]
  BY <1>2, <1>3, <1>4, MoveOnPreserves
<1>5. CASE rpc[c][attempts[c]] = "Unavailable" /\ AfterUnavailable(c)
  <2>1. attempts[c] \in Failed(c)
    BY <1>3, <1>5 DEF Failed
  <2>2. /\ Cardinality(Failed(c)) = 1 + Cardinality(Failed(c) \ {attempts[c]})
        /\ Cardinality(Failed(c) \ {attempts[c]}) \in Nat
        /\ cuts[c] \in Nat
    BY <1>1, <2>1, CountsAreNumbers, OneAttempt DEF TypeOK
  <2>3. attempts[c] <= cuts[c] + Cardinality(Failed(c))
    <3>1. attempts[c] <= 1 + cuts[c] + Cardinality(Failed(c) \ {attempts[c]})
      BY <1>1, <1>2 DEF Conditions, Accounted
    <3> QED
      BY <1>3, <2>2, <3>1 DEF Attempt
  <2>4. CASE attempts[c] < MaxAttempts
    <3>1. client' = [client EXCEPT ![c] = "backoff"]
      BY <1>5, <2>4 DEF AfterUnavailable
    <3> QED
      BY <1>2, <2>3, <2>4, <3>1, MoveOnPreserves
  <2>5. CASE ~(attempts[c] < MaxAttempts)
    <3>1. client' = [client EXCEPT ![c] = "Unavailable"]
      BY <1>5, <2>5 DEF AfterUnavailable
    <3>2. attempts[c] = MaxAttempts
      BY <1>3, <2>5, RetryAssumption DEF Attempt
    <3> QED
      BY <1>2, <2>3, <3>1, <3>2, MoveOnPreserves
  <2> QED
    BY <2>4, <2>5
<1> QED
  BY <1>4, <1>5 DEF Deliver

LEMMA DeadlinePreserves ==
    ASSUME Inv, NEW c \in Call, Deadline(c)
    PROVE  Inv'
  BY MoveOnPreserves DEF Deadline
\* A broken connection accounts for the attempt it ended.
LEMMA CutPreserves ==
    ASSUME Inv, NEW c \in Call, Cut(c)
    PROVE  Inv'
<1>1. TypeOK /\ Conditions(c)
  BY InvParts
<1>2. /\ client[c] = "waiting"
      /\ cuts' = [cuts EXCEPT ![c] = cuts[c] + 1]
      /\ UNCHANGED <<get, getAttempt, attempts, updateAttempt>>
  BY DEF Cut
<1>3. attempts[c] > 0 /\ attempts[c] \in Attempt
  <2>1. attempts[c] > 0 /\ attempts[c] \in 0..MaxAttempts
    BY <1>1, <1>2 DEF Conditions, Progress, TypeOK
  <2> QED
    BY <2>1, RetryAssumption DEF Attempt
<1>4. /\ rpc' \in [Call -> [Attempt -> {"none", "sent", "lost", "rejecting",
                                        "applying", "Unavailable", "OK"}]]
      /\ \A d \in Call \ {c} : rpc'[d] = rpc[d]
      /\ \A k \in Attempt :
             \/ rpc'[c][k] = rpc[c][k]
             \/ k = attempts[c] /\ rpc[c][k] = "sent" /\ rpc'[c][k] = "lost"
  <2>1. CASE UNCHANGED rpc
    BY <1>1, <2>1 DEF TypeOK
  <2>2. CASE /\ rpc[c][attempts[c]] = "sent"
             /\ rpc' = [rpc EXCEPT ![c][attempts[c]] = "lost"]
    BY <1>1, <1>3, <2>2 DEF TypeOK
  <2> QED
    BY <2>1, <2>2 DEF Cut
<1>5. /\ client' \in [Call -> {"backoff", "Unavailable"} \cup
                               {"start", "getting", "between", "waiting"} \cup Final]
      /\ \A d \in Call \ {c} : client'[d] = client[d]
      /\ \/ client'[c] = "backoff" /\ attempts[c] < MaxAttempts
         \/ client'[c] = "Unavailable" /\ ~(attempts[c] < MaxAttempts)
         \/ /\ client'[c] = "Unavailable"
            /\ rpc[c][attempts[c]] = "OK" /\ UNCHANGED rpc
  <2>1. CASE AfterUnavailable(c)
    BY <1>1, <2>1 DEF AfterUnavailable, TypeOK, Final
  <2>2. CASE /\ rpc[c][attempts[c]] = "OK"
             /\ client' = [client EXCEPT ![c] = "Unavailable"]
             /\ UNCHANGED rpc
    BY <1>1, <2>2 DEF TypeOK, Final
  <2> QED
    BY <2>1, <2>2 DEF Cut
<1>6. /\ cuts' \in [Call -> Nat]
      /\ cuts'[c] = cuts[c] + 1
      /\ \A d \in Call \ {c} : cuts'[d] = cuts[d]
  BY <1>1, <1>2 DEF TypeOK
<1>7. TypeOK'
  <2>1. client' \in [Call -> {"start", "getting", "between", "waiting",
                             "backoff"} \cup Final]
    BY <1>5 DEF Final
  <2> QED
    BY <1>1, <1>2, <1>4, <1>6, <2>1 DEF TypeOK
<1>8. Failed(c)' = Failed(c) /\ Failing(c)' = Failing(c)
  BY <1>4 DEF Failed, Failing
<1>9. FailuresBounded(c)'
  BY <1>1, <1>2, <1>8 DEF Conditions, FailuresBounded
<1>10. Progress(c)'
  <2>1. attempts'[c] = attempts[c] /\ attempts[c] <= MaxAttempts /\ attempts[c] \in Nat
    BY <1>2, <1>3, RetryAssumption DEF Attempt
  <2>2. ~(attempts[c] < MaxAttempts) => attempts[c] = MaxAttempts
    BY <2>1, RetryAssumption
  <2>3. \A k \in Attempt : k > attempts[c] => rpc'[c][k] = "none"
    BY <1>1, <1>4, <2>1 DEF Conditions, Progress, Attempt
  <2>4. cuts'[c] > 0
    BY <1>1, <1>6 DEF TypeOK
  <2> QED
    BY <1>3, <1>5, <2>1, <2>2, <2>3, <2>4 DEF Progress, AnswerBroken
<1>11. Accounted(c)'
  <2>1. /\ Cardinality(Failed(c)) \in Nat
        /\ Cardinality(Failed(c) \ {attempts[c]}) \in Nat
        /\ Cardinality(Failed(c) \ {attempts[c]}) <= Cardinality(Failed(c))
        /\ cuts[c] \in Nat /\ attempts[c] \in Nat
    BY <1>1, <1>3, CountsAreNumbers DEF TypeOK, Attempt
  <2>2. attempts[c] <= 1 + cuts[c] + Cardinality(Failed(c) \ {attempts[c]})
    BY <1>1, <1>2 DEF Conditions, Accounted
  <2>3. attempts[c] <= cuts'[c] + Cardinality(Failed(c))
    BY <1>6, <2>1, <2>2
  <2>4. attempts[c] <= 1 + cuts'[c] + Cardinality(Failed(c))
    BY <1>6, <2>1, <2>3
  <2>5. attempts'[c] = attempts[c] /\ client'[c] # "waiting"
    BY <1>2, <1>5
  <2> QED
    BY <1>8, <2>3, <2>4, <2>5 DEF Accounted
<1>12. Conditions(c)'
  BY <1>9, <1>10, <1>11 DEF Conditions
<1>13. updateAttempt <= updateAttempt'
  BY <1>1, <1>2 DEF TypeOK
<1> QED
  BY <1>2, <1>4, <1>5, <1>6, <1>7, <1>12, <1>13, OneCallChanges

-----------------------------------------------------------------------------
(* The server.                                                             *)

\* The counter is as high as the failures of any one call, and a request is
\* failed only while it is low.
LEMMA ReceivePreserves ==
    ASSUME Inv, NEW c \in Call, NEW k \in Attempt, Receive(c, k)
    PROVE  Inv'
<1>1. TypeOK /\ Conditions(c)
  BY InvParts
<1>2. /\ rpc[c][k] = "sent"
      /\ updateAttempt' = updateAttempt + 1 /\ updateAttempt \in Nat
      /\ UNCHANGED <<client, get, getAttempt, attempts, cuts>>
  BY <1>1 DEF Receive, TypeOK
<1>3. /\ rpc' \in [Call -> [Attempt -> {"none", "sent", "lost", "rejecting",
                                        "applying", "Unavailable", "OK"}]]
      /\ \A d \in Call \ {c} : rpc'[d] = rpc[d]
      /\ \A j \in Attempt \ {k} : rpc'[c][j] = rpc[c][j]
      /\ rpc'[c][k] = IF updateAttempt' <= FailFirst THEN "rejecting" ELSE "applying"
  BY <1>1 DEF Receive, TypeOK
<1>4. TypeOK'
  BY <1>1, <1>2, <1>3 DEF TypeOK
<1>5. Failed(c)' = Failed(c)
  BY <1>2, <1>3 DEF Failed
<1>6. FailuresBounded(c)'
  <2>1. Cardinality(Failing(c)) \in Nat /\ Cardinality(Failing(c) \cup {k}) \in Nat
    <3>1. Failing(c) \cup {k} \subseteq Attempt /\ Failing(c) \subseteq Attempt
      BY DEF Failing
    <3> QED
      BY <3>1, AttemptsAreFinite, RetryAssumption
  <2>2. Cardinality(Failing(c)) <= updateAttempt /\ Cardinality(Failing(c)) <= FailFirst
    BY <1>1 DEF Conditions, FailuresBounded
  <2>3. CASE updateAttempt' <= FailFirst
    <3>1. Failing(c)' = Failing(c) \cup {k}
      BY <1>2, <1>3, <2>3 DEF Failing
    <3>2. Cardinality(Failing(c) \cup {k}) <= 1 + Cardinality(Failing(c))
      BY OneAttempt, CountsAreNumbers
    <3>3. Cardinality(Failing(c) \cup {k}) <= updateAttempt'
      BY <1>2, <2>1, <2>2, <3>2
    <3>4. Cardinality(Failing(c) \cup {k}) <= FailFirst
      BY <1>2, <2>1, <2>3, <3>3, RetryAssumption
    <3> QED
      BY <3>1, <3>3, <3>4 DEF FailuresBounded
  <2>4. CASE ~(updateAttempt' <= FailFirst)
    <3>1. Failing(c)' = Failing(c)
      BY <1>2, <1>3, <2>4 DEF Failing
    <3>2. Cardinality(Failing(c)) <= updateAttempt'
      BY <1>2, <2>1, <2>2
    <3> QED
      BY <2>2, <3>1, <3>2 DEF FailuresBounded
  <2> QED
    BY <2>3, <2>4
<1>7. Progress(c)'
  <2>1. attempts[c] > 0 => attempts[c] \in Attempt
    BY <1>1, RetryAssumption DEF TypeOK, Attempt
  <2>2. attempts[c] > 0 /\ rpc[c][attempts[c]] = "OK" => rpc'[c][attempts[c]] = "OK"
    BY <1>2, <1>3, <2>1
  <2>3. \A j \in Attempt : j > attempts[c] => rpc'[c][j] = "none"
    BY <1>1, <1>2, <1>3 DEF Conditions, Progress
  <2> QED
    BY <1>1, <1>2, <2>2, <2>3 DEF Conditions, Progress, AnswerBroken
<1>8. Accounted(c)'
  BY <1>1, <1>2, <1>5 DEF Conditions, Accounted
<1>9. Conditions(c)'
  BY <1>6, <1>7, <1>8 DEF Conditions
<1>10. updateAttempt <= updateAttempt'
  BY <1>2
<1> QED
  BY <1>2, <1>3, <1>4, <1>9, <1>10, OneCallChanges

\* The failures of a call only grow.
LEMMA RespondPreserves ==
    ASSUME Inv, NEW c \in Call, NEW k \in Attempt, Respond(c, k)
    PROVE  Inv'
<1>1. TypeOK /\ Conditions(c)
  BY InvParts
<1>2. /\ rpc[c][k] \in {"rejecting", "applying"}
      /\ UNCHANGED <<client, get, getAttempt, attempts, updateAttempt, cuts>>
  BY DEF Respond
<1>3. /\ rpc' \in [Call -> [Attempt -> {"none", "sent", "lost", "rejecting",
                                        "applying", "Unavailable", "OK"}]]
      /\ \A d \in Call \ {c} : rpc'[d] = rpc[d]
      /\ \A j \in Attempt \ {k} : rpc'[c][j] = rpc[c][j]
      /\ rpc'[c][k] = IF rpc[c][k] = "rejecting" THEN "Unavailable" ELSE "OK"
  BY <1>1 DEF Respond, TypeOK
<1>4. TypeOK'
  BY <1>1, <1>2, <1>3 DEF TypeOK
<1>5. Failing(c)' = Failing(c)
  BY <1>2, <1>3 DEF Failing
<1>6. Failed(c) \subseteq Failed(c)' /\ Failed(c)' \subseteq Attempt
  BY <1>2, <1>3 DEF Failed
<1>7. FailuresBounded(c)'
  BY <1>1, <1>2, <1>5 DEF Conditions, FailuresBounded
<1>8. Progress(c)'
  <2>1. attempts[c] > 0 => attempts[c] \in Attempt
    BY <1>1, RetryAssumption DEF TypeOK, Attempt
  <2>2. attempts[c] > 0 /\ rpc[c][attempts[c]] = "OK" => rpc'[c][attempts[c]] = "OK"
    BY <1>2, <1>3, <2>1
  <2>3. \A j \in Attempt : j > attempts[c] => rpc'[c][j] = "none"
    BY <1>1, <1>2, <1>3 DEF Conditions, Progress
  <2> QED
    BY <1>1, <1>2, <2>2, <2>3 DEF Conditions, Progress, AnswerBroken
<1>9. Accounted(c)'
  <2> DEFINE F == Failed(c)'
  <2>1. /\ Cardinality(Failed(c)) <= Cardinality(F)
        /\ Cardinality(Failed(c) \ {attempts[c]}) <= Cardinality(F \ {attempts[c]})
    BY <1>6, FewerAttempts
  <2>2. /\ Cardinality(F) \in Nat
        /\ Cardinality(F \ {attempts[c]}) \in Nat
    <3>1. F \ {attempts[c]} \subseteq Attempt /\ F \subseteq Attempt
      BY <1>6
    <3> QED
      BY <3>1, AttemptsAreFinite, RetryAssumption
  <2>3. /\ Cardinality(Failed(c)) \in Nat
        /\ Cardinality(Failed(c) \ {attempts[c]}) \in Nat
        /\ attempts[c] \in Int /\ cuts[c] \in Nat
    <3>1. attempts[c] \in Int /\ cuts[c] \in Nat
      BY <1>1 DEF TypeOK
    <3> QED
      BY <3>1, CountsAreNumbers
  <2>4. /\ attempts'[c] = attempts[c]
        /\ cuts'[c] = cuts[c]
        /\ client'[c] = client[c]
    BY <1>2
  <2> HIDE DEF F
  <2>5. /\ client[c] \in {"backoff", "Unavailable"} => attempts[c] <= cuts[c] + Cardinality(F)
        /\ client[c] = "waiting" =>
               attempts[c] <= 1 + cuts[c] + Cardinality(F \ {attempts[c]})
        /\ attempts[c] <= 1 + cuts[c] + Cardinality(F)
    BY <1>1, <2>1, <2>2, <2>3 DEF Conditions, Accounted
  <2> QED
    BY <2>4, <2>5 DEF Accounted, F
<1>10. Conditions(c)'
  BY <1>7, <1>8, <1>9 DEF Conditions
<1>11. updateAttempt <= updateAttempt'
  BY <1>1, <1>2 DEF TypeOK
<1> QED
  BY <1>2, <1>3, <1>4, <1>10, <1>11, OneCallChanges

-----------------------------------------------------------------------------
(* The theorems.                                                           *)

LEMMA InitIsSound == Init => Inv
<1> SUFFICES ASSUME Init PROVE Inv
  OBVIOUS
<1>1. Cardinality(Call) \in Nat /\ Cardinality(Begun) \in Nat
  BY BegunIsFinite, FS_CardinalityType, RetryAssumption
<1>2. TypeOK
  BY <1>1, RetryAssumption DEF Init, TypeOK, Attempt
<1>3. FirstCalls
  BY <1>1 DEF Init, FirstCalls
<1>4. ASSUME NEW c \in Call PROVE Conditions(c)
  <2>1. Failed(c) = {} /\ Failing(c) = {}
    BY DEF Init, Failed, Failing
  <2>2. Cardinality({}) = 0
    BY FS_EmptySet
  <2> QED
    BY <2>1, <2>2, RetryAssumption
    DEF Init, Conditions, FailuresBounded, Progress, Accounted
<1> QED
  BY <1>2, <1>3, <1>4, InvParts

\* The inductive invariant: the attempts of every call are accounted for by
\* the server's failures and the connections that broke.
THEOREM Invariance == Spec => []Inv
<1>1. Inv /\ [Next]_vars => Inv'
  <2> SUFFICES ASSUME Inv, [Next]_vars PROVE Inv'
    OBVIOUS
  <2>1. CASE UNCHANGED vars
    <3>1. UNCHANGED <<client, get, getAttempt, attempts, rpc, updateAttempt, cuts>>
      BY <2>1 DEF vars, updates
    <3>2. TypeOK /\ FirstCalls /\ \A d \in Call : Conditions(d)
      BY InvParts
    <3>3. TypeOK'
      BY <3>1, <3>2 DEF TypeOK
    <3>4. updateAttempt' \in Nat /\ updateAttempt <= updateAttempt'
      BY <3>1, <3>2 DEF TypeOK
    <3>5. \A d \in Call : Conditions(d)'
      BY <3>1, <3>2, <3>4, OthersKeep
    <3>6. FirstCalls'
      BY <3>1, <3>2, FirstCallsKeep
    <3> QED
      BY <3>3, <3>5, <3>6 DEF Inv, FirstCalls, Conditions
  <2>2. CASE Next
    <3>1. PICK c \in Call :
              \/ GetUser(c) \/ ReceiveGet(c) \/ RespondGet(c) \/ DeliverGet(c) \/ FailGet(c)
              \/ UpdateUser(c) \/ Retry(c)
              \/ Deliver(c) \/ Cut(c) \/ Deadline(c)
              \/ \E k \in Attempt : Receive(c, k) \/ Respond(c, k)
      BY <2>2 DEF Next
    <3> QED
      BY <3>1, GetPreserves, TryPreserves, DeliverPreserves, CutPreserves,
         DeadlinePreserves, ReceivePreserves, RespondPreserves
  <2> QED
    BY <2>1, <2>2
<1> QED
  BY <1>1, InitIsSound, PTL DEF Spec

\* "The client side only sees a single successful RPC call", 17: a client is
\* told UNAVAILABLE only if its connections broke as often as the policy
\* leaves room for beside the server's failures, or one of them did and its
\* update was carried out.
THEOREM FailuresStayHidden == Spec => []FailuresAreHidden
<1>1. Inv => FailuresAreHidden
  <2> SUFFICES ASSUME Inv, NEW c \in Call, client[c] = "Unavailable",
                      ~AnswerBroken(c)
               PROVE  FailFirst + cuts[c] >= MaxAttempts
    BY DEF FailuresAreHidden
  <2>1. TypeOK /\ Conditions(c)
    BY InvParts
  <2>2. MaxAttempts <= cuts[c] + Cardinality(Failed(c))
    BY <2>1 DEF Conditions, Progress, Accounted
  <2>3. Cardinality(Failed(c)) <= Cardinality(Failing(c))
    <3>1. Failed(c) \subseteq Failing(c) /\ Failing(c) \subseteq Attempt
      BY DEF Failed, Failing
    <3> QED
      BY <3>1, FewerAttempts
  <2>4. Cardinality(Failing(c)) <= FailFirst
    BY <2>1 DEF Conditions, FailuresBounded
  <2>5. /\ Cardinality(Failed(c)) \in Nat /\ Cardinality(Failing(c)) \in Nat
        /\ cuts[c] \in Nat
    BY <2>1, CountsAreNumbers DEF TypeOK
  <2> QED
    BY <2>2, <2>3, <2>4, <2>5, RetryAssumption
<1> QED
  BY <1>1, Invariance, PTL

\* Retrying carries an update out at most once more than the call's
\* connections broke, and never zero times for a call that succeeded (17).
THEOREM UpdatesAreAppliedOnce == Spec => []AppliedOnce
<1>1. Inv => AppliedOnce
  <2> SUFFICES ASSUME Inv, NEW c \in Call
               PROVE  /\ Applied(c) <= 1 + cuts[c]
                      /\ client[c] = "OK" => Applied(c) > 0
    BY DEF AppliedOnce
  <2> DEFINE Carried == { k \in Attempt : rpc[c][k] = "OK" }
  <2>1. TypeOK /\ Conditions(c)
    BY InvParts
  <2>2. attempts[c] \in Nat /\ attempts[c] <= MaxAttempts /\ cuts[c] \in Nat
    BY <2>1, RetryAssumption DEF TypeOK
  <2>3. Carried \cup Failed(c) \subseteq 1..attempts[c]
    <3>1. \A k \in Attempt : rpc[c][k] # "none" => k \in 1..attempts[c]
      BY <2>1, <2>2, RetryAssumption DEF Conditions, Progress, Attempt
    <3>2. \A k \in Carried : k \in Attempt /\ rpc[c][k] # "none"
      OBVIOUS
    <3>3. \A k \in Failed(c) : k \in Attempt /\ rpc[c][k] # "none"
      BY DEF Failed
    <3> DEFINE I == 1..attempts[c]
    <3>4. \A k \in Attempt : rpc[c][k] # "none" => k \in I
      BY <3>1
    <3> HIDE DEF Carried, I
    <3>5. Carried \cup Failed(c) \subseteq I
      BY <3>2, <3>3, <3>4
    <3> QED
      BY <3>5 DEF I
  <2>4. IsFiniteSet(1..attempts[c]) /\ Cardinality(1..attempts[c]) = attempts[c]
    <3> DEFINE n == attempts[c]
    <3>1. n \in Nat
      BY <2>2
    <3> HIDE DEF n
    <3>2. IsFiniteSet(1..n) /\ Cardinality(1..n) = n
      BY <3>1, FS_Interval
    <3> QED
      BY <3>2 DEF n
  <2>5. /\ IsFiniteSet(Carried) /\ Cardinality(Carried) \in Nat
        /\ IsFiniteSet(Failed(c)) /\ Cardinality(Failed(c)) \in Nat
    <3>1. Carried \subseteq Attempt /\ Failed(c) \subseteq Attempt
      BY DEF Failed
    <3> QED
      BY <3>1, AttemptsAreFinite, RetryAssumption
  <2>6. Carried \cap Failed(c) = {}
    BY DEF Failed
  <2>7. Cardinality(Carried \cup Failed(c)) = Cardinality(Carried) + Cardinality(Failed(c))
    <3>1. Cardinality(Carried \cup Failed(c)) =
              Cardinality(Carried) + Cardinality(Failed(c)) - Cardinality(Carried \cap Failed(c))
      BY <2>5, FS_Union
    <3>2. Cardinality(Carried \cap Failed(c)) = 0
      BY <2>6, FS_EmptySet
    <3> QED
      BY <2>5, <3>1, <3>2
  <2>8. Cardinality(Carried) + Cardinality(Failed(c)) <= attempts[c]
    BY <2>3, <2>4, <2>7, FS_Subset
  <2>9. attempts[c] <= 1 + cuts[c] + Cardinality(Failed(c))
    BY <2>1 DEF Conditions, Accounted
  <2>10. Applied(c) = Cardinality(Carried)
    BY DEF Applied
  <2>11. Applied(c) <= 1 + cuts[c]
    BY <2>2, <2>5, <2>8, <2>9, <2>10
  <2>12. ASSUME client[c] = "OK" PROVE Applied(c) > 0
    <3>1. attempts[c] \in Carried
      BY <2>1, <2>2, <2>12 DEF Conditions, Progress, Attempt
    <3>2. Cardinality(Carried) # 0
      BY <2>5, <3>1, FS_EmptySet
    <3> QED
      BY <2>5, <2>10, <3>2
  <2> QED
    BY <2>11, <2>12
<1> QED
  BY <1>1, Invariance, PTL

-----------------------------------------------------------------------------
(* Why a client's calls end. Fairness is out of the prover's reach; that a *)
(* client has only so many steps to take, and one to take until its calls  *)
(* have ended, is not.                                                     *)

\* The attempt a client waits for, "none" before the first.
Current(c) == IF attempts[c] = 0 THEN "none" ELSE rpc[c][attempts[c]]

\* All that decides what a client does next. Abandoned attempts are no part
\* of it.
CallState(c) == <<client[c], get[c], attempts[c], Current(c)>>

ClientLeft(c) ==
    CASE client[c] = "start" -> 3
      [] client[c] \in {"getting", "waiting"} -> 2
      [] client[c] \in {"between", "backoff"} -> 1
      [] OTHER -> 0

GetLeft(c) ==
    CASE get[c] = "none" -> 3
      [] get[c] = "sent" -> 2
      [] get[c] = "slow" -> 1
      [] OTHER -> 0

AttemptLeft(c) ==
    CASE Current(c) = "sent" -> 2
      [] Current(c) \in {"rejecting", "applying"} -> 1
      [] OTHER -> 0

\* A bound on the changes of a client's state that are left.
Left(c) ==
    ClientLeft(c) + GetLeft(c) + AttemptLeft(c) + 5 * (MaxAttempts - attempts[c])

LEMMA LeftType ==
    ASSUME TypeOK, NEW c \in Call
    PROVE  /\ ClientLeft(c) \in 0..3 /\ GetLeft(c) \in 0..3
           /\ AttemptLeft(c) \in 0..2
           /\ attempts[c] \in 0..MaxAttempts /\ MaxAttempts \in Nat
           /\ Left(c) \in Nat
<1>1. /\ ClientLeft(c) \in 0..3 /\ GetLeft(c) \in 0..3 /\ AttemptLeft(c) \in 0..2
  BY DEF ClientLeft, GetLeft, AttemptLeft
<1>2. attempts[c] \in 0..MaxAttempts /\ MaxAttempts \in Nat
  BY RetryAssumption DEF TypeOK
<1>3. Left(c) \in Nat
  <2> DEFINE x == ClientLeft(c)
             y == GetLeft(c)
             z == AttemptLeft(c)
             a == attempts[c]
  <2>1. x \in Nat /\ y \in Nat /\ z \in Nat /\ a \in 0..MaxAttempts
    BY <1>1, <1>2
  <2> HIDE DEF x, y, z, a
  <2>2. x + y + z + 5 * (MaxAttempts - a) \in Nat
    <3>1. MaxAttempts - a \in Nat
      BY <1>2, <2>1
    <3> QED
      BY <2>1, <3>1
  <2> QED
    BY <2>2 DEF Left, x, y, z, a
<1> QED
  BY <1>1, <1>2, <1>3

\* A client's own steps.
LEMMA GetTakesSteps ==
    ASSUME TypeOK, NEW c \in Call,
           GetUser(c) \/ ReceiveGet(c) \/ RespondGet(c) \/ DeliverGet(c) \/ FailGet(c),
           Progress(c)
    PROVE  /\ ClientLeft(c)' + GetLeft(c)' < ClientLeft(c) + GetLeft(c)
           /\ UNCHANGED <<AttemptLeft(c), attempts[c]>>
<1>1. UNCHANGED <<attempts, rpc>>
  BY DEF GetUser, ReceiveGet, RespondGet, DeliverGet, FailGet, updates
<1>2. UNCHANGED <<AttemptLeft(c), attempts[c]>>
  BY <1>1 DEF AttemptLeft, Current
<1> DEFINE m == ClientLeft(c)
           g == GetLeft(c)
<1>3. m \in 0..3 /\ g \in 0..3
  BY LeftType
<1>4. \/ m = 3 /\ m' = 2 /\ g = 3 /\ g' = 2
      \/ m' = m /\ <<g, g'>> \in {<<2, 1>>, <<2, 0>>, <<1, 0>>}
      \/ m = 2 /\ m' = 1 /\ <<g, g'>> = <<2, 0>>
      \/ m = 2 /\ m' = 1 /\ g' = g
  <2>1. CASE GetUser(c)
    <3>1. /\ client[c] = "start" /\ client'[c] = "getting"
          /\ get[c] = "none" /\ get'[c] = "sent"
      BY <2>1 DEF GetUser, TypeOK, Progress
    <3> QED
      BY <3>1 DEF ClientLeft, GetLeft
  <2>2. CASE ReceiveGet(c)
    <3>1. UNCHANGED client /\ get[c] = "sent" /\ get'[c] \in {"slow", "over"}
      BY <2>2 DEF ReceiveGet, TypeOK
    <3> QED
      BY <3>1 DEF ClientLeft, GetLeft
  <2>3. CASE RespondGet(c)
    <3>1. UNCHANGED client /\ get[c] = "slow" /\ get'[c] = "over"
      BY <2>3 DEF RespondGet, TypeOK
    <3> QED
      BY <3>1 DEF ClientLeft, GetLeft
  <2>4. CASE DeliverGet(c)
    <3>1. client[c] = "getting" /\ client'[c] = "between" /\ UNCHANGED get
      BY <2>4 DEF DeliverGet, TypeOK
    <3>2. m = 2 /\ m' = 1
      BY <3>1 DEF ClientLeft
    <3>3. g' = g
      BY <3>1 DEF GetLeft
    <3> QED
      BY <3>2, <3>3
  <2>5. CASE FailGet(c)
    <3>1. client[c] = "getting" /\ client'[c] = "between"
      BY <2>5 DEF FailGet, TypeOK
    <3>2. m = 2 /\ m' = 1
      BY <3>1 DEF ClientLeft
    <3>3. CASE get[c] = "sent" /\ get' = [get EXCEPT ![c] = "over"]
      <4>1. get'[c] = "over"
        BY <3>3 DEF TypeOK
      <4>2. g = 2 /\ g' = 0
        BY <3>3, <4>1 DEF GetLeft
      <4> QED
        BY <3>2, <4>2
    <3>4. CASE UNCHANGED get
      <4>1. g' = g
        BY <3>4 DEF GetLeft
      <4> QED
        BY <3>2, <4>1
    <3> QED
      BY <2>5, <3>3, <3>4 DEF FailGet
  <2> QED
    BY <2>1, <2>2, <2>3, <2>4, <2>5
<1>5. m' + g' < m + g
  <2>1. ASSUME NEW x, NEW y, x = m', y = g' PROVE x + y < m + g
    BY <1>3, <1>4, <2>1
  <2> QED
    BY <2>1
<1> QED
  BY <1>2, <1>5

LEMMA TryTakesSteps ==
    ASSUME TypeOK, NEW c \in Call, UpdateUser(c) \/ Retry(c), Progress(c)
    PROVE  /\ ClientLeft(c)' = ClientLeft(c) + 1
           /\ AttemptLeft(c)' = 2
           /\ attempts'[c] = attempts[c] + 1
           /\ UNCHANGED GetLeft(c)
<1>1. /\ client[c] \in {"between", "backoff"} /\ client'[c] = "waiting"
      /\ attempts'[c] = attempts[c] + 1 /\ UNCHANGED get
      /\ rpc' = [rpc EXCEPT ![c][attempts[c] + 1] = "sent"]
  BY DEF UpdateUser, Retry, Try, TypeOK
<1>2. attempts[c] + 1 \in Attempt /\ attempts'[c] # 0
  BY <1>1, RetryAssumption DEF Progress, TypeOK, Attempt
<1>3. rpc'[c][attempts[c] + 1] = "sent"
  BY <1>1, <1>2 DEF TypeOK
<1>4. Current(c)' = "sent"
  BY <1>1, <1>2, <1>3 DEF Current
<1>5. AttemptLeft(c)' = 2
  BY <1>4 DEF AttemptLeft
<1> QED
  BY <1>1, <1>5 DEF ClientLeft, GetLeft

LEMMA AnswerTakesSteps ==
    ASSUME TypeOK, NEW c \in Call, Deliver(c) \/ Cut(c) \/ Deadline(c)
    PROVE  /\ ClientLeft(c)' < ClientLeft(c)
           /\ AttemptLeft(c)' <= AttemptLeft(c)
           /\ UNCHANGED <<attempts[c], GetLeft(c)>>
<1>1. UNCHANGED <<attempts, get>>
  BY DEF Deliver, Cut, Deadline, updates
<1>2. ClientLeft(c)' < ClientLeft(c)
  BY DEF Deliver, Cut, Deadline, AfterUnavailable, ClientLeft, TypeOK
<1>3. AttemptLeft(c)' <= AttemptLeft(c)
  <2>1. CASE UNCHANGED rpc
    <3>1. AttemptLeft(c)' = AttemptLeft(c) /\ AttemptLeft(c) \in 0..2
      BY <1>1, <2>1, LeftType DEF AttemptLeft, Current
    <3> QED
      BY <3>1
  <2>2. CASE rpc' # rpc
    <3>1. /\ rpc[c][attempts[c]] = "sent"
          /\ rpc' = [rpc EXCEPT ![c][attempts[c]] = "lost"]
      BY <2>2 DEF Deliver, Cut, Deadline, updates
    <3>2. CASE attempts[c] = 0
      BY <1>1, <3>2 DEF AttemptLeft, Current
    <3>3. CASE attempts[c] # 0
      <4>1. attempts[c] \in Attempt
        BY <3>3, RetryAssumption DEF TypeOK, Attempt
      <4>2. rpc'[c][attempts[c]] = "lost"
        BY <3>1, <4>1 DEF TypeOK
      <4>3. Current(c)' = "lost" /\ Current(c) = "sent"
        BY <1>1, <3>1, <3>3, <4>2 DEF Current
      <4> QED
        BY <4>3 DEF AttemptLeft
    <3> QED
      BY <3>2, <3>3
  <2> QED
    BY <2>1, <2>2
<1> QED
  BY <1>1, <1>2, <1>3 DEF GetLeft

\* The server's steps count if they are for the current attempt.
LEMMA ServerTakesSteps ==
    ASSUME TypeOK, NEW c \in Call, NEW k \in Attempt, Receive(c, k) \/ Respond(c, k)
    PROVE  \/ UNCHANGED CallState(c)
           \/ /\ AttemptLeft(c)' < AttemptLeft(c)
              /\ UNCHANGED <<attempts[c], ClientLeft(c), GetLeft(c)>>
<1>1. UNCHANGED <<client, get, attempts>>
  BY DEF Receive, Respond
<1>2. CASE k = attempts[c]
  <2>1. k # 0
    BY RetryAssumption DEF Attempt
  <2>2. \/ rpc[c][k] = "sent" /\ rpc'[c][k] \in {"rejecting", "applying"}
        \/ rpc[c][k] \in {"rejecting", "applying"} /\ rpc'[c][k] \in {"Unavailable", "OK"}
    BY DEF Receive, Respond, TypeOK
  <2>3. Current(c) = rpc[c][k] /\ Current(c)' = rpc'[c][k]
    BY <1>1, <1>2, <2>1 DEF Current
  <2>4. AttemptLeft(c)' < AttemptLeft(c)
    BY <2>2, <2>3 DEF AttemptLeft
  <2> QED
    BY <1>1, <2>4 DEF ClientLeft, GetLeft
<1>3. CASE k # attempts[c]
  <2>1. Current(c)' = Current(c)
    <3>1. CASE attempts[c] = 0
      BY <1>1, <3>1 DEF Current
    <3>2. CASE attempts[c] # 0
      <4>1. attempts[c] \in Attempt
        BY <3>2, RetryAssumption DEF TypeOK, Attempt
      <4>2. rpc'[c][attempts[c]] = rpc[c][attempts[c]]
        BY <1>3, <4>1 DEF Receive, Respond, TypeOK
      <4> QED
        BY <1>1, <4>2 DEF Current
    <3> QED
      BY <3>1, <3>2
  <2> QED
    BY <1>1, <2>1 DEF CallState
<1> QED
  BY <1>2, <1>3

\* No client has part in another's steps.
LEMMA OthersStay ==
    ASSUME TypeOK, NEW c \in Call, NEW d \in Call, c # d,
           \/ GetUser(c) \/ ReceiveGet(c) \/ RespondGet(c) \/ DeliverGet(c) \/ FailGet(c)
           \/ UpdateUser(c) \/ Retry(c)
           \/ Deliver(c) \/ Cut(c) \/ Deadline(c)
           \/ \E k \in Attempt : Receive(c, k) \/ Respond(c, k)
    PROVE  UNCHANGED CallState(d)
<1>1. client'[d] = client[d]
  BY DEF GetUser, ReceiveGet, RespondGet, DeliverGet, FailGet, UpdateUser, Retry,
         Try, Deliver, Cut, Deadline, AfterUnavailable, Receive, Respond, TypeOK
<1>2. get'[d] = get[d]
  BY DEF GetUser, ReceiveGet, RespondGet, DeliverGet, FailGet, UpdateUser, Retry,
         Try, Deliver, Cut, Deadline, Receive, Respond, TypeOK
<1>3. attempts'[d] = attempts[d]
  BY DEF GetUser, ReceiveGet, RespondGet, DeliverGet, FailGet, UpdateUser, Retry,
         Try, Deliver, Cut, Deadline, Receive, Respond, TypeOK, updates
<1>4. rpc'[d] = rpc[d]
  BY DEF GetUser, ReceiveGet, RespondGet, DeliverGet, FailGet, UpdateUser, Retry,
         Try, Deliver, Cut, Deadline, Receive, Respond, TypeOK, updates
<1> QED
  BY <1>1, <1>2, <1>3, <1>4 DEF CallState, Current

LEMMA StepLowersLeft ==
    ASSUME TypeOK, TypeOK', NEW c \in Call, Progress(c),
           \/ GetUser(c) \/ ReceiveGet(c) \/ RespondGet(c) \/ DeliverGet(c) \/ FailGet(c)
           \/ UpdateUser(c) \/ Retry(c)
           \/ Deliver(c) \/ Cut(c) \/ Deadline(c)
           \/ \E k \in Attempt : Receive(c, k) \/ Respond(c, k)
    PROVE  UNCHANGED CallState(c) \/ Left(c)' < Left(c)
<1>1. PICK m \in 0..3, g \in 0..3, l \in 0..2, a \in 0..MaxAttempts :
          m = ClientLeft(c) /\ g = GetLeft(c) /\ l = AttemptLeft(c) /\ a = attempts[c]
  BY LeftType
<1>2. PICK m2 \in 0..3, g2 \in 0..3, l2 \in 0..2, a2 \in 0..MaxAttempts :
          /\ m2 = ClientLeft(c)' /\ g2 = GetLeft(c)'
          /\ l2 = AttemptLeft(c)' /\ a2 = attempts[c]'
  <2>1. /\ ClientLeft(c)' \in 0..3 /\ GetLeft(c)' \in 0..3
        /\ AttemptLeft(c)' \in 0..2
    BY DEF ClientLeft, GetLeft, AttemptLeft
  <2>2. attempts[c]' \in 0..MaxAttempts
    BY DEF TypeOK
  <2> QED
    BY <2>1, <2>2
<1>3. MaxAttempts \in Nat
  BY RetryAssumption
<1>4. /\ Left(c) = m + g + l + 5 * (MaxAttempts - a)
      /\ Left(c)' = m2 + g2 + l2 + 5 * (MaxAttempts - a2)
  BY <1>1, <1>2 DEF Left
<1>5. UNCHANGED CallState(c) \/ m2 + g2 + l2 + 5 * a < m + g + l + 5 * a2
  <2>1. CASE GetUser(c) \/ ReceiveGet(c) \/ RespondGet(c) \/ DeliverGet(c) \/ FailGet(c)
    <3>1. m2 + g2 < m + g /\ l2 = l /\ a2 = a
      BY <2>1, <1>1, <1>2, GetTakesSteps
    <3> QED
      BY <3>1
  <2>2. CASE UpdateUser(c) \/ Retry(c)
    <3>1. m2 = m + 1 /\ g2 = g /\ l2 = 2 /\ a2 = a + 1
      BY <2>2, <1>1, <1>2, TryTakesSteps
    <3> QED
      BY <3>1
  <2>3. CASE Deliver(c) \/ Cut(c) \/ Deadline(c)
    <3>1. m2 < m /\ g2 = g /\ l2 <= l /\ a2 = a
      BY <2>3, <1>1, <1>2, AnswerTakesSteps
    <3> QED
      BY <3>1
  <2>4. CASE \E k \in Attempt : Receive(c, k) \/ Respond(c, k)
    <3>1. UNCHANGED CallState(c) \/ (m2 = m /\ g2 = g /\ l2 < l /\ a2 = a)
      BY <2>4, <1>1, <1>2, ServerTakesSteps
    <3> QED
      BY <3>1
  <2> QED
    BY <2>1, <2>2, <2>3, <2>4
<1>6. ASSUME m2 + g2 + l2 + 5 * a < m + g + l + 5 * a2
      PROVE  Left(c)' < Left(c)
  <2>1. m2 + g2 + l2 + 5 * (MaxAttempts - a2) < m + g + l + 5 * (MaxAttempts - a)
    BY <1>3, <1>6
  <2> QED
    BY <2>1, <1>4, Zenon
<1> QED
  BY <1>5, <1>6

\* A step leaves each client's calls as they are or uses up a step of them.
CallsAdvance ==
    \A c \in Call : UNCHANGED CallState(c) \/ Left(c)' < Left(c)

\* A client's calls take at most 6 + 5 * MaxAttempts steps, those of the server
\* for the attempt it waits for included, whatever other clients do. In
\* particular it never sends an attempt, or an RPC, without end.
THEOREM CallStepsRunOut ==
    Spec => /\ [](\A c \in Call : Left(c) \in Nat)
            /\ [][CallsAdvance]_vars
<1>1. Inv => \A c \in Call : Left(c) \in Nat
  BY LeftType DEF Inv
<1>2. Inv /\ Inv' /\ [Next]_vars => [CallsAdvance]_vars
  <2> SUFFICES ASSUME Inv, Inv', Next, NEW d \in Call
               PROVE  UNCHANGED CallState(d) \/ Left(d)' < Left(d)
    BY DEF CallsAdvance
  <2>1. TypeOK /\ TypeOK' /\ Progress(d)
    BY DEF Inv
  <2>2. PICK c \in Call :
            \/ GetUser(c) \/ ReceiveGet(c) \/ RespondGet(c) \/ DeliverGet(c) \/ FailGet(c)
            \/ UpdateUser(c) \/ Retry(c)
            \/ Deliver(c) \/ Cut(c) \/ Deadline(c)
            \/ \E k \in Attempt : Receive(c, k) \/ Respond(c, k)
    BY DEF Next
  <2>3. CASE c = d
    BY <2>1, <2>2, <2>3, StepLowersLeft
  <2>4. CASE c # d
    BY <2>1, <2>2, <2>4, OthersStay
  <2> QED
    BY <2>3, <2>4
<1> QED
  BY <1>1, <1>2, Invariance, PTL DEF Spec

\* What a client waits for is there: its GetUser was sent, and its current
\* attempt is at the server or on its way, and was not lost.
Waits(c) ==
    /\ client[c] = "getting" => get[c] # "none"
    /\ client[c] = "waiting" => Current(c) \notin {"none", "lost"}

\* A step of the client, or of the server for it, can be taken: the guards of
\* the actions that FairSpec says are taken.
CanGoOn(c) ==
    \/ client[c] = "getting" /\ get[c] \in {"sent", "slow", "over"}
    \/ client[c] \in {"between", "backoff"}
    \/ /\ client[c] = "waiting"
       /\ Current(c) \in {"sent", "rejecting", "applying", "Unavailable", "OK"}

LEMMA WaitsStep ==
    ASSUME TypeOK, NEW c \in Call, Progress(c), Waits(c),
           \/ GetUser(c) \/ ReceiveGet(c) \/ RespondGet(c) \/ DeliverGet(c) \/ FailGet(c)
           \/ UpdateUser(c) \/ Retry(c)
           \/ Deliver(c) \/ Cut(c) \/ Deadline(c)
           \/ \E k \in Attempt : Receive(c, k) \/ Respond(c, k)
    PROVE  Waits(c)'
<1>1. CASE GetUser(c) \/ ReceiveGet(c) \/ RespondGet(c) \/ DeliverGet(c) \/ FailGet(c)
  <2>1. UNCHANGED <<attempts, rpc>>
    BY <1>1 DEF GetUser, ReceiveGet, RespondGet, DeliverGet, FailGet, updates
  <2>2. UNCHANGED Current(c)
    BY <2>1 DEF Current
  <2>3. client'[c] = "waiting" => client[c] = "waiting"
    BY <1>1 DEF GetUser, ReceiveGet, RespondGet, DeliverGet, FailGet, TypeOK
  <2>4. client'[c] = "getting" => get'[c] # "none"
    BY <1>1 DEF GetUser, ReceiveGet, RespondGet, DeliverGet, FailGet, TypeOK, Waits
  <2> QED
    BY <2>2, <2>3, <2>4 DEF Waits
<1>2. CASE UpdateUser(c) \/ Retry(c)
  <2>1. AttemptLeft(c)' = 2
    BY <1>2, TryTakesSteps
  <2>2. Current(c)' = "sent"
    BY <2>1 DEF AttemptLeft
  <2>3. client'[c] = "waiting"
    BY <1>2 DEF UpdateUser, Retry, Try, TypeOK
  <2> QED
    BY <2>2, <2>3 DEF Waits
<1>3. CASE Deliver(c) \/ Cut(c) \/ Deadline(c)
  <2>1. client'[c] \notin {"waiting", "getting"}
    BY <1>3 DEF Deliver, Cut, Deadline, AfterUnavailable, TypeOK
  <2> QED
    BY <2>1 DEF Waits
<1>4. ASSUME NEW k \in Attempt, Receive(c, k) \/ Respond(c, k) PROVE Waits(c)'
  <2>1. UNCHANGED <<client, get, attempts>>
    BY <1>4 DEF Receive, Respond
  <2>2. rpc'[c][k] \notin {"none", "lost"}
    BY <1>4 DEF Receive, Respond, TypeOK
  <2>3. \A j \in Attempt : j # k => rpc'[c][j] = rpc[c][j]
    BY <1>4 DEF Receive, Respond, TypeOK
  <2>4. attempts[c] # 0 => attempts[c] \in Attempt
    BY RetryAssumption DEF TypeOK, Attempt
  <2>5. Current(c)' = Current(c) \/ Current(c)' \notin {"none", "lost"}
    BY <2>1, <2>2, <2>3, <2>4 DEF Current
  <2> QED
    BY <2>1, <2>5 DEF Waits
<1> QED
  BY <1>1, <1>2, <1>3, <1>4

\* From its first call to the end of its second a client never waits for
\* something that cannot come: not for a request that was lost, for an answer
\* to an attempt it has abandoned, or for another client. What it or the server
\* can do stays possible until the client's state changes, and CallStepsRunOut
\* says that this happens so many times only; CallsEnd adds that it happens.
THEOREM CallsAreNeverStuck ==
    Spec => [](\A c \in Call : client[c] \notin {"start"} \cup Final => CanGoOn(c))
<1>1. Init => \A c \in Call : Waits(c)
  BY DEF Init, Waits
<1>2. Inv /\ (\A c \in Call : Waits(c)) /\ [Next]_vars => (\A c \in Call : Waits(c))'
  <2> SUFFICES ASSUME Inv, \A c \in Call : Waits(c), [Next]_vars, NEW d \in Call
               PROVE  Waits(d)'
    OBVIOUS
  <2>1. TypeOK /\ Progress(d) /\ Waits(d)
    BY DEF Inv
  <2>2. CASE UNCHANGED vars
    BY <2>1, <2>2 DEF vars, updates, Waits, Current
  <2>3. CASE Next
    <3>1. PICK c \in Call :
              \/ GetUser(c) \/ ReceiveGet(c) \/ RespondGet(c) \/ DeliverGet(c) \/ FailGet(c)
              \/ UpdateUser(c) \/ Retry(c)
              \/ Deliver(c) \/ Cut(c) \/ Deadline(c)
              \/ \E k \in Attempt : Receive(c, k) \/ Respond(c, k)
      BY <2>3 DEF Next
    <3>2. CASE c = d
      BY <2>1, <3>1, <3>2, WaitsStep
    <3>3. CASE c # d
      <4>1. UNCHANGED CallState(d)
        BY <2>1, <3>1, <3>3, OthersStay
      <4> QED
        BY <2>1, <4>1 DEF CallState, Waits
    <3> QED
      BY <3>2, <3>3
  <2> QED
    BY <2>2, <2>3
<1>3. Inv /\ (\A c \in Call : Waits(c)) =>
          \A c \in Call : client[c] \notin {"start"} \cup Final => CanGoOn(c)
  <2> SUFFICES ASSUME Inv, NEW c \in Call, Waits(c), client[c] \notin {"start"} \cup Final
               PROVE  CanGoOn(c)
    OBVIOUS
  <2>1. TypeOK /\ Progress(c)
    BY DEF Inv
  <2>2. client[c] \in {"getting", "between", "waiting", "backoff"}
    BY <2>1 DEF TypeOK
  <2>3. CASE client[c] = "getting"
    BY <2>1, <2>3 DEF Waits, CanGoOn, TypeOK
  <2>4. CASE client[c] = "waiting"
    <3>1. attempts[c] # 0 /\ attempts[c] \in Attempt
      BY <2>1, <2>4, RetryAssumption DEF Progress, TypeOK, Attempt
    <3>2. Current(c) \in {"none", "sent", "lost", "rejecting", "applying",
                          "Unavailable", "OK"}
      BY <2>1, <3>1 DEF Current, TypeOK
    <3> QED
      BY <2>4, <3>2 DEF Waits, CanGoOn
  <2> QED
    BY <2>2, <2>3, <2>4 DEF CanGoOn
<1> QED
  BY <1>1, <1>2, <1>3, Invariance, PTL DEF Spec
=============================================================================
