----------------------- MODULE CircuitBreaker_proofs -----------------------
(* Proofs about CircuitBreaker, for any number of concurrent calls and any  *)
(* settings.                                                                *)
EXTENDS CircuitBreaker, FiniteSetTheorems, TLAPS

-----------------------------------------------------------------------------
(* The inductive invariant.                                                *)

\* The calls that a breaker's present generation admitted and that are not
\* back, when adm says what each slot is doing.
Of(b, adm) == {c \in Call : adm[c] = b.generation}

\* A breaker and the calls in flight agree: no call is of a generation to
\* come, each counted request has a result or is in flight, a closed breaker
\* is short of its trip condition, a half-open one has had no failure and
\* admitted no more than its probes, an open one counts nothing.
Sound(b, adm) ==
    /\ b \in Breaker
    /\ adm \in [Call -> Nat \cup {Idle}]
    /\ \A c \in Call : adm[c] <= b.generation
    /\ b.counts.requests =
           b.counts.successes + b.counts.failures + Cardinality(Of(b, adm))
    /\ b.state = "closed" => b.counts.consecutiveFailures < Settings.tripAt
    /\ b.state = "half-open" => /\ b.counts.failures = 0
                                /\ b.counts.requests <= Settings.maxRequests
    /\ b.state = "open" => b.counts = NoCounts

Inv ==
    /\ Sound(breaker, admitted)
    /\ expired \in BOOLEAN
    /\ code \in [Call -> Code]
    /\ healthy \in BOOLEAN

-----------------------------------------------------------------------------
(* The breaker's functions.                                                *)

\* Clear counts are counts.
LEMMA NoCountsType ==
    /\ NoCounts \in Counts
    /\ NoCounts.requests = 0
    /\ NoCounts.successes = 0
    /\ NoCounts.failures = 0
    /\ NoCounts.consecutiveFailures = 0
BY DEF NoCounts, Counts

\* A new generation is a breaker with clear counts.
LEMMA SetStateType ==
    ASSUME NEW b \in Breaker, NEW s \in State
    PROVE  /\ SetState(b, s) \in Breaker
           /\ SetState(b, s).state = s
           /\ SetState(b, s).generation = b.generation + 1
           /\ SetState(b, s).counts = NoCounts
BY NoCountsType DEF SetState, Breaker

\* A success is added to the counts.
LEMMA SucceededType ==
    ASSUME NEW k \in Counts
    PROVE  /\ Succeeded(k) \in Counts
           /\ Succeeded(k).requests = k.requests
           /\ Succeeded(k).successes = k.successes + 1
           /\ Succeeded(k).failures = k.failures
           /\ Succeeded(k).consecutiveFailures = 0
BY DEF Succeeded, Counts

\* A failure is added to the counts.
LEMMA FailedType ==
    ASSUME NEW k \in Counts
    PROVE  /\ Failed(k) \in Counts
           /\ Failed(k).requests = k.requests
           /\ Failed(k).successes = k.successes
           /\ Failed(k).failures = k.failures + 1
           /\ Failed(k).consecutiveFailures = k.consecutiveFailures + 1
BY DEF Failed, Counts

\* A request is added to the counts.
LEMMA OnRequestType ==
    ASSUME NEW b \in Breaker
    PROVE  /\ OnRequest(b) \in Breaker
           /\ OnRequest(b).state = b.state
           /\ OnRequest(b).generation = b.generation
           /\ OnRequest(b).counts \in Counts
           /\ OnRequest(b).counts.requests = b.counts.requests + 1
           /\ OnRequest(b).counts.successes = b.counts.successes
           /\ OnRequest(b).counts.failures = b.counts.failures
           /\ OnRequest(b).counts.consecutiveFailures = b.counts.consecutiveFailures
BY DEF OnRequest, Breaker, Counts

\* Replacing the counts changes nothing else.
LEMMA WithCountsType ==
    ASSUME NEW b \in Breaker, NEW k \in Counts
    PROVE  /\ [b EXCEPT !.counts = k] \in Breaker
           /\ [b EXCEPT !.counts = k].state = b.state
           /\ [b EXCEPT !.counts = k].generation = b.generation
           /\ [b EXCEPT !.counts = k].counts = k
BY DEF Breaker

-----------------------------------------------------------------------------
(* What they preserve.                                                     *)

\* The slots in a generation are finitely many.
LEMMA OfIsFinite ==
    ASSUME NEW b, NEW adm
    PROVE  IsFiniteSet(Of(b, adm)) /\ Cardinality(Of(b, adm)) \in Nat
<1>1. Of(b, adm) \subseteq Call
  BY DEF Of
<1> QED
  BY <1>1, CallAssumption, FS_Subset, FS_CardinalityType

\* A new generation has no calls and no counts.
LEMMA NewGenerationIsSound ==
    ASSUME NEW b \in Breaker, NEW adm \in [Call -> Nat \cup {Idle}],
           \A c \in Call : adm[c] <= b.generation, NEW s \in State
    PROVE  Sound(SetState(b, s), adm)
<1> DEFINE n == SetState(b, s)
<1>1. /\ n \in Breaker
      /\ n.state = s
      /\ n.generation = b.generation + 1
      /\ n.counts = NoCounts
  BY SetStateType
<1> HIDE DEF n
<1>2. b.generation \in Nat
  BY DEF Breaker
<1>3. \A c \in Call : adm[c] \in Int /\ adm[c] < n.generation
  BY <1>1, <1>2 DEF Idle
<1>4. Of(n, adm) = {}
  BY <1>1, <1>2, <1>3 DEF Of
<1>5. Cardinality(Of(n, adm)) = 0
  BY <1>4, FS_EmptySet
<1>6. Settings.tripAt > 0 /\ Settings.maxRequests >= 0
  BY SettingsAssumption DEF SettingsType
<1>8. \A c \in Call : adm[c] <= n.generation
  BY <1>1, <1>2, <1>3
<1>9. Sound(n, adm)
  BY NoCountsType, <1>1, <1>5, <1>6, <1>8 DEF Sound
<1> QED
  BY <1>9 DEF n

\* Asking for the state may begin a half-open generation.
LEMMA CurrentStateIsSound ==
    ASSUME NEW b, NEW adm, Sound(b, adm), NEW x \in BOOLEAN
    PROVE  Sound(CurrentState(b, x), adm)
<1>1. CASE b.state = "open" /\ x
  <2>1. Sound(SetState(b, "half-open"), adm)
    BY NewGenerationIsSound DEF Sound, State
  <2> QED
    BY <1>1, <2>1 DEF CurrentState
<1>2. CASE ~(b.state = "open" /\ x)
  BY <1>2 DEF CurrentState
<1> QED
  BY <1>1, <1>2

\* An admitted call is counted.
LEMMA InvokeIsSound ==
    ASSUME NEW b, NEW adm, Sound(b, adm), Admits(b),
           NEW c \in Call, adm[c] = Idle
    PROVE  Sound(OnRequest(b), [adm EXCEPT ![c] = b.generation])
<1> DEFINE n == OnRequest(b)
           new == [adm EXCEPT ![c] = b.generation]
<1>1. /\ b \in Breaker
      /\ b.generation \in Nat
      /\ b.counts \in Counts
      /\ b.state \in State
      /\ adm \in [Call -> Nat \cup {Idle}]
  BY DEF Sound, Breaker
<1>2. /\ n \in Breaker
      /\ n.state = b.state
      /\ n.generation = b.generation
      /\ n.counts.requests = b.counts.requests + 1
      /\ n.counts.successes = b.counts.successes
      /\ n.counts.failures = b.counts.failures
      /\ n.counts.consecutiveFailures = b.counts.consecutiveFailures
  BY <1>1, OnRequestType
<1> HIDE DEF n
<1>3. Of(n, new) = Of(b, adm) \cup {c} /\ c \notin Of(b, adm)
  BY <1>1, <1>2 DEF Of, Idle
<1>4. Cardinality(Of(n, new)) = Cardinality(Of(b, adm)) + 1
      /\ Cardinality(Of(b, adm)) \in Nat
  BY <1>3, OfIsFinite, FS_AddElement
<1>5. \A k \in Call : new[k] <= n.generation
  BY <1>1, <1>2 DEF Sound
<1>6. new \in [Call -> Nat \cup {Idle}]
  BY <1>1
<1> HIDE DEF new
<1>7. n.counts.requests = n.counts.successes + n.counts.failures + Cardinality(Of(n, new))
  BY <1>1, <1>2, <1>4 DEF Sound, Counts
<1>8. b.state # "open"
  BY DEF Admits
<1>9. b.state = "half-open" => b.counts.requests + 1 <= Settings.maxRequests
  BY <1>1, SettingsAssumption DEF Admits, Counts, SettingsType
<1>10. Sound(n, new)
  BY <1>2, <1>5, <1>6, <1>7, <1>8, <1>9 DEF Sound
<1> QED
  BY <1>10 DEF n, new

\* The end of a call of this generation is counted, that of any other is
\* dropped.
LEMMA ReturnIsSound ==
    ASSUME NEW b, NEW adm, Sound(b, adm), NEW c \in Call, adm[c] # Idle, NEW r
    PROVE  Sound(AfterRequest(b, adm[c], r), [adm EXCEPT ![c] = Idle])
<1> DEFINE new == [adm EXCEPT ![c] = Idle]
<1>1. /\ b \in Breaker
      /\ b.generation \in Nat
      /\ b.counts \in Counts
      /\ b.state \in State
      /\ adm \in [Call -> Nat \cup {Idle}]
      /\ adm[c] \in Nat
  BY DEF Sound, Breaker
<1>2. new \in [Call -> Nat \cup {Idle}]
  BY <1>1
<1>3. \A k \in Call : new[k] <= b.generation
  BY <1>1 DEF Sound, Idle
<1>4. CASE b.generation # adm[c]
  <2>1. Of(b, new) = Of(b, adm)
    BY <1>1, <1>4 DEF Of, Idle
  <2>2. Sound(b, new)
    BY <1>2, <1>3, <2>1 DEF Sound
  <2> QED
    BY <1>4, <2>2 DEF AfterRequest
<1>5. CASE b.generation = adm[c]
  <2>1. Of(b, new) = Of(b, adm) \ {c} /\ c \in Of(b, adm)
    BY <1>1, <1>5 DEF Of, Idle
  <2>2. Cardinality(Of(b, new)) = Cardinality(Of(b, adm)) - 1
        /\ Cardinality(Of(b, adm)) \in Nat
    BY <2>1, OfIsFinite, FS_RemoveElement
  <2>3. \A s \in State : Sound(SetState(b, s), new)
    BY <1>1, <1>2, <1>3, NewGenerationIsSound
  <2>4. ASSUME NEW k \in Counts,
               k.requests = b.counts.requests,
               k.successes + k.failures = b.counts.successes + b.counts.failures + 1,
               b.state = "closed" => k.consecutiveFailures < Settings.tripAt,
               b.state = "half-open" => k.failures = 0,
               b.state # "open"
        PROVE  Sound([b EXCEPT !.counts = k], new)
    <3> DEFINE n == [b EXCEPT !.counts = k]
    <3>1. n \in Breaker /\ n.state = b.state /\ n.generation = b.generation /\ n.counts = k
      BY <1>1, WithCountsType
    <3> HIDE DEF n, new
    <3>2. Of(n, new) = Of(b, new)
      BY <3>1 DEF Of
    <3>3. k.requests = k.successes + k.failures + Cardinality(Of(n, new))
      BY <1>1, <2>2, <2>4, <3>2 DEF Sound, Counts
    <3>4. Sound(n, new)
      BY <1>2, <1>3, <2>4, <3>1, <3>3 DEF Sound
    <3> QED
      BY <3>4 DEF n
  <2> HIDE DEF new
  <2>5. b.state # "open"
    <3>1. b.state = "open" => Cardinality(Of(b, adm)) = 0
      BY <1>1, <2>2, NoCountsType DEF Sound
    <3>2. Cardinality(Of(b, adm)) # 0
      BY <2>1, OfIsFinite, FS_EmptySet
    <3> QED
      BY <3>1, <3>2
  <2>6. Sound(OnSuccess(b), new)
    <3> DEFINE k == Succeeded(b.counts)
    <3>1. /\ k \in Counts
          /\ k.requests = b.counts.requests
          /\ k.successes = b.counts.successes + 1
          /\ k.failures = b.counts.failures
          /\ k.consecutiveFailures = 0
      BY <1>1, SucceededType
    <3> HIDE DEF k
    <3>2. Sound([b EXCEPT !.counts = k], new)
      <4>1. k.successes + k.failures = b.counts.successes + b.counts.failures + 1
        BY <1>1, <3>1 DEF Counts
      <4>2. 0 < Settings.tripAt
        BY SettingsAssumption DEF SettingsType
      <4>3. b.state = "half-open" => k.failures = 0
        BY <3>1 DEF Sound
      <4> QED
        BY <2>4, <2>5, <3>1, <4>1, <4>2, <4>3
    <3>3. Sound(SetState(b, "closed"), new)
      BY <2>3 DEF State
    <3> QED
      BY <3>2, <3>3 DEF OnSuccess, k
  <2>7. Sound(OnFailure(b), new)
    <3> DEFINE k == Failed(b.counts)
    <3>1. /\ k \in Counts
          /\ k.requests = b.counts.requests
          /\ k.successes = b.counts.successes
          /\ k.failures = b.counts.failures + 1
      BY <1>1, FailedType
    <3> HIDE DEF k
    <3>2. Sound(SetState(b, "open"), new)
      BY <2>3 DEF State
    <3>3. ASSUME b.state # "half-open", ~ReadyToTrip(k)
          PROVE  Sound([b EXCEPT !.counts = k], new)
      <4>1. k.successes + k.failures = b.counts.successes + b.counts.failures + 1
        BY <1>1, <3>1 DEF Counts
      <4>2. k.consecutiveFailures < Settings.tripAt
        BY <3>1, <3>3, SettingsAssumption DEF ReadyToTrip, SettingsType, Counts
      <4> QED
        BY <2>4, <2>5, <3>1, <3>3, <4>1, <4>2
    <3> QED
      BY <3>2, <3>3 DEF OnFailure, k
  <2> QED
    BY <1>5, <2>6, <2>7 DEF AfterRequest, new
<1> QED
  BY <1>4, <1>5

-----------------------------------------------------------------------------
(* The theorems.                                                           *)

\* Every step preserves the invariant.
LEMMA StepPreserves == Inv /\ [Next]_vars => Inv'
<1> SUFFICES ASSUME Inv, [Next]_vars
             PROVE  Inv'
  OBVIOUS
<1> DEFINE b == CurrentState(breaker, expired)
<1>b. Sound(b, admitted)
  BY CurrentStateIsSound DEF Inv
<1> HIDE DEF b
<1>e. ASSUME NEW n, Become(n)
      PROVE  breaker' = n /\ expired' \in BOOLEAN
  BY <1>e DEF Become
<1>1. ASSUME NEW c \in Call, Invoke(c)
      PROVE  Inv'
  <2>1. /\ admitted[c] = Idle
        /\ Admits(b)
        /\ Become(OnRequest(b))
        /\ admitted' = [admitted EXCEPT ![c] = b.generation]
        /\ UNCHANGED <<code, healthy>>
    BY <1>1 DEF Invoke, b
  <2>2. Sound(OnRequest(b), [admitted EXCEPT ![c] = b.generation])
    BY <1>b, <2>1, InvokeIsSound
  <2> QED
    BY <1>e, <2>1, <2>2 DEF Inv
<1>2. ASSUME NEW c \in Call, Reject(c)
      PROVE  Inv'
  BY <1>2, <1>b, <1>e DEF Reject, Inv, b
<1>3. ASSUME NEW c \in Call, Return(c)
      PROVE  Inv'
  <2>1. PICK r \in Reply : /\ Become(AfterRequest(b, admitted[c], r))
                           /\ code' = [code EXCEPT ![c] = r]
    BY <1>3 DEF Return, b
  <2>2. Sound(AfterRequest(b, admitted[c], r), [admitted EXCEPT ![c] = Idle])
    BY <1>3, <1>b, ReturnIsSound DEF Return
  <2>3. code' \in [Call -> Code]
    BY <2>1, ReplyAssumption DEF Inv
  <2> QED
    BY <1>3, <1>e, <2>1, <2>2, <2>3 DEF Return, Inv
<1>4. CASE Expire
  BY <1>4 DEF Expire, Inv
<1>5. CASE Heal
  BY <1>5 DEF Heal, Inv
<1>6. CASE UNCHANGED vars
  BY <1>6 DEF vars, Inv
<1> QED
  BY <1>1, <1>2, <1>3, <1>4, <1>5, <1>6 DEF Next

\* The invariant holds in every reachable state.
THEOREM Invariance == Spec => []Inv
<1>1. Init => Inv
  <2> SUFFICES ASSUME Init
               PROVE  Inv
    OBVIOUS
  <2>1. /\ breaker \in Breaker
        /\ breaker.generation = 0
        /\ breaker.state = "closed"
        /\ breaker.counts = NoCounts
    BY NoCountsType DEF Init, NewCircuitBreaker, Breaker, State
  <2>2. Of(breaker, admitted) = {}
    BY <2>1 DEF Init, Of, Idle
  <2>3. Cardinality(Of(breaker, admitted)) = 0
    BY <2>2, FS_EmptySet
  <2>4. \A c \in Call : admitted[c] <= breaker.generation
    BY <2>1 DEF Init, Idle
  <2>6. admitted \in [Call -> Nat \cup {Idle}]
    BY DEF Init
  <2>7. Settings.tripAt > 0
    BY SettingsAssumption DEF SettingsType
  <2>8. Sound(breaker, admitted)
    BY NoCountsType, <2>1, <2>3, <2>4, <2>6, <2>7 DEF Sound
  <2> QED
    BY <2>8 DEF Init, Inv, Code
<1> QED
  BY <1>1, StepPreserves, PTL DEF Spec

\* Type correctness, with the bound on the failures of a closed breaker.
THEOREM TypeCorrect == Spec => []TypeOK
<1>1. Inv => TypeOK
  BY DEF Inv, Sound, TypeOK
<1> QED
  BY <1>1, Invariance, PTL

\* Every counted request has a result or is in flight in this generation.
THEOREM RequestsAreAccounted == Spec => []Accounted
<1>1. Inv => Accounted
  BY DEF Inv, Sound, Accounted, Current, Of
<1> QED
  BY <1>1, Invariance, PTL

\* A half-open breaker lets at most MaxRequests probes through.
THEOREM ProbesAreBounded == Spec => []ProbesBounded
<1>1. ASSUME Inv
      PROVE  ProbesBounded
  <2>1. /\ breaker.counts \in Counts
        /\ Current = Of(breaker, admitted)
        /\ IsFiniteSet(Current)
        /\ Cardinality(Current) \in Nat
    BY <1>1, OfIsFinite DEF Inv, Sound, Breaker, Current, Of
  <2>2. ASSUME breaker.state = "half-open"
        PROVE  breaker.counts.successes + Cardinality(Current) <= Settings.maxRequests
    BY <1>1, <2>1, <2>2 DEF Inv, Sound, Counts
  <2>3. ASSUME breaker.state = "open"
        PROVE  Current = {}
    <3>1. Cardinality(Current) = 0
      BY <1>1, <2>1, <2>3, NoCountsType DEF Inv, Sound
    <3> QED
      BY <2>1, <3>1, FS_EmptySet
  <2> QED
    BY <2>2, <2>3 DEF ProbesBounded
<1> QED
  BY <1>1, Invariance, PTL

\* With settings that count only infrastructure codes as failures, nothing
\* else opens the breaker.
THEOREM InfrastructureTrips ==
    ASSUME Settings.failures \subseteq Infrastructure
    PROVE  Spec => OnlyInfrastructureTrips
<1>1. Inv /\ [Next]_vars /\ breaker.state # "open" /\ breaker'.state = "open"
        => \E c \in Call : /\ admitted[c] = breaker.generation
                           /\ admitted'[c] = Idle
                           /\ code'[c] \in Infrastructure
  <2> SUFFICES ASSUME Inv, [Next]_vars,
                      breaker.state # "open", breaker'.state = "open"
               PROVE  \E c \in Call : /\ admitted[c] = breaker.generation
                                      /\ admitted'[c] = Idle
                                      /\ code'[c] \in Infrastructure
    OBVIOUS
  <2>0. /\ CurrentState(breaker, expired) = breaker
        /\ breaker \in Breaker
        /\ admitted \in [Call -> Nat \cup {Idle}]
        /\ code \in [Call -> Code]
    BY DEF CurrentState, Inv, Sound
  <2>1. PICK c \in Call : Return(c)
    <3>1. ASSUME NEW c \in Call, Invoke(c)
          PROVE  FALSE
      BY <2>0, <3>1, OnRequestType DEF Invoke, Become
    <3>2. ASSUME NEW c \in Call, Reject(c)
          PROVE  FALSE
      BY <2>0, <3>2 DEF Reject, Become
    <3> QED
      BY <3>1, <3>2 DEF Next, vars, Expire, Heal
  <2>2. PICK r \in Reply : /\ breaker' = AfterRequest(breaker, admitted[c], r)
                           /\ code' = [code EXCEPT ![c] = r]
    BY <2>0, <2>1 DEF Return, Become
  <2>3. admitted[c] = breaker.generation
    BY <2>2 DEF AfterRequest
  <2>4. ~IsSuccessful(r)
    <3>1. OnSuccess(breaker).state # "open"
      <4>1. SetState(breaker, "closed").state = "closed"
        BY <2>0, SetStateType DEF State
      <4>2. Succeeded(breaker.counts) \in Counts
        BY <2>0, SucceededType DEF Breaker
      <4>3. [breaker EXCEPT !.counts = Succeeded(breaker.counts)].state = breaker.state
        BY <2>0, <4>2, WithCountsType
      <4> QED
        BY <4>1, <4>3 DEF OnSuccess
    <3> QED
      BY <2>2, <2>3, <3>1 DEF AfterRequest
  <2>5. code'[c] = r /\ admitted'[c] = Idle
    BY <2>0, <2>1, <2>2 DEF Return
  <2> QED
    BY <2>3, <2>4, <2>5 DEF IsSuccessful
<1> QED
  BY <1>1, Invariance, PTL DEF Spec, OnlyInfrastructureTrips
=============================================================================
