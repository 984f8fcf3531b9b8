--------------------------- MODULE OrderPath_proofs ---------------------------
(***************************************************************************)
(* Proofs about the rate limiter of RateLimiter and about OrderPath, which *)
(* puts it between the gateway and the user service, for any number of     *)
(* callers, any rate, burst, probe, period and setting of the breaker.     *)
(*                                                                         *)
(* The limiter alone keeps its rate over every window. The composition     *)
(* implements it, step by step, and inherits that. Then the composition's  *)
(* type invariant, and what the breaker's probes find in the bucket.       *)
(***************************************************************************)
EXTENDS OrderPath, FiniteSetTheorems, TLAPS

-----------------------------------------------------------------------------
(* The limiter keeps its rate. What is inductive counts the tokens still   *)
(* in the bucket with the requests let through: either can only grow by    *)
(* what the clock pays for.                                                *)

\* What was let through and what still can be.
Paid == admitted + tokens <= Burst + Rate * window

IInv == TypeOK /\ Paid

\* The inductive invariant holds of every reachable state.
THEOREM Invariance == Spec => []IInv
<1> USE LimiterAssumption DEF Least
<1>1. Init => IInv
  <2> SUFFICES ASSUME Init PROVE IInv
    OBVIOUS
  <2>1. \A p \in Probe : Period[p] \in Nat \ {0}
    OBVIOUS
  <2>2. Rate * 0 = 0
    OBVIOUS
  <2>3. TypeOK
    BY <2>1 DEF Init, TypeOK, Code
  <2>4. Paid
    BY <2>2 DEF Init, Paid
  <2> QED
    BY <2>3, <2>4 DEF IInv
<1>2. IInv /\ [Next]_vars => IInv'
  <2> SUFFICES ASSUME IInv, [Next]_vars PROVE IInv'
    OBVIOUS
  <2> USE DEF IInv
  <2>a. \A p \in Probe : Period[p] \in Nat \ {0}
    OBVIOUS
  <2>b. Rate * window \in Nat /\ Rate * 0 = 0
    BY DEF TypeOK
  <2>1. CASE UNCHANGED vars
    BY <2>1 DEF vars, TypeOK, Paid
  <2>2. ASSUME NEW c \in Call, CreateOrder(c) PROVE IInv'
    <3>1. /\ UNCHANGED window
          /\ \/ tokens' = tokens /\ admitted' = admitted
             \/ tokens > 0 /\ tokens' = tokens - 1 /\ admitted' = admitted + 1
      BY <2>2 DEF CreateOrder, Reject, Allow
    <3>2. TypeOK'
      <4>1. call' \in [Call -> Code \cup {"idle", "fetching"}]
        BY <2>2 DEF CreateOrder, TypeOK, Code
      <4>2. UNCHANGED <<due, misses, inService, window>>
        BY <2>2 DEF CreateOrder
      <4>3. tokens' \in 0..Burst /\ admitted' \in Nat
        BY <3>1 DEF TypeOK
      <4> QED
        BY <4>1, <4>2, <4>3 DEF TypeOK
    <3>3. Paid'
      BY <3>1, <2>b DEF Paid, TypeOK
    <3> QED
      BY <3>2, <3>3
  <2>3. ASSUME NEW c \in Call, GetUser(c) PROVE IInv'
    BY <2>3 DEF GetUser, TypeOK, Paid, Code
  <2>4. ASSUME NEW c \in Call, Answer(c) PROVE IInv'
    BY <2>4 DEF Answer, TypeOK, Paid, Code
  <2>5. ASSUME NEW p \in Probe, Check(p) PROVE IInv'
    <3>1. TypeOK'
      BY <2>5, <2>a DEF Check, Allow, Pass, TypeOK
    <3>2. Paid'
      BY <2>5, <2>b DEF Check, Allow, Paid, TypeOK
    <3> QED
      BY <3>1, <3>2
  <2>6. ASSUME NEW p \in Probe, Miss(p) PROVE IInv'
    <3>1. misses' = [misses EXCEPT ![p] = Least(Threshold, misses[p] + 1)]
      BY <2>6 DEF Miss
    <3>2. Least(Threshold, misses[p] + 1) \in 0..Threshold
      BY DEF TypeOK
    <3>3. /\ due' \in [Probe -> Nat]
          /\ \A q \in Probe : due'[q] <= Period[q]
          /\ misses' \in [Probe -> 0..Threshold]
      BY <2>6, <2>a, <3>1, <3>2 DEF Miss, TypeOK
    <3>4. inService' \in BOOLEAN
      BY <2>6 DEF Miss, TypeOK
    <3>5. UNCHANGED <<tokens, call, window, admitted>>
      BY <2>6 DEF Miss, Reject
    <3> QED
      BY <3>3, <3>4, <3>5 DEF TypeOK, Paid
  <2>7. CASE Restart
    <3>1. TypeOK'
      <4>1. call' \in [Call -> Code \cup {"idle", "fetching"}]
        BY <2>7 DEF Restart, TypeOK, Code
      <4>2. /\ due' \in [Probe -> Nat]
            /\ \A q \in Probe : due'[q] <= Period[q]
        <5>1. due' = Period
          BY <2>7 DEF Restart
        <5> QED
          BY <5>1
      <4>3. misses' \in [Probe -> 0..Threshold]
        <5>1. misses' = [p \in Probe |-> 0]
          BY <2>7 DEF Restart
        <5>2. 0 \in 0..Threshold
          OBVIOUS
        <5> QED
          BY <5>1, <5>2
      <4>4. tokens' \in 0..Burst /\ window' \in 0..MaxWindow /\ admitted' \in Nat
        BY <2>7 DEF Restart
      <4>5. inService' \in BOOLEAN
        BY <2>7 DEF Restart
      <4> QED
        BY <4>1, <4>2, <4>3, <4>4, <4>5 DEF TypeOK
    <3>2. Paid'
      BY <2>7, <2>b DEF Restart, Paid
    <3> QED
      BY <3>1, <3>2
  <2>8. CASE Tick
    <3>1. TypeOK'
      <4>1. /\ due' \in [Probe -> Nat]
            /\ \A q \in Probe : due'[q] <= Period[q]
        BY <2>8, <2>a DEF Tick, TypeOK
      <4>2. tokens' \in 0..Burst
        BY <2>8 DEF Tick, Refill, TypeOK
      <4>3. window' \in 0..MaxWindow /\ admitted' \in Nat
        BY <2>8 DEF Tick, TypeOK
      <4> QED
        BY <2>8, <4>1, <4>2, <4>3 DEF Tick, TypeOK
    <3>2. Rate * (window + 1) = Rate * window + Rate
      BY DEF TypeOK
    <3>3. tokens' <= Burst /\ tokens' <= tokens + Rate
      BY <2>8 DEF Tick, Refill, TypeOK
    <3>4. Paid'
      <4>1. CASE window' = window + 1 /\ admitted' = admitted
        <5>1. Rate * window' = Rate * window + Rate
          BY <3>2, <4>1
        <5>2. tokens' \in Int /\ tokens \in Int /\ admitted \in Int
          BY <3>1 DEF TypeOK
        <5>3. admitted + tokens <= Burst + Rate * window
          BY DEF Paid
        <5>4. admitted + tokens' <= Burst + (Rate * window + Rate)
          BY <5>2, <5>3, <3>3, <2>b
        <5> QED
          BY <5>1, <5>4, <4>1 DEF Paid
      <4>2. CASE window' = 0 /\ admitted' = 0
        <5>1. Rate * window' = 0
          BY <2>b, <4>2
        <5>2. tokens' \in Int /\ tokens' <= Burst
          BY <3>1, <3>3 DEF TypeOK
        <5>3. \A t, b \in Int : t <= b => 0 + t <= b + 0
          OBVIOUS
        <5>4. admitted' = 0
          BY <4>2
        <5> QED
          BY <5>1, <5>2, <5>3, <5>4, Burst \in Int DEF Paid
      <4> QED
        BY <2>8, <4>1, <4>2 DEF Tick
    <3> QED
      BY <3>1, <3>4
  <2>9. ASSUME NEW c \in Call, Forget(c) PROVE IInv'
    BY <2>9 DEF Forget, TypeOK, Paid, Code
  <2>10. CASE Straggle
    <3>1. TypeOK'
      BY <2>10 DEF Straggle, Allow, Reject, TypeOK
    <3>2. Paid'
      BY <2>10, <2>b DEF Straggle, Allow, Reject, Paid, TypeOK
    <3> QED
      BY <3>1, <3>2
  <2> QED
    BY <2>1, <2>2, <2>3, <2>4, <2>5, <2>6, <2>7, <2>8, <2>9, <2>10 DEF Next
<1> QED
  BY <1>1, <1>2, PTL DEF Spec

\* The bucket stays between nothing and the burst.
THEOREM TypeCorrect == Spec => []TypeOK
<1>1. IInv => TypeOK
  BY DEF IInv
<1> QED
  BY <1>1, Invariance, PTL

\* No window sees more requests let through than the burst and the rate allow.
THEOREM RateIsKept == Spec => []WithinRate
<1>1. IInv => WithinRate
  <2> SUFFICES ASSUME IInv PROVE WithinRate
    OBVIOUS
  <2>1. Rate * window \in Nat
    BY LimiterAssumption DEF IInv, TypeOK
  <2> QED
    BY <2>1, LimiterAssumption DEF IInv, TypeOK, Paid, WithinRate
<1> QED
  BY <1>1, Invariance, PTL

-----------------------------------------------------------------------------
(* The order path implements the limiter.                                  *)

\* Every step of the order path is a step of the limiter or leaves it alone.
LEMMA StepImplementsLimiter ==
    ASSUME [OrderNext]_orderVars
    PROVE  [Next]_vars
<1>1. ASSUME NEW c \in Call, Refuse(c) \/ Post(c) \/ Unroutable(c)
      PROVE  UNCHANGED vars
  BY <1>1 DEF Refuse, Post, Unroutable, vars
<1>2. ASSUME NEW c \in Call, Deliver(c) \/ HangUp(c)
      PROVE  Answer(c) \/ UNCHANGED vars
  BY <1>2 DEF Deliver, HangUp, Abandon
<1>3. CASE UNCHANGED orderVars
  BY <1>3 DEF orderVars, vars
<1>4. CASE OrderNext
  BY <1>1, <1>2, <1>4 DEF OrderNext, Next, Arrive, FetchUser, TickAll,
     Discard, Stray
<1> QED
  BY <1>3, <1>4

\* The limiter behind the gateway behaves as module RateLimiter says.
THEOREM ImplementsLimiter == OrderSpec => Spec
<1>1. OrderInit => Init
  BY DEF OrderInit
<1>2. [OrderNext]_orderVars => [Next]_vars
  BY StepImplementsLimiter
<1> QED
  BY <1>1, <1>2, PTL DEF OrderSpec, Spec

\* So the gateway's requests and the kubelet's
\* probes together are held to the rate.
THEOREM RateIsKeptBehindGateway == OrderSpec => []WithinRate
  BY ImplementsLimiter, RateIsKept, PTL

-----------------------------------------------------------------------------
(* The breaker's functions return breakers.                                *)

\* Counts are numbers.
LEMMA CountsAreNumbers ==
    ASSUME NEW b \in CB!Breaker
    PROVE  /\ b.generation \in Nat
           /\ b.counts \in CB!Counts
           /\ CB!Succeeded(b.counts) \in CB!Counts
           /\ CB!Failed(b.counts) \in CB!Counts
           /\ CB!NoCounts \in CB!Counts
  BY DEF CB!Breaker, CB!Counts, CB!Succeeded, CB!Failed, CB!NoCounts

\* What Execute does before a call.
LEMMA AskedIsBreaker ==
    ASSUME breaker \in CB!Breaker
    PROVE  Asked \in CB!Breaker /\ CB!OnRequest(Asked) \in CB!Breaker
<1>1. Asked \in CB!Breaker
  BY CountsAreNumbers DEF Asked, CB!CurrentState, CB!SetState, CB!Breaker,
     CB!State
<1>2. CB!OnRequest(Asked) \in CB!Breaker
  BY <1>1 DEF CB!OnRequest, CB!Breaker, CB!Counts
<1> QED
  BY <1>1, <1>2

\* What it does after one.
LEMMA AfterRequestIsBreaker ==
    ASSUME NEW b \in CB!Breaker, NEW before, NEW code
    PROVE  CB!AfterRequest(b, before, code) \in CB!Breaker
<1>1. \A k \in CB!Counts : [b EXCEPT !.counts = k] \in CB!Breaker
  BY DEF CB!Breaker
<1>2. \A s \in CB!State : CB!SetState(b, s) \in CB!Breaker
  BY CountsAreNumbers DEF CB!SetState, CB!Breaker
<1>3. CB!OnSuccess(b) \in CB!Breaker
  BY <1>1, <1>2, CountsAreNumbers DEF CB!OnSuccess, CB!State
<1>4. CB!OnFailure(b) \in CB!Breaker
  BY <1>1, <1>2, CountsAreNumbers DEF CB!OnFailure, CB!State
<1> QED
  BY <1>3, <1>4 DEF CB!AfterRequest

\* The composition keeps a breaker of generation 0.
LEMMA NormalIsBreaker ==
    ASSUME NEW b \in CB!Breaker
    PROVE  Normal(b) \in CB!Breaker /\ Normal(b).generation = 0
<1>1. b.counts \in CB!Counts /\ b.counts.consecutiveFailures \in Nat
  BY DEF CB!Breaker, CB!Counts
<1>2. [CB!NoCounts EXCEPT !.consecutiveFailures = b.counts.consecutiveFailures]
          \in CB!Counts
  BY <1>1 DEF CB!NoCounts, CB!Counts
<1> QED
  BY <1>1, <1>2 DEF Normal, CB!Breaker

\* Whatever breaker it becomes.
LEMMA BecomeTypes ==
    ASSUME NEW b \in CB!Breaker, NEW c \in Call, Become(b, c), pause \in 0..Pause
    PROVE  /\ breaker' \in CB!Breaker
           /\ breaker'.generation = 0
           /\ stale' \in [Call -> BOOLEAN]
           /\ pause' \in 0..Pause
<1>1. Pause \in Nat
  BY GatewayAssumption
<1>2. breaker' \in CB!Breaker /\ breaker'.generation = 0
  BY NormalIsBreaker DEF Become
<1>3. pause' \in 0..Pause
  BY <1>1 DEF Become
<1>4. stale' \in [Call -> BOOLEAN]
  <2>1. \A d \in Call : (d # c /\ (stale[d] \/ b.generation # 0)) \in BOOLEAN
    OBVIOUS
  <2> QED
    BY <2>1 DEF Become
<1> QED
  BY <1>2, <1>3, <1>4

-----------------------------------------------------------------------------
(* The type invariant.                                                     *)

\* The end of an RPC for the gateway.
LEMMA EndsTypes ==
    ASSUME GatewayTypeOK, NEW c \in Call, NEW code, Ends(c, code)
    PROVE  /\ breaker' \in CB!Breaker
           /\ breaker'.generation = 0
           /\ stale' \in [Call -> BOOLEAN]
           /\ pause' \in 0..Pause
           /\ sent' \in [Call -> BOOLEAN]
           /\ sent[c] /\ ~sent'[c]
           /\ \A d \in Call \ {c} : sent'[d] = sent[d]
<1>1. Asked \in CB!Breaker
  BY AskedIsBreaker DEF GatewayTypeOK
<1>2. CB!AfterRequest(Asked, IF stale[c] THEN -1 ELSE 0, code) \in CB!Breaker
  BY <1>1, AfterRequestIsBreaker
<1>3. Become(CB!AfterRequest(Asked, IF stale[c] THEN -1 ELSE 0, code), c)
  BY DEF Ends
<1>4. pause \in 0..Pause
  BY DEF GatewayTypeOK
<1>5. /\ sent' \in [Call -> BOOLEAN]
      /\ sent[c] /\ ~sent'[c]
      /\ \A d \in Call \ {c} : sent'[d] = sent[d]
  BY DEF Ends, GatewayTypeOK
<1> HIDE DEF Become
<1>6. /\ breaker' \in CB!Breaker
      /\ breaker'.generation = 0
      /\ stale' \in [Call -> BOOLEAN]
      /\ pause' \in 0..Pause
  BY <1>2, <1>3, <1>4, BecomeTypes
<1> QED
  BY <1>5, <1>6

\* Every step keeps it.
LEMMA OrderStepPreserves ==
    ASSUME TypeOK, TypeOK', GatewayTypeOK, [OrderNext]_orderVars
    PROVE  GatewayTypeOK'
<1> USE DEF GatewayTypeOK, cancelled
<1>1. CASE UNCHANGED orderVars
  BY <1>1 DEF orderVars, vars, gateway
<1>2. ASSUME NEW c \in Call, Refuse(c) PROVE GatewayTypeOK'
  <2>1. Become(Asked, c) /\ UNCHANGED <<vars, sent, cancelled>>
    BY <1>2 DEF Refuse
  <2>2. Asked \in CB!Breaker
    BY AskedIsBreaker
  <2>3. /\ breaker' \in CB!Breaker
        /\ breaker'.generation = 0
        /\ stale' \in [Call -> BOOLEAN]
        /\ pause' \in 0..Pause
    BY <2>1, <2>2, BecomeTypes
  <2> QED
    BY <2>1, <2>3 DEF vars
<1>3. ASSUME NEW c \in Call, Post(c) PROVE GatewayTypeOK'
  <2>1. /\ ~sent[c]
        /\ call[c] = "idle"
        /\ Become(CB!OnRequest(Asked), c)
        /\ sent' = [sent EXCEPT ![c] = TRUE]
        /\ UNCHANGED <<vars, cancelled>>
    BY <1>3 DEF Post
  <2>2. CB!OnRequest(Asked) \in CB!Breaker
    BY AskedIsBreaker
  <2>3. /\ breaker' \in CB!Breaker
        /\ breaker'.generation = 0
        /\ stale' \in [Call -> BOOLEAN]
        /\ pause' \in 0..Pause
    BY <2>1, <2>2, BecomeTypes
  <2> QED
    BY <2>1, <2>3 DEF vars
<1>4. ASSUME NEW c \in Call, Unroutable(c) PROVE GatewayTypeOK'
  <2>1. Ends(c, "Unavailable") /\ call[c] = "idle" /\ UNCHANGED <<vars, cancelled>>
    BY <1>4 DEF Unroutable
  <2> HIDE DEF GatewayTypeOK
  <2>2. /\ breaker' \in CB!Breaker
        /\ breaker'.generation = 0
        /\ stale' \in [Call -> BOOLEAN]
        /\ pause' \in 0..Pause
        /\ sent' \in [Call -> BOOLEAN]
        /\ sent[c] /\ ~sent'[c]
        /\ \A d \in Call \ {c} : sent'[d] = sent[d]
    BY <2>1, EndsTypes
  <2> QED
    BY <2>1, <2>2 DEF vars, GatewayTypeOK
<1>5. ASSUME NEW c \in Call, Deliver(c) PROVE GatewayTypeOK'
  <2>1. Ends(c, call[c]) /\ Answer(c) /\ UNCHANGED cancelled
    BY <1>5 DEF Deliver
  <2>2. /\ call' = [call EXCEPT ![c] = "idle"]
        /\ call \in [Call -> Code \cup {"idle", "fetching"}]
    BY <2>1 DEF Answer, TypeOK
  <2> HIDE DEF GatewayTypeOK
  <2>3. /\ breaker' \in CB!Breaker
        /\ breaker'.generation = 0
        /\ stale' \in [Call -> BOOLEAN]
        /\ pause' \in 0..Pause
        /\ sent' \in [Call -> BOOLEAN]
        /\ sent[c] /\ ~sent'[c]
        /\ \A d \in Call \ {c} : sent'[d] = sent[d]
    BY <2>1, EndsTypes
  <2> QED
    BY <2>1, <2>2, <2>3 DEF GatewayTypeOK
<1>6. ASSUME NEW c \in Call, HangUp(c) PROVE GatewayTypeOK'
  <2>1. Ends(c, "Canceled") /\ Abandon(c)
    BY <1>6 DEF HangUp
  <2> HIDE DEF GatewayTypeOK
  <2>2. /\ breaker' \in CB!Breaker
        /\ breaker'.generation = 0
        /\ stale' \in [Call -> BOOLEAN]
        /\ pause' \in 0..Pause
        /\ sent' \in [Call -> BOOLEAN]
        /\ sent[c] /\ ~sent'[c]
        /\ \A d \in Call \ {c} : sent'[d] = sent[d]
    BY <2>1, EndsTypes
  <2>3. CASE call[c] = "idle" /\ UNCHANGED <<vars, orphan>>
             /\ (stray' = stray \/ (stray < MaxStray /\ stray' = stray + 1))
    <3>1. stray' \in 0..MaxStray
      BY <2>3, GatewayAssumption DEF GatewayTypeOK
    <3> QED
      BY <2>2, <2>3, <3>1 DEF vars, GatewayTypeOK
  <2>4. CASE call[c] = "fetching" /\ orphan' = [orphan EXCEPT ![c] = TRUE]
             /\ UNCHANGED <<vars, stray>>
    BY <2>2, <2>4 DEF vars, GatewayTypeOK
  <2>5. CASE Answer(c) /\ UNCHANGED cancelled
    <3>1. call' = [call EXCEPT ![c] = "idle"] /\ ~orphan[c]
      BY <2>2, <2>5 DEF Answer, GatewayTypeOK
    <3>2. call \in [Call -> Code \cup {"idle", "fetching"}]
      BY DEF TypeOK
    <3> QED
      BY <2>2, <2>5, <3>1, <3>2 DEF GatewayTypeOK
  <2> QED
    BY <2>1, <2>3, <2>4, <2>5 DEF Abandon
<1>7. ASSUME NEW c \in Call, Arrive(c) PROVE GatewayTypeOK'
  <2>1. /\ sent[c] /\ call[c] = "idle"
        /\ UNCHANGED <<gateway, cancelled>>
        /\ \/ call' = [call EXCEPT ![c] = "ResourceExhausted"]
           \/ call' = [call EXCEPT ![c] = "InvalidArgument"]
           \/ call' = [call EXCEPT ![c] = "fetching"]
    BY <1>7 DEF Arrive, CreateOrder
  <2> QED
    BY <2>1 DEF gateway, TypeOK
<1>8. ASSUME NEW c \in Call, FetchUser(c) PROVE GatewayTypeOK'
  <2>1. /\ call[c] = "fetching"
        /\ UNCHANGED <<gateway, cancelled>>
        /\ \/ call' = [call EXCEPT ![c] = "OK"]
           \/ call' = [call EXCEPT ![c] = "Internal"]
    BY <1>8 DEF FetchUser, GetUser
  <2> QED
    BY <2>1 DEF gateway, TypeOK
<1>9. ASSUME NEW c \in Call, Discard(c) PROVE GatewayTypeOK'
  <2>1. /\ orphan[c]
        /\ orphan' = [orphan EXCEPT ![c] = FALSE]
        /\ call' = [call EXCEPT ![c] = "idle"]
        /\ UNCHANGED <<gateway, stray>>
    BY <1>9 DEF Discard, Forget
  <2> QED
    BY <2>1 DEF gateway, TypeOK
<1>10. ASSUME NEW p \in Probe, Check(p) \/ Miss(p), UNCHANGED <<gateway, cancelled>>
       PROVE  GatewayTypeOK'
  <2>1. UNCHANGED call
    BY <1>10 DEF Check, Miss
  <2> QED
    BY <1>10, <2>1 DEF gateway
<1>11. CASE Restart /\ UNCHANGED <<gateway, cancelled>>
  <2>1. \A c \in Call : (call'[c] = "idle") <=> (call[c] = "idle")
    BY <1>11 DEF Restart
  <2> QED
    BY <1>11, <2>1 DEF gateway
<1>12. CASE TickAll
  <2>1. /\ UNCHANGED <<sent, stale, breaker, cancelled, call>>
        /\ pause' = IF pause = 0 THEN 0 ELSE pause - 1
    BY <1>12 DEF TickAll, Tick
  <2>2. pause' \in 0..Pause
    BY <2>1, GatewayAssumption
  <2> QED
    BY <2>1, <2>2
<1>13. CASE Stray
  <2>1. /\ stray > 0 /\ stray' = stray - 1
        /\ UNCHANGED <<gateway, orphan, call>>
    BY <1>13 DEF Stray, Straggle, vars
  <2>2. stray' \in 0..MaxStray
    BY <2>1, GatewayAssumption
  <2> QED
    BY <2>1, <2>2 DEF gateway
<1> QED
  BY <1>1, <1>2, <1>3, <1>4, <1>5, <1>6, <1>7, <1>8, <1>9, <1>10, <1>11, <1>12,
     <1>13 DEF OrderNext

\* No handler is forgotten: whatever runs in the order service serves a client
\* that waits at the gateway or one that has hung up, never both.
THEOREM OrderTypeCorrect == OrderSpec => []OrderTypeOK
<1>1. OrderInit => GatewayTypeOK
  <2> SUFFICES ASSUME OrderInit PROVE GatewayTypeOK
    OBVIOUS
  <2>1. CB!NewCircuitBreaker \in CB!Breaker /\ CB!NewCircuitBreaker.generation = 0
    BY DEF CB!NewCircuitBreaker, CB!Breaker, CB!State, CB!NoCounts, CB!Counts
  <2>2. 0 \in 0..Pause /\ 0 \in 0..MaxStray
    BY GatewayAssumption
  <2> QED
    BY <2>1, <2>2 DEF OrderInit, GatewayTypeOK, Init
<1>2. TypeOK /\ TypeOK' /\ GatewayTypeOK /\ [OrderNext]_orderVars => GatewayTypeOK'
  BY OrderStepPreserves
<1>3. OrderSpec => []TypeOK
  BY ImplementsLimiter, TypeCorrect, PTL
<1>4. TypeOK /\ GatewayTypeOK => OrderTypeOK
  BY DEF OrderTypeOK
<1> QED
  BY <1>1, <1>2, <1>3, <1>4, PTL DEF OrderSpec

-----------------------------------------------------------------------------
(* The breaker's probes find tokens. While the breaker is open the only    *)
(* requests that can still take a token are those that were on their way   *)
(* and the kubelet's; the rate outruns them, and by the timeout there is   *)
(* one token for each of them and for every probe of the breaker.          *)

\* Requests that the gateway has sent and the limiter has not seen.
OnTheWay == { c \in Call : sent[c] /\ call[c] = "idle" }

\* Those, and the ones whose clients have hung up since.
Pending == Cardinality(OnTheWay) + stray

\* There are no more than these.
Most == Cardinality(Call) + MaxStray

\* Kubelet's probes that take their token before time passes.
Due == { p \in Probe : due[p] = 0 }

\* What t units of time bring at least, once the kubelet's probes and the
\* requests on their way have had theirs.
Brought(t) == t * (Rate - Cardinality(Probe)) - (Most - 1)

\* An open breaker: the request that opened it is not on its way, and the
\* bucket is filling.
Filling ==
    breaker.state = "open" =>
        /\ Pending <= Most - 1
        /\ pause < Pause =>
               tokens - Pending - Cardinality(Due)
                   >= Least(Settings.maxRequests, Brought(Pause - pause))

\* A half-open one: a token for each request on its way, each kubelet's probe
\* that is due and each probe the breaker has still to admit.
Reserved ==
    breaker.state = "half-open" =>
        /\ breaker.counts.requests <= Settings.maxRequests
        /\ Pending <= Most - 1 + breaker.counts.requests
        /\ tokens >= Pending + Cardinality(Due)
                        + (Settings.maxRequests - breaker.counts.requests)

Spared == Filling /\ Reserved /\ ProbesSpared

\* The bucket holds a token for every client but one, every request of a client
\* that has hung up, every probe of the breaker and every probe of the kubelet,
\* and the breaker's timeout is long enough for the rate to bring those of the
\* first three.
RoomForProbes ==
    /\ IsFiniteSet(Call)
    /\ Most - 1 + Settings.maxRequests + Cardinality(Probe) <= Burst
    /\ Most - 1 + Settings.maxRequests
           <= Pause * (Rate - Cardinality(Probe))

\* The constants' types, and the rate is at least the kubelet's.
LEMMA RoomTypes ==
    ASSUME RoomForProbes
    PROVE  /\ Cardinality(Call) \in Nat
           /\ MaxStray \in Nat
           /\ Most \in Nat
           /\ IsFiniteSet(Probe)
           /\ Cardinality(Probe) \in Nat
           /\ Settings.maxRequests \in Nat \ {0}
           /\ Pause \in Nat \ {0}
           /\ Rate \in Nat \ {0}
           /\ Burst \in Nat \ {0}
           /\ Rate >= Cardinality(Probe)
<1>1. Cardinality(Call) \in Nat
  BY FS_CardinalityType DEF RoomForProbes
<1>2. IsFiniteSet({"readiness", "liveness"})
  <2>1. IsFiniteSet({"readiness"})
    BY FS_Singleton
  <2>2. IsFiniteSet({"readiness"} \cup {"liveness"})
    BY <2>1, FS_AddElement
  <2>3. {"readiness", "liveness"} = {"readiness"} \cup {"liveness"}
    OBVIOUS
  <2> QED
    BY <2>2, <2>3
<1>3. IsFiniteSet(Probe)
  BY <1>2, FS_Subset, LimiterAssumption
<1>4. Cardinality(Probe) \in Nat
  BY <1>3, FS_CardinalityType
<1>5. Settings.maxRequests \in Nat \ {0}
  BY GatewayAssumption DEF CB!SettingsType
<1>6. /\ Pause \in Nat \ {0}
      /\ Rate \in Nat \ {0}
      /\ Burst \in Nat \ {0}
  BY LimiterAssumption, GatewayAssumption
<1>7. MaxStray \in Nat /\ Most \in Nat
  BY <1>1, GatewayAssumption DEF Most
<1>8. ASSUME Rate < Cardinality(Probe)
      PROVE  FALSE
  <2>1. \A a, b \in Int : a >= 1 /\ b <= -1 => a * b <= -1
    OBVIOUS
  <2>2. Rate - Cardinality(Probe) <= -1
    BY <1>4, <1>6, <1>8
  <2>3. Pause * (Rate - Cardinality(Probe)) <= -1
    BY <2>1, <2>2, <1>4, <1>6
  <2>4. Most - 1 + Settings.maxRequests
            <= Pause * (Rate - Cardinality(Probe))
    BY DEF RoomForProbes
  <2> DEFINE x == Pause * (Rate - Cardinality(Probe))
  <2>5. x \in Int
    BY <1>4, <1>6
  <2> HIDE DEF x
  <2> QED
    BY <2>3, <2>4, <2>5, <1>7, <1>5 DEF x
<1> QED
  BY <1>1, <1>3, <1>4, <1>5, <1>6, <1>7, <1>8

\* The counts of Spared are numbers.
LEMMA CountTypes ==
    ASSUME RoomForProbes, GatewayTypeOK, GatewayTypeOK'
    PROVE  /\ IsFiniteSet(OnTheWay)
           /\ Cardinality(OnTheWay) \in 0..Cardinality(Call)
           /\ Cardinality(OnTheWay') \in 0..Cardinality(Call)
           /\ stray \in 0..MaxStray
           /\ stray' \in 0..MaxStray
           /\ Pending \in Nat
           /\ Pending' \in Nat
           /\ IsFiniteSet(Due)
           /\ Cardinality(Due) \in 0..Cardinality(Probe)
           /\ Cardinality(Due') \in 0..Cardinality(Probe)
<1>1. IsFiniteSet(Call) /\ IsFiniteSet(Probe)
  BY RoomTypes DEF RoomForProbes
<1>2. OnTheWay \in SUBSET Call /\ OnTheWay' \in SUBSET Call
  BY DEF OnTheWay
<1>3. Due \in SUBSET Probe /\ Due' \in SUBSET Probe
  BY DEF Due
<1>4. /\ IsFiniteSet(OnTheWay) /\ Cardinality(OnTheWay) <= Cardinality(Call)
      /\ IsFiniteSet(OnTheWay') /\ Cardinality(OnTheWay') <= Cardinality(Call)
      /\ IsFiniteSet(Due) /\ Cardinality(Due) <= Cardinality(Probe)
      /\ IsFiniteSet(Due') /\ Cardinality(Due') <= Cardinality(Probe)
  BY <1>1, <1>2, <1>3, FS_Subset
<1>5. /\ IsFiniteSet(OnTheWay)
      /\ Cardinality(OnTheWay) \in 0..Cardinality(Call)
      /\ Cardinality(OnTheWay') \in 0..Cardinality(Call)
      /\ IsFiniteSet(Due)
      /\ Cardinality(Due) \in 0..Cardinality(Probe)
      /\ Cardinality(Due') \in 0..Cardinality(Probe)
  BY <1>1, <1>4, FS_CardinalityType
<1>6. stray \in 0..MaxStray /\ stray' \in 0..MaxStray /\ MaxStray \in Nat
  BY RoomTypes DEF GatewayTypeOK
<1>7. Pending \in Nat /\ Pending' \in Nat
  BY <1>5, <1>6, RoomTypes DEF Pending
<1> QED
  BY <1>5, <1>6, <1>7

\* A request that is not on its way any more, or never was, or whose client has
\* hung up.
LEMMA OffTheWay ==
    ASSUME RoomForProbes, GatewayTypeOK, GatewayTypeOK',
           NEW c \in Call, OnTheWay' = OnTheWay \ {c},
           \/ stray' = stray
           \/ c \in OnTheWay /\ stray' = stray + 1
    PROVE  /\ Pending' <= Pending
           /\ Pending' <= Most - 1
           /\ c \in OnTheWay /\ stray' = stray => Pending' = Pending - 1
<1>1. IsFiniteSet(Call)
  BY DEF RoomForProbes
<1>2. OnTheWay' \in SUBSET (Call \ {c})
  BY DEF OnTheWay
<1>3. IsFiniteSet(Call \ {c}) /\ Cardinality(Call \ {c}) = Cardinality(Call) - 1
  BY <1>1, FS_RemoveElement
<1>4. Cardinality(OnTheWay') <= Cardinality(Call) - 1
  BY <1>2, <1>3, FS_Subset
<1>5. Cardinality(OnTheWay') = IF c \in OnTheWay THEN Cardinality(OnTheWay) - 1
                               ELSE Cardinality(OnTheWay)
  BY CountTypes, FS_RemoveElement
<1> QED
  BY <1>4, <1>5, CountTypes, RoomTypes DEF Pending, Most

\* What the breaker becomes.
LEMMA Becoming ==
    ASSUME NEW b \in CB!Breaker, NEW c \in Call, Become(b, c)
    PROVE  /\ breaker'.state = b.state
           /\ b.state = "half-open" =>
                  breaker'.counts.requests = b.counts.requests
           /\ pause' = IF b.state = "open" /\ b.generation # 0 THEN Pause ELSE pause
           /\ \A d \in Call : stale'[d] <=> d # c /\ (stale[d] \/ b.generation # 0)
BY DEF Become, Normal, CB!Breaker

\* How Execute finds the breaker.
LEMMA AskedWays ==
    ASSUME GatewayTypeOK
    PROVE  \/ Asked = breaker /\ (breaker.state = "open" => pause # 0)
           \/ /\ breaker.state = "open"
              /\ pause = 0
              /\ Asked.state = "half-open"
              /\ Asked.generation = 1
              /\ Asked.counts.requests = 0
BY DEF Asked, CB!CurrentState, CB!SetState, CB!NoCounts, GatewayTypeOK

\* The breaker after a request ended. It is closed, or just opened, or still
\* open; or half-open since this moment, or still.
LEMMA EndsWays ==
    ASSUME GatewayTypeOK, NEW c \in Call, NEW code, Ends(c, code)
    PROVE  \/ breaker'.state = "closed"
           \/ breaker'.state = "open" /\ pause' = Pause
           \/ /\ breaker'.state = "open" /\ breaker.state = "open"
              /\ pause' = pause
           \/ /\ breaker'.state = "half-open" /\ breaker'.counts.requests = 0
              /\ breaker.state = "open" /\ pause = 0
              /\ \A d \in Call \ {c} : stale'[d]
           \/ /\ breaker'.state = "half-open" /\ breaker.state = "half-open"
              /\ breaker'.counts.requests = breaker.counts.requests
              /\ \A d \in Call \ {c} : stale'[d] <=> stale[d]
<1> DEFINE before == IF stale[c] THEN -1 ELSE 0
           after == CB!AfterRequest(Asked, before, code)
<1>1. Become(after, c)
  BY DEF Ends
<1>2. Asked \in CB!Breaker /\ breaker \in CB!Breaker /\ breaker.generation = 0
  BY AskedIsBreaker DEF GatewayTypeOK
<1>3. after \in CB!Breaker
  BY <1>2, AfterRequestIsBreaker
<1>4. CASE Asked.generation # 0
  <2>1. Asked.generation # before
    BY <1>4, AskedWays, <1>2
  <2>2. after = Asked
    BY <2>1 DEF CB!AfterRequest
  <2> QED
    BY <1>1, <1>2, <1>4, <2>2, AskedWays, Becoming
<1>5. CASE Asked.generation = 0
  <2>1. Asked = breaker
    BY <1>5, AskedWays
  <2>2. \/ after = Asked
        \/ after = CB!OnSuccess(Asked)
        \/ after = CB!OnFailure(Asked)
    BY DEF CB!AfterRequest
  <2>3. \/ after = breaker
        \/ after.state = "closed"
        \/ after.state = "open" /\ after.generation = 1
        \/ /\ after.state = breaker.state
           /\ after.generation = 0
           /\ after.counts.requests = breaker.counts.requests
    <3>1. \A s : /\ CB!SetState(breaker, s).state = s
                 /\ CB!SetState(breaker, s).generation = 1
      BY <1>2 DEF CB!SetState
    <3>2. /\ CB!Succeeded(breaker.counts).requests = breaker.counts.requests
          /\ CB!Failed(breaker.counts).requests = breaker.counts.requests
      BY DEF CB!Succeeded, CB!Failed
    <3>3. \A k : LET b == [breaker EXCEPT !.counts = k] IN
                 b.state = breaker.state /\ b.generation = 0 /\ b.counts = k
      BY <1>2 DEF CB!Breaker
    <3>4. \/ CB!OnSuccess(breaker) = CB!SetState(breaker, "closed")
          \/ CB!OnSuccess(breaker) =
                 [breaker EXCEPT !.counts = CB!Succeeded(breaker.counts)]
      BY DEF CB!OnSuccess
    <3>5. \/ CB!OnFailure(breaker) = CB!SetState(breaker, "open")
          \/ CB!OnFailure(breaker) =
                 [breaker EXCEPT !.counts = CB!Failed(breaker.counts)]
      BY DEF CB!OnFailure
    <3>6. \/ CB!OnSuccess(breaker) = CB!SetState(breaker, "closed")
          \/ /\ CB!OnSuccess(breaker).state = breaker.state
             /\ CB!OnSuccess(breaker).generation = 0
             /\ CB!OnSuccess(breaker).counts.requests = breaker.counts.requests
      BY <3>2, <3>3, <3>4
    <3>7. \/ CB!OnFailure(breaker) = CB!SetState(breaker, "open")
          \/ /\ CB!OnFailure(breaker).state = breaker.state
             /\ CB!OnFailure(breaker).generation = 0
             /\ CB!OnFailure(breaker).counts.requests = breaker.counts.requests
      BY <3>2, <3>3, <3>5
    <3> HIDE DEF after
    <3> QED
      BY <2>1, <2>2, <3>1, <3>6, <3>7
  <2> HIDE DEF after
  <2>4. \/ after.state = "closed"
        \/ after.state = "open" /\ after.generation = 1
        \/ /\ after.state = breaker.state
           /\ after.generation = 0
           /\ after.counts.requests = breaker.counts.requests
    BY <2>3, <1>2
  <2>5. after.state \in CB!State
    BY <1>3 DEF CB!Breaker
  <2> QED
    BY <1>1, <1>3, <2>4, <2>5, Becoming DEF CB!State
<1> QED
  BY <1>4, <1>5

\* The end of a request takes no token, and leaves one request less.
LEMMA EndsSpares ==
    ASSUME RoomForProbes, TypeOK, GatewayTypeOK, GatewayTypeOK', Spared,
           NEW c \in Call, NEW code, Ends(c, code),
           UNCHANGED <<tokens, due>>,
           \A d \in Call \ {c} : call'[d] = call[d],
           stray' = stray \/ (c \in OnTheWay /\ stray' = stray + 1)
    PROVE  Spared'
<1> DEFINE w == Pending
           v == Pending'
           k == Cardinality(Due)
           n == Most
           max == Settings.maxRequests
<1>1. sent[c] /\ ~sent'[c] /\ \A d \in Call \ {c} : sent'[d] = sent[d]
  BY DEF Ends, GatewayTypeOK
<1>2. OnTheWay' = OnTheWay \ {c}
  BY <1>1 DEF OnTheWay
<1>3. v <= w /\ v <= n - 1
  BY <1>2, OffTheWay
<1>4. k' = k /\ tokens' = tokens
  BY DEF Due
<1>5. w \in Nat /\ v \in Nat /\ k \in Nat /\ n \in Nat /\ max \in Nat /\ tokens \in Nat
  BY CountTypes, RoomTypes DEF TypeOK
<1>6. Pause \in Nat \ {0} /\ pause \in 0..Pause
  BY RoomTypes DEF GatewayTypeOK
<1> HIDE DEF w, v, k, n, max
<1>7. CASE breaker'.state = "closed"
  BY <1>7 DEF Spared, Filling, Reserved, ProbesSpared
<1>8. CASE breaker'.state = "open" /\ pause' = Pause
  BY <1>3, <1>6, <1>8 DEF Spared, Filling, Reserved, ProbesSpared, w, v, n
<1>9. CASE breaker'.state = "open" /\ breaker.state = "open" /\ pause' = pause
  <2>1. pause < Pause =>
            tokens - w - k >= Least(max, Brought(Pause - pause))
    BY <1>9 DEF Spared, Filling, w, v, k, max
  <2> DEFINE least == Least(max, Brought(Pause - pause))
  <2>2. least \in Int
    BY <1>5, <1>6, RoomTypes DEF Least, Brought
  <2>3. Brought(Pause - pause)' = Brought(Pause - pause)
    BY <1>9 DEF Brought
  <2> HIDE DEF least
  <2>4. pause < Pause => tokens' - v - k' >= least
    BY <2>1, <2>2, <1>3, <1>4, <1>5 DEF least
  <2>5. Filling'
    BY <2>4, <2>3, <1>3, <1>9 DEF Filling, least, w, v, k, max, n, Least
  <2> QED
    BY <2>5, <1>9 DEF Spared, Reserved, ProbesSpared
<1>10. CASE /\ breaker'.state = "half-open" /\ breaker'.counts.requests = 0
            /\ breaker.state = "open" /\ pause = 0
            /\ \A d \in Call \ {c} : stale'[d]
  <2>1. tokens - w - k >= Least(max, Brought(Pause))
    BY <1>10, <1>6 DEF Spared, Filling, w, v, k, max
  <2>2. max <= Brought(Pause) /\ Brought(Pause) \in Int
    BY RoomTypes DEF RoomForProbes, Brought, max
  <2>3. tokens - w - k >= max
    BY <2>1, <2>2, <1>5 DEF Least
  <2>4. Reserved'
    BY <2>3, <1>3, <1>4, <1>5, <1>10 DEF Reserved, w, v, k, max, n
  <2>5. ProbesSpared'
    BY <1>1, <1>10 DEF ProbesSpared
  <2> QED
    BY <2>4, <2>5, <1>10 DEF Spared, Filling
<1>11. CASE /\ breaker'.state = "half-open" /\ breaker.state = "half-open"
            /\ breaker'.counts.requests = breaker.counts.requests
            /\ \A d \in Call \ {c} : stale'[d] <=> stale[d]
  <2> DEFINE requests == breaker.counts.requests
  <2>1. requests \in Nat
    BY DEF GatewayTypeOK, CB!Breaker, CB!Counts
  <2>2. /\ requests <= max
        /\ w <= n - 1 + requests
        /\ tokens >= w + k + (max - requests)
    BY <1>11 DEF Spared, Reserved, w, v, k, n, max
  <2>3. Reserved'
    <3> HIDE DEF requests
    <3>1. v <= n - 1 + requests
      BY <2>1, <2>2, <1>3, <1>5
    <3>2. tokens >= v + k + (max - requests)
      BY <2>1, <2>2, <1>3, <1>5
    <3>3. tokens' >= v + k' + (max - requests)
      BY <3>2, <1>4
    <3> QED
      BY <3>1, <3>3, <2>2, <1>11 DEF Reserved, w, v, k, n, max, requests
  <2>4. ProbesSpared'
    BY <1>1, <1>11 DEF Spared, ProbesSpared
  <2> QED
    BY <2>3, <2>4, <1>11 DEF Spared, Filling
<1> QED
  BY EndsWays, <1>7, <1>8, <1>9, <1>10, <1>11

\* A step takes no more tokens than there were requests and kubelet's probes
\* that it was to be expected from.
Expected ==
    /\ Pending' <= Pending
    /\ tokens' - Pending' - Cardinality(Due')
           >= tokens - Pending - Cardinality(Due)

\* Such a step spares what was spared.
LEMMA PaidForSpares ==
    ASSUME RoomForProbes, TypeOK, TypeOK', GatewayTypeOK, GatewayTypeOK', Spared,
           breaker'.state = breaker.state,
           breaker'.counts.requests = breaker.counts.requests \/
               breaker.state # "half-open",
           pause' = pause, Expected, ProbesSpared'
    PROVE  Spared'
<1> DEFINE w == Pending
           v == Pending'
           u == tokens'
           k == Cardinality(Due)
           j == Cardinality(Due')
           n == Most
           max == Settings.maxRequests
           requests == breaker.counts.requests
           least == Least(max, Brought(Pause - pause))
<1>2. /\ w \in Nat /\ v \in Nat /\ k \in Nat /\ j \in Nat /\ n \in Nat
      /\ max \in Nat /\ tokens \in Nat /\ u \in Nat
  BY CountTypes, RoomTypes DEF TypeOK
<1>3. requests \in Nat /\ Pause \in Nat /\ pause \in 0..Pause
  BY RoomTypes DEF GatewayTypeOK, CB!Breaker, CB!Counts
<1>4. least \in Int
  BY <1>2, <1>3, RoomTypes DEF Least, Brought
<1>5. v <= w /\ u - v - j >= tokens - w - k
  BY DEF Expected
<1>6. Filling'
  <2>1. SUFFICES ASSUME breaker.state = "open"
                 PROVE  /\ v <= n - 1
                        /\ pause < Pause => u - v - j >= least
    <3>1. Least(max, Brought(Pause - pause))' = least
      BY DEF Brought, Least
    <3> QED
      BY <3>1 DEF Filling
  <2>2. w <= n - 1 /\ (pause < Pause => tokens - w - k >= least)
    BY <2>1 DEF Spared, Filling
  <2> HIDE DEF w, v, u, k, j, n, max, least
  <2> QED
    BY <2>2, <1>2, <1>4, <1>5
<1>7. Reserved'
  <2>1. SUFFICES ASSUME breaker.state = "half-open"
                 PROVE  /\ requests <= max
                        /\ v <= n - 1 + requests
                        /\ u >= v + j + (max - requests)
    BY DEF Reserved
  <2>2. /\ requests <= max
        /\ w <= n - 1 + requests
        /\ tokens >= w + k + (max - requests)
    BY <2>1 DEF Spared, Reserved
  <2> HIDE DEF w, v, u, k, j, n, max, requests
  <2> QED
    BY <2>2, <1>2, <1>3, <1>5
<1> QED
  BY <1>6, <1>7 DEF Spared

\* A request that arrives takes one of the tokens counted for it; while the
\* breaker is half-open there is one.
LEMMA ArriveSpares ==
    ASSUME RoomForProbes, TypeOK, TypeOK', GatewayTypeOK, GatewayTypeOK', Spared,
           NEW c \in Call, Arrive(c)
    PROVE  Spared'
<1>1. /\ sent[c] /\ call[c] = "idle"
      /\ UNCHANGED gateway /\ UNCHANGED <<due, stray>>
      /\ \/ /\ tokens = 0 /\ tokens' = tokens
            /\ call' = [call EXCEPT ![c] = "ResourceExhausted"]
         \/ /\ tokens' = tokens - 1
            /\ \/ call' = [call EXCEPT ![c] = "InvalidArgument"]
               \/ call' = [call EXCEPT ![c] = "fetching"]
  BY DEF Arrive, CreateOrder, Reject, Allow, cancelled
<1>2. UNCHANGED <<sent, stale, breaker, pause>>
  BY <1>1 DEF gateway
<1>3. /\ c \in OnTheWay
      /\ OnTheWay' = OnTheWay \ {c}
  BY <1>1, <1>2 DEF OnTheWay, TypeOK
<1>4. Due' = Due
  BY <1>1 DEF Due
<1> DEFINE w == Pending
           v == Pending'
           k == Cardinality(Due)
<1>5. /\ v = w - 1 /\ w \in Nat /\ k \in Nat /\ Cardinality(Due') = k
      /\ tokens \in Nat
  <2>1. v = w - 1
    BY <1>1, <1>3, OffTheWay
  <2> QED
    BY <2>1, <1>4, CountTypes, RoomTypes DEF TypeOK
<1>6. Expected
  <2>1. tokens' = tokens \/ tokens' = tokens - 1
    BY <1>1
  <2> HIDE DEF w, v, k
  <2>2. v <= w /\ tokens' - v - k >= tokens - w - k
    BY <2>1, <1>5
  <2> QED
    BY <2>2, <1>5 DEF Expected, w, v, k
<1>7. ASSUME breaker.state = "half-open" PROVE tokens # 0
  <2> DEFINE max == Settings.maxRequests
             requests == breaker.counts.requests
  <2>1. requests <= max /\ tokens >= w + k + (max - requests)
    BY <1>7 DEF Spared, Reserved
  <2>2. requests \in Nat /\ max \in Nat
    BY RoomTypes DEF GatewayTypeOK, CB!Breaker, CB!Counts
  <2>3. v \in Nat
    BY CountTypes, RoomTypes
  <2> HIDE DEF w, v, k, max, requests
  <2> QED
    BY <2>1, <2>2, <2>3, <1>5
<1>8. ProbesSpared'
  <2> SUFFICES ASSUME breaker.state = "half-open",
                      NEW d \in Call, sent[d], ~stale[d]
               PROVE  call'[d] # "ResourceExhausted"
    BY <1>2 DEF ProbesSpared
  <2>1. call[d] # "ResourceExhausted"
    BY DEF Spared, ProbesSpared
  <2> QED
    BY <2>1, <1>1, <1>7 DEF TypeOK
<1> QED
  BY <1>2, <1>6, <1>8, PaidForSpares

\* Handlers that get on.
LEMMA HandlersSpare ==
    ASSUME RoomForProbes, TypeOK, TypeOK', GatewayTypeOK, GatewayTypeOK', Spared,
           NEW c \in Call, FetchUser(c) \/ Discard(c)
    PROVE  Spared'
<1>1. /\ UNCHANGED <<tokens, due, gateway, stray>>
      /\ call[c] # "idle"
      /\ \/ call' = [call EXCEPT ![c] = "OK"]
         \/ call' = [call EXCEPT ![c] = "Internal"]
         \/ call' = [call EXCEPT ![c] = "idle"] /\ ~sent[c]
  BY DEF FetchUser, GetUser, Discard, Forget, GatewayTypeOK, cancelled
<1>2. UNCHANGED <<sent, stale, breaker, pause>>
  BY <1>1 DEF gateway
<1>3. Pending' = Pending /\ Due' = Due
  BY <1>1, <1>2 DEF OnTheWay, Pending, Due, TypeOK
<1>4. ProbesSpared'
  BY <1>1, <1>2 DEF ProbesSpared, Spared, TypeOK
<1>5. Expected
  BY <1>1, <1>3, CountTypes, RoomTypes DEF TypeOK, Expected
<1> QED
  BY <1>2, <1>4, <1>5, PaidForSpares

\* A kubelet's probe takes the token counted for it, if there is one.
LEMMA KubeletSpares ==
    ASSUME RoomForProbes, TypeOK, TypeOK', GatewayTypeOK, GatewayTypeOK', Spared,
           NEW p \in Probe, Check(p) \/ Miss(p), UNCHANGED <<gateway, cancelled>>
    PROVE  Spared'
<1>1. /\ UNCHANGED <<gateway, call, stray>>
      /\ due[p] = 0
      /\ due' = [due EXCEPT ![p] = Period[p]]
      /\ tokens' = tokens - 1 \/ tokens' = tokens
  BY DEF Check, Miss, Allow, Reject, cancelled
<1>2. UNCHANGED <<sent, stale, breaker, pause>>
  BY <1>1 DEF gateway
<1>3. p \in Due /\ Due' = Due \ {p}
  BY <1>1, LimiterAssumption DEF Due, TypeOK
<1>4. Cardinality(Due') = Cardinality(Due) - 1
  BY <1>3, CountTypes, FS_RemoveElement
<1>5. Pending' = Pending
  BY <1>1, <1>2 DEF OnTheWay, Pending
<1>6. ProbesSpared'
  BY <1>1, <1>2 DEF ProbesSpared, Spared
<1>7. Expected
  BY <1>1, <1>4, <1>5, CountTypes, RoomTypes DEF TypeOK, Expected
<1> QED
  BY <1>2, <1>6, <1>7, PaidForSpares

\* So does a request whose client has hung up, if it arrives at all.
LEMMA StraySpares ==
    ASSUME RoomForProbes, TypeOK, TypeOK', GatewayTypeOK, GatewayTypeOK', Spared,
           Stray
    PROVE  Spared'
<1>1. /\ UNCHANGED <<gateway, call, due>>
      /\ stray' = stray - 1
      /\ tokens' = tokens - 1 \/ tokens' = tokens
  BY DEF Stray, Straggle, Allow, Reject, vars
<1>2. UNCHANGED <<sent, stale, breaker, pause>>
  BY <1>1 DEF gateway
<1>3. Pending' = Pending - 1
  BY <1>1, <1>2, CountTypes DEF OnTheWay, Pending
<1>4. Due' = Due
  BY <1>1 DEF Due
<1>5. ProbesSpared'
  BY <1>1, <1>2 DEF ProbesSpared, Spared
<1>6. Expected
  BY <1>1, <1>3, <1>4, CountTypes, RoomTypes DEF TypeOK, Expected
<1> QED
  BY <1>2, <1>5, <1>6, PaidForSpares

\* A client that is turned away.
LEMMA RefuseSpares ==
    ASSUME RoomForProbes, TypeOK, TypeOK', GatewayTypeOK, GatewayTypeOK', Spared,
           NEW c \in Call, Refuse(c)
    PROVE  Spared'
<1>1. /\ ~sent[c]
      /\ ~CB!Admits(Asked)
      /\ Become(Asked, c)
      /\ UNCHANGED <<tokens, call, due, sent, stray>>
  BY DEF Refuse, vars, cancelled
<1>2. Asked = breaker
  BY <1>1, AskedWays, RoomTypes DEF CB!Admits
<1>3. breaker \in CB!Breaker /\ breaker.generation = 0
  BY DEF GatewayTypeOK
<1>4. /\ breaker'.state = breaker.state
      /\ breaker.state = "half-open" =>
             breaker'.counts.requests = breaker.counts.requests
      /\ pause' = pause
      /\ \A d \in Call : stale'[d] <=> d # c /\ stale[d]
  BY <1>1, <1>2, <1>3, Becoming
<1>5. Pending' = Pending /\ Due' = Due
  BY <1>1 DEF OnTheWay, Pending, Due
<1>6. Expected
  BY <1>1, <1>5, CountTypes, RoomTypes DEF TypeOK, Expected
<1>7. ProbesSpared'
  BY <1>1, <1>4 DEF ProbesSpared, Spared
<1> QED
  BY <1>4, <1>6, <1>7, PaidForSpares

\* A request sent by a half-open breaker has its token reserved.
LEMMA PostSpares ==
    ASSUME RoomForProbes, TypeOK, GatewayTypeOK, GatewayTypeOK', Spared,
           NEW c \in Call, Post(c)
    PROVE  Spared'
<1> DEFINE w == Pending
           v == Pending'
           k == Cardinality(Due)
           n == Most
           max == Settings.maxRequests
           sofar == Asked.counts.requests
<1>1. /\ ~sent[c]
      /\ call[c] = "idle"
      /\ CB!Admits(Asked)
      /\ Become(CB!OnRequest(Asked), c)
      /\ sent' = [sent EXCEPT ![c] = TRUE]
      /\ UNCHANGED <<tokens, call, due, stray>>
  BY DEF Post, vars, cancelled
<1>2. OnTheWay' = OnTheWay \cup {c} /\ c \notin OnTheWay
  BY <1>1 DEF OnTheWay, GatewayTypeOK
<1>3. v = w + 1
  <2>1. Cardinality(OnTheWay') = Cardinality(OnTheWay) + 1
    BY <1>2, CountTypes, FS_AddElement
  <2> QED
    BY <1>1, <2>1, CountTypes DEF Pending
<1>4. /\ w \in Nat /\ k \in Nat /\ n \in Nat /\ max \in Nat \ {0} /\ tokens \in Nat
  BY CountTypes, RoomTypes DEF TypeOK
<1>5. tokens' = tokens /\ Due' = Due
  BY <1>1 DEF Due
<1>6. Asked \in CB!Breaker /\ CB!OnRequest(Asked) \in CB!Breaker
  BY AskedIsBreaker DEF GatewayTypeOK
<1>7. /\ CB!OnRequest(Asked).state = Asked.state
      /\ CB!OnRequest(Asked).generation = Asked.generation
      /\ CB!OnRequest(Asked).counts.requests = sofar + 1
  BY <1>6 DEF CB!OnRequest, CB!Breaker, CB!Counts
<1>8. sofar \in Nat
  BY <1>6 DEF CB!Breaker, CB!Counts
<1>9. /\ breaker'.state = Asked.state
      /\ Asked.state = "half-open" => breaker'.counts.requests = sofar + 1
      /\ \A d \in Call : stale'[d] <=> d # c /\ (stale[d] \/ Asked.generation # 0)
  BY <1>1, <1>6, <1>7, Becoming
<1>10. CASE Asked.state = "closed"
  BY <1>9, <1>10 DEF Spared, Filling, Reserved, ProbesSpared
<1>11. CASE Asked.state = "half-open"
  <2>1. sofar < max
    BY <1>1, <1>11 DEF CB!Admits
  <2>2. w <= n - 1 + sofar /\ tokens >= w + k + (max - sofar)
    <3>1. CASE Asked = breaker
      BY <1>11, <3>1 DEF Spared, Reserved
    <3>2. CASE /\ breaker.state = "open" /\ pause = 0
               /\ sofar = 0
      <4>1. Pause \in Nat \ {0} /\ Brought(Pause) \in Int /\ max <= Brought(Pause)
        BY RoomTypes DEF RoomForProbes, Brought
      <4>2. w <= n - 1 /\ tokens - w - k >= Least(max, Brought(Pause))
        BY <3>2, <4>1 DEF Spared, Filling
      <4>3. tokens - w - k >= max
        BY <4>1, <4>2, <1>4 DEF Least
      <4> HIDE DEF w, k, n, max, sofar
      <4> QED
        BY <4>2, <4>3, <3>2, <1>4
    <3> QED
      BY <3>1, <3>2, AskedWays
  <2>3. Reserved'
    <3> HIDE DEF w, v, k, n, max, sofar
    <3>1. /\ sofar + 1 <= max
          /\ v <= n - 1 + (sofar + 1)
          /\ tokens >= v + k + (max - (sofar + 1))
      BY <2>1, <2>2, <1>3, <1>4, <1>8
    <3> QED
      BY <3>1, <1>5, <1>9, <1>11 DEF Reserved, w, v, k, n, max
  <2>4. ProbesSpared'
    <3> SUFFICES ASSUME NEW d \in Call, sent'[d], ~stale'[d]
                 PROVE  call[d] # "ResourceExhausted"
      BY <1>1 DEF ProbesSpared
    <3>1. CASE d = c
      BY <3>1, <1>1
    <3>2. CASE d # c
      <4>1. sent[d] /\ ~stale[d] /\ Asked.generation = 0
        BY <3>2, <1>1, <1>9 DEF GatewayTypeOK
      <4>2. breaker.state = "half-open"
        BY <4>1, <1>11, AskedWays
      <4> QED
        BY <4>1, <4>2 DEF Spared, ProbesSpared
    <3> QED
      BY <3>1, <3>2
  <2> QED
    BY <2>3, <2>4, <1>9, <1>11 DEF Spared, Filling
<1> QED
  BY <1>1, <1>10, <1>11 DEF CB!Admits

\* A container that is restarted has a full bucket and no probe due.
LEMMA RestartSpares ==
    ASSUME RoomForProbes, TypeOK, TypeOK', GatewayTypeOK, GatewayTypeOK', Spared,
           Restart, UNCHANGED <<gateway, cancelled>>
    PROVE  Spared'
<1> DEFINE w == Pending
           v == Pending'
           u == tokens'
           m == Cardinality(Probe)
           n == Most
           max == Settings.maxRequests
           requests == breaker.counts.requests
           least == Least(max, Brought(Pause - pause))
<1>1. UNCHANGED <<sent, stale, breaker, pause, stray>>
  BY DEF gateway, cancelled
<1>2. /\ \A c \in Call : /\ call'[c] = "idle" <=> call[c] = "idle"
                         /\ call'[c] = "ResourceExhausted"
                                => call[c] = "ResourceExhausted"
      /\ u = Burst
      /\ due' = Period
  BY DEF Restart
<1>3. v = w
  <2>1. OnTheWay' = OnTheWay
    BY <1>1, <1>2 DEF OnTheWay
  <2> QED
    BY <1>1, <2>1 DEF Pending
<1>4. Cardinality(Due') = 0
  <2>1. Due' = {}
    BY <1>2, LimiterAssumption DEF Due
  <2> QED
    BY <2>1, FS_EmptySet
<1>5. /\ w \in Nat /\ m \in Nat /\ n \in Nat /\ max \in Nat /\ u \in Nat
      /\ Burst \in Nat /\ requests \in Nat
  BY CountTypes, RoomTypes DEF TypeOK, GatewayTypeOK, CB!Breaker, CB!Counts
<1>6. n - 1 + max + m <= Burst
  BY DEF RoomForProbes
<1>7. least \in Int /\ least <= max
  <2>1. Pause \in Nat /\ pause \in 0..Pause
    BY RoomTypes DEF GatewayTypeOK
  <2> QED
    BY <2>1, <1>5, RoomTypes DEF Least, Brought
<1>8. Filling'
  <2>1. SUFFICES ASSUME breaker.state = "open"
                 PROVE  v <= n - 1 /\ u - v - 0 >= least
    <3>1. Least(max, Brought(Pause - pause))' = least
      BY <1>1 DEF Brought, Least
    <3> QED
      BY <1>1, <1>4, <3>1 DEF Filling
  <2>2. w <= n - 1
    BY <2>1 DEF Spared, Filling
  <2> HIDE DEF w, v, u, m, n, max, requests, least
  <2> QED
    BY <2>2, <1>2, <1>3, <1>5, <1>6, <1>7
<1>9. Reserved'
  <2>1. SUFFICES ASSUME breaker.state = "half-open"
                 PROVE  /\ requests <= max
                        /\ v <= n - 1 + requests
                        /\ u >= v + 0 + (max - requests)
    BY <1>1, <1>4 DEF Reserved
  <2>2. requests <= max /\ w <= n - 1 + requests
    BY <2>1 DEF Spared, Reserved
  <2> HIDE DEF w, v, u, m, n, max, requests
  <2> QED
    BY <2>2, <1>2, <1>3, <1>5, <1>6
<1>10. ProbesSpared'
  BY <1>1, <1>2 DEF ProbesSpared, Spared
<1> QED
  BY <1>8, <1>9, <1>10 DEF Spared

\* What Brought promises grows with time, and covers the probes at the timeout.
LEMMA BroughtGrows ==
    ASSUME RoomForProbes
    PROVE  /\ \A t \in Nat : Brought(t) \in Int
           /\ Brought(1) = Rate - Cardinality(Probe) - (Most - 1)
           /\ \A t \in Nat :
                  Brought(t + 1) = Brought(t) + (Rate - Cardinality(Probe))
           /\ Settings.maxRequests <= Brought(Pause)
<1> DEFINE g == Rate - Cardinality(Probe)
           n == Most
<1>1. g \in Int /\ n \in Nat /\ Pause \in Nat /\ Settings.maxRequests \in Nat
  BY RoomTypes
<1>2. n - 1 + Settings.maxRequests <= Pause * g
  BY DEF RoomForProbes
<1>3. \A t : Brought(t) = t * g - (n - 1)
  BY DEF Brought
<1> HIDE DEF g, n
<1>4. \A t \in Nat : t * g \in Int /\ (t + 1) * g = t * g + g /\ 1 * g = g
  BY <1>1
<1>5. \A t \in Nat : Brought(t) \in Int /\ Brought(t + 1) = Brought(t) + g
  BY <1>1, <1>3, <1>4
<1>6. Brought(1) = g - (n - 1)
  BY <1>1, <1>3, <1>4
<1>7. Settings.maxRequests <= Brought(Pause)
  BY <1>1, <1>2, <1>3, <1>4
<1> QED
  BY <1>5, <1>6, <1>7 DEF g, n

\* Time refills the bucket, faster than the kubelet's probes come due.
LEMMA TickSpares ==
    ASSUME RoomForProbes, TypeOK, TypeOK', GatewayTypeOK, GatewayTypeOK', Spared, TickAll
    PROVE  Spared'
<1> DEFINE w == Pending
           v == Pending'
           u == tokens'
           j == Cardinality(Due')
           m == Cardinality(Probe)
           n == Most
           max == Settings.maxRequests
           requests == breaker.counts.requests
<1>1. /\ UNCHANGED <<sent, stale, breaker, call, stray>>
      /\ \A p \in Probe : due[p] > 0
      /\ u = Least(Burst, tokens + Rate)
      /\ pause' = IF pause = 0 THEN 0 ELSE pause - 1
  BY DEF TickAll, Tick, Refill, cancelled
<1>2. v = w
  <2>1. OnTheWay' = OnTheWay
    BY <1>1 DEF OnTheWay
  <2> QED
    BY <1>1, <2>1 DEF Pending
<1>3. Cardinality(Due) = 0
  <2>1. Due = {}
    BY <1>1 DEF Due
  <2> QED
    BY <2>1, FS_EmptySet
<1>4. /\ w \in Nat /\ j \in Nat /\ j <= m /\ m \in Nat /\ n \in Nat /\ max \in Nat
      /\ u \in Nat /\ tokens \in Nat /\ requests \in Nat
      /\ Burst \in Nat /\ Rate \in Nat /\ m <= Rate
  BY CountTypes, RoomTypes DEF TypeOK, GatewayTypeOK, CB!Breaker, CB!Counts
<1>5. Pause \in Nat \ {0} /\ pause \in 0..Pause
  BY RoomTypes DEF GatewayTypeOK
<1>6. n - 1 + max + m <= Burst
  BY DEF RoomForProbes
<1>7. u = Burst \/ u = tokens + Rate
  BY <1>1 DEF Least
<1>8. Filling'
  <2> DEFINE before == Brought(Pause - pause)
             after == Brought(Pause - pause')
  <2>1. SUFFICES ASSUME breaker.state = "open"
                 PROVE  w <= n - 1 /\ u - v - j >= Least(max, after)
    BY <1>1, <1>2 DEF Filling, Brought, Least
  <2>2. w <= n - 1 /\ (pause < Pause => tokens - w - 0 >= Least(max, before))
    BY <2>1, <1>3 DEF Spared, Filling
  <2>3. before \in Int /\ after \in Int
    BY <1>1, <1>5, BroughtGrows
  <2>4. CASE pause = 0
    <3>1. max <= before /\ max <= after
      BY <2>4, <1>1, <1>5, BroughtGrows
    <3> HIDE DEF w, v, u, j, m, n, max, before, after
    <3>2. tokens - w - 0 >= max
      BY <2>2, <2>3, <2>4, <3>1, <1>4, <1>5 DEF Least
    <3>3. u - v - j >= max
      BY <3>2, <2>2, <1>2, <1>4, <1>6, <1>7
    <3> QED
      BY <3>1, <3>3, <2>2, <2>3, <1>4 DEF Least
  <2>5. CASE pause # 0 /\ pause < Pause
    <3>1. after = before + (Rate - m)
      <4>1. Pause - pause' = (Pause - pause) + 1 /\ Pause - pause \in Nat
        BY <2>5, <1>1, <1>5
      <4> QED
        BY <4>1, BroughtGrows
    <3> HIDE DEF w, v, u, j, m, n, max, before, after
    <3>2. CASE u = Burst
      <4>1. u - v - j >= max
        BY <3>2, <2>2, <1>2, <1>4, <1>6
      <4> QED
        BY <4>1, <2>2, <2>3, <1>2, <1>4 DEF Least
    <3>3. CASE u = tokens + Rate
      <4>1. u - v - j >= Least(max, before) + (Rate - m)
        BY <3>3, <2>2, <2>3, <2>5, <1>2, <1>4 DEF Least
      <4> QED
        BY <4>1, <3>1, <2>2, <2>3, <1>2, <1>4 DEF Least
    <3> QED
      BY <1>7, <3>2, <3>3
  <2>6. CASE pause = Pause
    <3>1. after = Rate - m - (n - 1)
      BY <2>6, <1>1, <1>5, BroughtGrows
    <3> HIDE DEF w, v, u, j, m, n, max, before, after
    <3>2. u - v - j >= max \/ u - v - j >= after
      BY <3>1, <2>2, <1>2, <1>4, <1>6, <1>7
    <3> QED
      BY <3>2, <2>2, <2>3, <1>2, <1>4 DEF Least
  <2> QED
    BY <2>4, <2>5, <2>6, <1>5
<1>9. Reserved'
  <2>1. SUFFICES ASSUME breaker.state = "half-open"
                 PROVE  /\ requests <= max
                        /\ v <= n - 1 + requests
                        /\ u >= v + j + (max - requests)
    BY <1>1 DEF Reserved
  <2>2. /\ requests <= max
        /\ w <= n - 1 + requests
        /\ tokens >= w + 0 + (max - requests)
    BY <2>1, <1>3 DEF Spared, Reserved
  <2> HIDE DEF w, v, u, j, m, n, max, requests
  <2> QED
    BY <2>2, <1>2, <1>4, <1>6, <1>7
<1>10. ProbesSpared'
  BY <1>1 DEF ProbesSpared, Spared
<1> QED
  BY <1>8, <1>9, <1>10 DEF Spared

\* Every step spares the breaker's probes.
LEMMA OrderStepSpares ==
    ASSUME RoomForProbes, TypeOK, TypeOK', GatewayTypeOK, GatewayTypeOK', Spared,
           [OrderNext]_orderVars
    PROVE  Spared'
<1>1. CASE UNCHANGED orderVars
  <2>1. UNCHANGED <<tokens, call, due, sent, stale, breaker, pause, stray>>
    BY <1>1 DEF orderVars, vars, gateway, cancelled
  <2>2. Pending' = Pending /\ Due' = Due
    BY <2>1 DEF OnTheWay, Pending, Due
  <2>3. Least(Settings.maxRequests, Brought(Pause - pause))' =
            Least(Settings.maxRequests, Brought(Pause - pause))
    BY <2>1 DEF Brought, Least
  <2> QED
    BY <2>1, <2>2, <2>3 DEF Spared, Filling, Reserved, ProbesSpared
<1>2. ASSUME NEW c \in Call, Refuse(c) PROVE Spared'
  BY <1>2, RefuseSpares
<1>3. ASSUME NEW c \in Call, Post(c) PROVE Spared'
  BY <1>3, PostSpares
<1>4. ASSUME NEW c \in Call, Unroutable(c) PROVE Spared'
  <2>1. Ends(c, "Unavailable") /\ UNCHANGED <<tokens, due, call, stray>>
    BY <1>4 DEF Unroutable, vars, cancelled
  <2> QED
    BY <2>1, EndsSpares
<1>5. ASSUME NEW c \in Call, Deliver(c) PROVE Spared'
  <2>1. /\ Ends(c, call[c])
        /\ UNCHANGED <<tokens, due, stray>>
        /\ \A d \in Call \ {c} : call'[d] = call[d]
    BY <1>5 DEF Deliver, Answer, TypeOK, cancelled
  <2> QED
    BY <2>1, EndsSpares
<1>6. ASSUME NEW c \in Call, HangUp(c) PROVE Spared'
  <2>1. Ends(c, "Canceled") /\ Abandon(c)
    BY <1>6 DEF HangUp
  <2>2. /\ UNCHANGED <<tokens, due>>
        /\ \A d \in Call \ {c} : call'[d] = call[d]
    BY <2>1 DEF Abandon, Answer, TypeOK, vars
  <2>3. stray' = stray \/ (c \in OnTheWay /\ stray' = stray + 1)
    BY <2>1 DEF Abandon, Ends, OnTheWay, cancelled
  <2> QED
    BY <2>1, <2>2, <2>3, EndsSpares
<1>7. ASSUME NEW c \in Call, Arrive(c) PROVE Spared'
  BY <1>7, ArriveSpares
<1>8. ASSUME NEW c \in Call, FetchUser(c) \/ Discard(c) PROVE Spared'
  BY <1>8, HandlersSpare
<1>9. ASSUME NEW p \in Probe, Check(p) \/ Miss(p), UNCHANGED <<gateway, cancelled>>
      PROVE  Spared'
  BY <1>9, KubeletSpares
<1>10. CASE Restart /\ UNCHANGED <<gateway, cancelled>>
  BY <1>10, RestartSpares
<1>11. CASE TickAll
  BY <1>11, TickSpares
<1>12. CASE Stray
  BY <1>12, StraySpares
<1> QED
  BY <1>1, <1>2, <1>3, <1>4, <1>5, <1>6, <1>7, <1>8, <1>9, <1>10, <1>11, <1>12
     DEF OrderNext

\* A half-open breaker's probes are not refused by the limiter, whichever
\* requests were on their way when it opened, however the kubelet's probes
\* fall, and whether or not the container was restarted meanwhile: the bucket
\* has room for them when there are fewer requests at a time than that, those
\* on their way whose clients have hung up among them, and all come from the
\* one gateway.
THEOREM ProbesAreSpared ==
    ASSUME RoomForProbes
    PROVE  OrderSpec => []ProbesSpared
<1>1. OrderInit => Spared
  BY DEF OrderInit, CB!NewCircuitBreaker, Spared, Filling, Reserved, ProbesSpared
<1>2. OrderTypeOK /\ OrderTypeOK' /\ Spared /\ [OrderNext]_orderVars => Spared'
  BY OrderStepSpares DEF OrderTypeOK
<1>3. Spared => ProbesSpared
  BY DEF Spared
<1> QED
  BY <1>1, <1>2, <1>3, OrderTypeCorrect, PTL DEF OrderSpec

\* With the code's numbers, in seconds (500 requests a second and a burst of
\* 1000, a timeout of 5 s, 100 probes), clients and requests on their way whose
\* clients have hung up are few enough when they are 899 together.
THEOREM ProbesAreSparedFrom899 ==
    ASSUME IsFiniteSet(Call), Cardinality(Call) + MaxStray <= 899,
           Rate = 500, Burst = 1000,
           Probe = {"readiness", "liveness"},
           Settings = CB!GatewaySettings, Pause = 5
    PROVE  OrderSpec => []ProbesSpared
<1>1. Cardinality(Call) \in Nat
  BY FS_CardinalityType
<1>2. Cardinality(Probe) = 2
  <2>1. IsFiniteSet({"readiness"}) /\ Cardinality({"readiness"}) = 1
    BY FS_Singleton
  <2>2. "liveness" \notin {"readiness"}
    OBVIOUS
  <2>3. Cardinality({"readiness"} \cup {"liveness"}) = 2
    BY <2>1, <2>2, FS_AddElement
  <2>4. Probe = {"readiness"} \cup {"liveness"}
    OBVIOUS
  <2> QED
    BY <2>3, <2>4
<1>3. Settings.maxRequests = 100
  BY DEF CB!GatewaySettings
<1>4. RoomForProbes
  BY <1>1, <1>2, <1>3, GatewayAssumption DEF RoomForProbes, Most
<1> QED
  BY <1>4, ProbesAreSpared
=============================================================================
