------------------------ MODULE UnaryServers_proofs ------------------------
(***************************************************************************)
(* That no server of the lessons serves a request a check should have      *)
(* rejected, that 05 logs what it answers, that 03 reports no payment the  *)
(* bank has not processed and that calls fail for a cause only, for any    *)
(* number of calls and any tokens. The argument goes along the chain: on   *)
(* its way down a request has passed every frame above, and an OK has been *)
(* through every frame below. And that no call is stuck in its chain or    *)
(* goes round in it for ever.                                              *)
(***************************************************************************)
EXTENDS UnaryServers, TLAPS

Lesson == {"l01", "l03", "l04", "l05", "l06", "l07", "health", "l08", "l10",
           "l11", "l13", "l14", "l15", "l18", "l20", "l22", "l09", "l99"}

\* What the properties need to know of a request.
WellFormed(r) ==
    /\ r.lesson \in Lesson
    /\ r.body \in {"invalid", "unlucky", "good"}
    /\ r.lesson \in {"l08", "l20"} => r.body # "unlucky"
    /\ r.lesson = "l05" => r.method = ProcessPaymentV1

-----------------------------------------------------------------------------
(* The requests and the chains.                                            *)

\* Every request the callers send is well formed.
LEMMA RequestsAreWellFormed ==
    \A r \in Request : WellFormed(r)
<1> USE DEF Plain, Requests, WellFormed, Lesson
<1>1. \A r \in UserRequests \cup PaymentRequests \cup OrderRequests : WellFormed(r)
  BY DEF UserRequests, PaymentRequests, OrderRequests
<1>2. \A r \in InterceptedRequests \cup SecureRequests \cup ReflectionRequests : WellFormed(r)
  BY DEF InterceptedRequests, SecureRequests, ReflectionRequests
<1>3. \A r \in RestRequests \cup TestRequests \cup ObservedRequests : WellFormed(r)
  BY DEF RestRequests, TestRequests, ObservedRequests
<1>4. \A r \in KeepaliveRequests \cup CompressedRequests \cup MultiplexedRequests : WellFormed(r)
  BY DEF KeepaliveRequests, CompressedRequests, MultiplexedRequests
<1>5. \A r \in ManagerRequests \cup ValidatedRequests \cup RoutedRequests : WellFormed(r)
  BY DEF ManagerRequests, ValidatedRequests, RoutedRequests
<1>6. \A r \in EchoRequests \cup ClusterRequests : WellFormed(r)
  BY DEF EchoRequests, ClusterRequests
<1>7. \A r \in GrpcurlRequests : WellFormed(r)
  <2> SUFFICES ASSUME NEW r \in GrpcurlRequests PROVE WellFormed(r)
    OBVIOUS
  <2>1. PICK lesson \in {"l01", "l07"} : r \in Plain(lesson, ServerReflectionInfo, {"good"})
    BY DEF GrpcurlRequests
  <2> QED
    BY <2>1
<1> HIDE DEF Plain, Requests, WellFormed, Lesson
<1> QED
  BY <1>1, <1>2, <1>3, <1>4, <1>5, <1>6, <1>7 DEF Request

\* The frames there are actions for, those that pass a request on, and those
\* that look at it first.
Frame == {"Logging", "Auth", "Validation", "ServeMux", "OrderManager", "Handler",
          "GetUser", "CreateOrder", "LookUp", "UserServiceClient",
          "UnimplementedUserServiceServer", "Truncate", "ProcessPayment"}
Passing == {"Logging", "Auth", "Validation", "ServeMux", "OrderManager"}
Checking == {"Auth", "Validation", "ServeMux"}

\* A call that frame has let pass, or has answered OK, satisfies its check.
Clears(c, frame) ==
    /\ frame \in {"Auth", "ProcessPayment"} => Authorized(c)
    /\ frame \in {"Validation", "ServeMux", "OrderManager", "Truncate"} =>
           request[c].body # "invalid"
    /\ frame \in {"GetUser", "CreateOrder", "LookUp"} => request[c].body = "good"
    /\ frame = "UserServiceClient" => request[c].body # "unlucky"

\* What the proofs need to know of the chain of a lesson: there are at most
\* three frames, each of them one that some action is for, frames that pass a
\* request on have one below, 03 has its handler alone, 05 logs outermost,
\* only 14 truncates and 13 implements nothing, and each lesson with a check has its frame.
Sound(lesson, frames) ==
    /\ Len(frames) \in Nat \ {0}
    /\ Len(frames) <= 3
    /\ \A i \in 1..Len(frames) :
           /\ frames[i] \in Frame
           /\ frames[i] \in Passing <=> i < Len(frames)
           /\ frames[i] = "ProcessPayment" => lesson = "l03"
           /\ frames[i] = "Truncate" => lesson = "l14"
           /\ frames[i] = "Logging" => i = 1
           /\ frames[i] = "OrderManager" => lesson = "l18"
           /\ frames[i] = "UnimplementedUserServiceServer" => lesson = "l13"
    /\ lesson = "l03" => Len(frames) = 1 /\ frames[1] = "ProcessPayment"
    /\ lesson = "l05" => frames[1] = "Logging"
    /\ lesson \in {"l05", "l06"} => \E i \in 1..Len(frames) : frames[i] = "Auth"
    /\ lesson \in {"l01", "l04", "l10"} =>
           \E i \in 1..Len(frames) : frames[i] \in {"GetUser", "CreateOrder", "LookUp"}
    /\ lesson \in {"l08", "l20"} =>
           \E i \in 1..Len(frames) : frames[i] \in {"ServeMux", "Validation"}
    /\ lesson = "l14" => \E i \in 1..Len(frames) : frames[i] = "Truncate"
    /\ lesson = "l18" =>
           /\ \E i \in 1..Len(frames) : frames[i] = "OrderManager"
           /\ \E i \in 1..Len(frames) : frames[i] = "UserServiceClient"

\* The frames of every lesson's chain.
LEMMA FramesOfLessons ==
    /\ Chain["l01"].frames = <<"GetUser">>
    /\ Chain["l03"].frames = <<"ProcessPayment">>
    /\ Chain["l04"].frames = <<"CreateOrder">>
    /\ Chain["l05"].frames = <<"Logging", "Auth", "Handler">>
    /\ Chain["l06"].frames = <<"Auth", "Handler">>
    /\ Chain["l07"].frames = <<"Handler">>
    /\ Chain["health"].frames = <<"LookUp">>
    /\ Chain["l08"].frames = <<"ServeMux", "Handler">>
    /\ Chain["l10"].frames = <<"LookUp">>
    /\ Chain["l11"].frames = <<"Handler">>
    /\ Chain["l13"].frames = <<"UnimplementedUserServiceServer">>
    /\ Chain["l14"].frames = <<"Truncate">>
    /\ Chain["l15"].frames = <<"ServeMux", "Handler">>
    /\ Chain["l18"].frames = <<"OrderManager", "UserServiceClient">>
    /\ Chain["l20"].frames = <<"Validation", "Handler">>
    /\ Chain["l22"].frames = <<"Handler">>
    /\ Chain["l09"].frames = <<"Handler">>
    /\ Chain["l99"].frames = <<"Handler">>
  BY DEF Chain, Server, UserChain, PaymentChain, OrderChain, InterceptedChain, SecureChain, ReflectionChain,
     HealthChain, RestChain, TestChain, ObservedChain, KeepaliveChain, CompressedChain,
     MultiplexedChain, ManagerChain, ValidatedChain, RoutedChain, EchoChain, ClusterChain

\* Every chain is sound.
LEMMA ChainsAreSound ==
    ASSUME NEW lesson \in Lesson
    PROVE  Sound(lesson, Chain[lesson].frames)
<1> USE DEF Sound, Passing, Frame
<1>1. CASE lesson = "l01"
  BY <1>1, FramesOfLessons
<1>2. CASE lesson = "l03"
  BY <1>2, FramesOfLessons
<1>3. CASE lesson = "l04"
  BY <1>3, FramesOfLessons
<1>4. CASE lesson = "l05"
  BY <1>4, FramesOfLessons
<1>5. CASE lesson = "l06"
  BY <1>5, FramesOfLessons
<1>6. CASE lesson = "l07"
  BY <1>6, FramesOfLessons
<1>7. CASE lesson = "health"
  BY <1>7, FramesOfLessons
<1>8. CASE lesson = "l08"
  BY <1>8, FramesOfLessons
<1>9. CASE lesson = "l10"
  BY <1>9, FramesOfLessons
<1>10. CASE lesson = "l11"
  BY <1>10, FramesOfLessons
<1>11. CASE lesson = "l13"
  BY <1>11, FramesOfLessons
<1>12. CASE lesson = "l14"
  BY <1>12, FramesOfLessons
<1>13. CASE lesson = "l15"
  BY <1>13, FramesOfLessons
<1>14. CASE lesson = "l18"
  BY <1>14, FramesOfLessons
<1>15. CASE lesson = "l20"
  BY <1>15, FramesOfLessons
<1>16. CASE lesson = "l22"
  BY <1>16, FramesOfLessons
<1>17. CASE lesson = "l09"
  BY <1>17, FramesOfLessons
<1>18. CASE lesson = "l99"
  BY <1>18, FramesOfLessons
<1> QED
  BY <1>1, <1>2, <1>3, <1>4, <1>5, <1>6, <1>7, <1>8, <1>9,
     <1>10, <1>11, <1>12, <1>13, <1>14, <1>15, <1>16, <1>17, <1>18 DEF Lesson

\* 05's server has a handler for what its callers ask for.
LEMMA PaymentIsHandled == Handles(Chain["l05"].services, ProcessPaymentV1)
  BY DEF Chain, InterceptedChain, Server, Handles, PaymentService, ProcessPaymentV1, Desc

-----------------------------------------------------------------------------
(* The inductive invariant.                                                *)

\* What a call has passed, and what an OK has been through.
Checked(c) ==
    /\ result[c] = "none" =>
           \A i \in 1..Len(Frames(c)) :
               i < stage[c] /\ Frames(c)[i] \in Checking => Clears(c, Frames(c)[i])
    /\ result[c] = "OK" =>
           \A i \in 1..Len(Frames(c)) :
               i > stage[c] \/ Frames(c)[i] \in Checking => Clears(c, Frames(c)[i])

\* 03's goroutine belongs to a call that was let in, and is waited for until
\* the handler has a result; OK comes from the bank.
Paid(c) ==
    /\ worker[c] # "none" \/ selecting[c] =>
           /\ request[c].lesson = "l03"
           /\ Authorized(c)
           /\ result[c] = "none" => stage[c] = 1
    /\ request[c].lesson = "l03" /\ "OK" \in {result[c], answer[c]} =>
           worker[c] = "ended"

\* Nothing has happened to a call before it is sent, and nothing to one
\* whose connection is not accepted.
Entered(c) ==
    /\ ctx[c] = "none" => /\ stage[c] = 0
                          /\ result[c] = "none"
                          /\ worker[c] = "none"
                          /\ ~selecting[c]
                          /\ answer[c] = "none"
    /\ stage[c] > 0 \/ result[c] # "none" \/ worker[c] # "none" => request[c].accepted

Logged(c) == request[c].lesson = "l05" /\ Returned(c) => log[c] = result[c]

Way(c) == Checked(c) /\ Paid(c) /\ Entered(c) /\ Logged(c)

IInv == TypeOK /\ \A c \in Call : Way(c)

\* The chain of a call is a sound one.
LEMMA FramesAreSound ==
    ASSUME TypeOK, NEW c \in Call
    PROVE  /\ WellFormed(request[c])
           /\ Sound(request[c].lesson, Frames(c))
<1>1. WellFormed(request[c])
  BY RequestsAreWellFormed DEF TypeOK
<1>2. request[c].lesson \in Lesson
  BY <1>1 DEF WellFormed
<1> QED
  BY <1>1, <1>2, ChainsAreSound DEF Frames

\* A call that a step leaves alone stays as it was.
LEMMA OthersKeep ==
    ASSUME NEW d \in Call, Way(d),
           UNCHANGED <<request[d], ctx[d], stage[d], result[d], log[d],
                       worker[d], selecting[d], answer[d]>>
    PROVE  Way(d)'
<1>1. Frames(d)' = Frames(d)
  BY DEF Frames
<1>2. Authorized(d)' = Authorized(d)
  BY DEF Authorized
<1>3. \A frame : Clears(d, frame)' <=> Clears(d, frame)
  BY <1>2 DEF Clears
<1>4. Checked(d)'
  BY <1>1, <1>3 DEF Way, Checked
<1>5. Paid(d)'
  BY <1>2 DEF Way, Paid
<1>6. Entered(d)'
  BY DEF Way, Entered
<1>7. Logged(d)'
  BY DEF Way, Logged, Returned
<1> QED
  BY <1>4, <1>5, <1>6, <1>7 DEF Way

\* The other calls are the same.
Same(d) ==
    UNCHANGED <<request[d], ctx[d], stage[d], result[d], log[d], worker[d],
                selecting[d], answer[d]>>

LEMMA OneCallChanges ==
    ASSUME IInv, NEW c \in Call, TypeOK', Way(c)', \A d \in Call \ {c} : Same(d)
    PROVE  IInv'
<1>1. ASSUME NEW d \in Call \ {c} PROVE Way(d)'
  BY OthersKeep DEF IInv, Same
<1> QED
  BY <1>1 DEF IInv

\* A frame that passes the request on has let it pass.
LEMMA InsidePreserves ==
    ASSUME IInv, NEW c \in Call, NEW frame \in Passing, Down(c, frame), Inside(c),
           frame \in Checking => Clears(c, frame),
           UNCHANGED <<request, ctx, log, payment, answer, crashed>>
    PROVE  IInv'
<1>1. TypeOK /\ Way(c)
  BY DEF IInv
<1>2. Sound(request[c].lesson, Frames(c))
  BY <1>1, FramesAreSound
<1>3. UNCHANGED <<request, ctx, log, worker, selecting, answer, crashed, result>>
  BY DEF payment, Inside
<1>4. /\ stage[c] \in 1..Len(Frames(c)) /\ Frames(c)[stage[c]] = frame
      /\ result[c] = "none"
      /\ stage[c] \in Nat /\ Len(Frames(c)) \in Nat
  BY <1>1, <1>2 DEF Down, At, TypeOK, Sound
<1>5. stage' = [stage EXCEPT ![c] = stage[c] + 1]
  BY DEF Inside
<1>6. /\ stage' \in [Call -> Nat]
      /\ stage'[c] = stage[c] + 1
      /\ \A d \in Call \ {c} : stage'[d] = stage[d]
  BY <1>1, <1>5 DEF TypeOK
<1>7. stage[c] < Len(Frames(c))
  BY <1>2, <1>4 DEF Sound
<1>8. \A d \in Call : Frames(d)' = Frames(d)
  BY <1>3 DEF Frames
<1>9. TypeOK'
  <2>1. \A d \in Call : /\ stage'[d] <= Len(Frames(d))
                        /\ result[d] # "none" => stage'[d] < Len(Frames(d))
    <3>1. stage'[c] <= Len(Frames(c))
      BY <1>4, <1>6, <1>7
    <3>2. \A d \in Call \ {c} : /\ stage'[d] <= Len(Frames(d))
                                /\ result[d] # "none" => stage'[d] < Len(Frames(d))
      BY <1>1, <1>6 DEF TypeOK
    <3> QED
      BY <1>4, <3>1, <3>2
  <2> QED
    BY <1>1, <1>3, <1>6, <1>8, <2>1 DEF TypeOK
<1>10. Way(c)'
  <2>1. Authorized(c)' = Authorized(c)
    BY <1>3 DEF Authorized
  <2>2. \A x : Clears(c, x)' <=> Clears(c, x)
    BY <1>3, <2>1 DEF Clears
  <2>3. Checked(c)'
    <3>1. \A i \in 1..Len(Frames(c)) :
              i < stage[c] + 1 /\ Frames(c)[i] \in Checking => Clears(c, Frames(c)[i])
      BY <1>1, <1>4 DEF Way, Checked
    <3> QED
      BY <1>3, <1>4, <1>6, <1>8, <2>2, <3>1 DEF Checked
  <2>4. Paid(c)'
    <3>1. ~(worker[c] # "none" \/ selecting[c])
      BY <1>1, <1>2, <1>4, <1>7 DEF Way, Paid, Sound
    <3> QED
      BY <1>1, <1>3, <3>1 DEF Way, Paid
  <2>5. Entered(c)'
    BY <1>1, <1>3, <1>4, <1>6 DEF Way, Entered
  <2>6. Logged(c)'
    BY <1>3, <1>4 DEF Logged, Returned
  <2> QED
    BY <2>3, <2>4, <2>5, <2>6 DEF Way
<1>11. \A d \in Call \ {c} : Same(d)
  BY <1>3, <1>6 DEF Same
<1> QED
  BY <1>9, <1>10, <1>11, OneCallChanges

\* A frame above the handler of 03 gives an error back; a handler gives OK
\* to a call that satisfies its check.
LEMMA ReturnPreserves ==
    ASSUME IInv, NEW c \in Call, stage[c] > 0, result[c] = "none",
           NEW code \in Code, Return(c, code), At(c) # "Logging",
           code = "OK" => /\ At(c) \notin Passing \cup {"ProcessPayment"}
                          /\ Clears(c, At(c)),
           UNCHANGED <<request, ctx, log, payment, answer, crashed>>
    PROVE  IInv'
<1>1. TypeOK /\ Way(c)
  BY DEF IInv
<1>2. Sound(request[c].lesson, Frames(c))
  BY <1>1, FramesAreSound
<1>3. UNCHANGED <<request, ctx, log, worker, selecting, answer, crashed>>
  BY DEF payment
<1>4. /\ stage[c] \in 1..Len(Frames(c))
      /\ Frames(c)[stage[c]] = At(c)
      /\ stage[c] \in Nat /\ Len(Frames(c)) \in Nat
  BY <1>1, <1>2 DEF At, TypeOK, Sound
<1>5. /\ stage' = [stage EXCEPT ![c] = stage[c] - 1]
      /\ result' = [result EXCEPT ![c] = code]
  BY DEF Return
<1>6. /\ stage' \in [Call -> Nat]
      /\ stage'[c] = stage[c] - 1
      /\ \A d \in Call \ {c} : stage'[d] = stage[d]
  BY <1>1, <1>4, <1>5 DEF TypeOK
<1>7. /\ result' \in [Call -> Code \cup {"none"}]
      /\ result'[c] = code
      /\ \A d \in Call \ {c} : result'[d] = result[d]
  BY <1>1, <1>5 DEF TypeOK
<1>8. \A d \in Call : Frames(d)' = Frames(d)
  BY <1>3 DEF Frames
<1>9. TypeOK'
  <2>1. \A d \in Call : /\ stage'[d] <= Len(Frames(d))
                        /\ result'[d] # "none" => stage'[d] < Len(Frames(d))
    <3>1. stage'[c] < Len(Frames(c))
      BY <1>4, <1>6
    <3>2. \A d \in Call \ {c} : /\ stage'[d] <= Len(Frames(d))
                                /\ result'[d] # "none" => stage'[d] < Len(Frames(d))
      BY <1>1, <1>6, <1>7 DEF TypeOK
    <3> QED
      BY <1>4, <1>6, <3>1, <3>2
  <2> QED
    BY <1>1, <1>3, <1>6, <1>7, <1>8, <2>1 DEF TypeOK
<1>10. Way(c)'
  <2>1. Authorized(c)' = Authorized(c)
    BY <1>3 DEF Authorized
  <2>2. \A x : Clears(c, x)' <=> Clears(c, x)
    BY <1>3, <2>1 DEF Clears
  <2>3. Checked(c)'
    <3>1. code # "none"
      BY DEF Code
    <3>2. ASSUME code = "OK", NEW i \in 1..Len(Frames(c)),
                 i > stage[c] - 1 \/ Frames(c)[i] \in Checking
          PROVE  Clears(c, Frames(c)[i])
      <4>1. stage[c] = Len(Frames(c))
        BY <1>2, <1>4, <3>2 DEF Sound
      <4>2. CASE i = stage[c]
        BY <1>4, <3>2, <4>2
      <4>3. CASE i < stage[c]
        <5>1. Frames(c)[i] \in Checking
          BY <1>4, <3>2, <4>3
        <5> QED
          BY <1>1, <4>3, <5>1 DEF Way, Checked
      <4> QED
        BY <1>4, <4>1, <4>2, <4>3
    <3> QED
      BY <1>6, <1>7, <1>8, <2>2, <3>1, <3>2 DEF Checked
  <2>4. Paid(c)'
    <3>1. code = "OK" => request[c].lesson # "l03"
      BY <1>2, <1>4 DEF Sound
    <3>2. code # "none"
      BY DEF Code
    <3> QED
      BY <1>1, <1>3, <1>7, <2>1, <3>1, <3>2 DEF Way, Paid
  <2>5. Entered(c)'
    BY <1>1, <1>3, <1>4 DEF Way, Entered
  <2>6. Logged(c)'
    <3>1. request[c].lesson = "l05" => stage[c] # 1
      BY <1>2, <1>4 DEF Sound
    <3> QED
      BY <1>3, <1>4, <1>6, <3>1 DEF Logged, Returned
  <2> QED
    BY <2>3, <2>4, <2>5, <2>6 DEF Way
<1>11. \A d \in Call \ {c} : Same(d)
  BY <1>3, <1>6, <1>7 DEF Same
<1> QED
  BY <1>9, <1>10, <1>11, OneCallChanges

-----------------------------------------------------------------------------
(* The frames.                                                             *)

LEMMA InterceptorsPreserve ==
    ASSUME IInv, NEW c \in Call,
           \/ LoggingInterceptor(c)
           \/ AuthInterceptor(c)
           \/ ValidationInterceptor(c)
           \/ ServeMux(c)
           \/ OrderManager(c)
    PROVE  IInv'
<1> USE DEF Passing, Checking
<1>1. CASE LoggingInterceptor(c)
  BY <1>1, InsidePreserves DEF LoggingInterceptor
<1>2. CASE OrderManager(c)
  BY <1>2, InsidePreserves DEF OrderManager
<1>3. CASE AuthInterceptor(c)
  <2>1. CASE Authorized(c)
    <3>1. Clears(c, "Auth")
      BY <2>1 DEF Clears
    <3> QED
      BY <1>3, <2>1, <3>1, InsidePreserves DEF AuthInterceptor
  <2>2. CASE ~Authorized(c)
    BY <1>3, <2>2, ReturnPreserves DEF AuthInterceptor, Down, Code
  <2> QED
    BY <2>1, <2>2
<1>4. CASE ValidationInterceptor(c)
  <2>1. CASE request[c].body # "invalid"
    <3>1. Clears(c, "Validation")
      BY <2>1 DEF Clears
    <3> QED
      BY <1>4, <2>1, <3>1, InsidePreserves DEF ValidationInterceptor
  <2>2. CASE request[c].body = "invalid"
    BY <1>4, <2>2, ReturnPreserves DEF ValidationInterceptor, Down, Code
  <2> QED
    BY <2>1, <2>2
<1>5. CASE ServeMux(c)
  <2>1. CASE request[c].body # "invalid"
    <3>1. Clears(c, "ServeMux")
      BY <2>1 DEF Clears
    <3> QED
      BY <1>5, <2>1, <3>1, InsidePreserves DEF ServeMux
  <2>2. CASE request[c].body = "invalid"
    BY <1>5, <2>2, ReturnPreserves DEF ServeMux, Down, Code
  <2> QED
    BY <2>1, <2>2
<1> QED
  BY <1>1, <1>2, <1>3, <1>4, <1>5

\* A handler returns.
LEMMA HandlerReturns ==
    ASSUME IInv, NEW c \in Call, NEW frame, Down(c, frame),
           frame \notin Passing \cup {"ProcessPayment"},
           NEW code \in Code, Return(c, code), code = "OK" => Clears(c, frame),
           UNCHANGED <<request, ctx, log, payment, answer, crashed>>
    PROVE  IInv'
<1>1. stage[c] > 0 /\ result[c] = "none" /\ At(c) = frame
  BY DEF Down
<1>2. At(c) # "Logging"
  BY <1>1 DEF Passing
<1> QED
  BY <1>1, <1>2, ReturnPreserves

LEMMA HandlersPreserve ==
    ASSUME IInv, NEW c \in Call,
           \/ Handler(c)
           \/ GetUser(c)
           \/ CreateOrder(c)
           \/ LookUp(c)
           \/ UserServiceClient(c)
           \/ UnimplementedUserServiceServer(c)
           \/ Truncate(c)
    PROVE  IInv'
<1> USE DEF Passing
<1>0. TypeOK /\ request[c].body \in {"invalid", "unlucky", "good"}
  BY FramesAreSound DEF IInv, WellFormed
<1>2. {"OK", "InvalidArgument", "NotFound", "FailedPrecondition", "Unimplemented",
       "Canceled", "DeadlineExceeded"} \subseteq Code
  BY DEF Code
<1>3. CASE Handler(c)
  <2>1. Clears(c, "Handler")
    BY DEF Clears
  <2> QED
    BY <1>2, <1>3, <2>1, HandlerReturns DEF Handler
<1>4. CASE GetUser(c)
  <2>1. Down(c, "GetUser") /\ UNCHANGED <<request, ctx, log, payment, answer, crashed>>
    BY <1>4 DEF GetUser
  <2>2. request[c].body = "good" => Clears(c, "GetUser")
    BY DEF Clears
  <2>3. CASE ctx[c] # "open" /\ Return(c, ctx[c])
    <3>1. ctx[c] \in {"Canceled", "DeadlineExceeded"}
      BY <1>0, <2>1, <2>3 DEF TypeOK, IInv, Way, Entered, Down
    <3> QED
      BY <1>2, <2>1, <2>3, <3>1, HandlerReturns
  <2>4. CASE Return(c, "InvalidArgument")
    BY <1>2, <2>1, <2>4, HandlerReturns
  <2>5. CASE Return(c, "NotFound")
    BY <1>2, <2>1, <2>5, HandlerReturns
  <2>6. CASE request[c].body = "good" /\ Return(c, "OK")
    BY <1>2, <2>1, <2>2, <2>6, HandlerReturns
  <2> QED
    BY <1>4, <2>3, <2>4, <2>5, <2>6 DEF GetUser
<1>5. CASE CreateOrder(c)
  <2>1. Down(c, "CreateOrder") /\ UNCHANGED <<request, ctx, log, payment, answer, crashed>>
    BY <1>5 DEF CreateOrder
  <2>2. request[c].body = "good" => Clears(c, "CreateOrder")
    BY DEF Clears
  <2>3. \/ Return(c, "InvalidArgument")
        \/ Return(c, "FailedPrecondition")
        \/ request[c].body = "good" /\ Return(c, "OK")
    BY <1>0, <1>5 DEF CreateOrder
  <2> QED
    BY <1>2, <2>1, <2>2, <2>3, HandlerReturns
<1>6. CASE LookUp(c)
  <2>1. Down(c, "LookUp") /\ UNCHANGED <<request, ctx, log, payment, answer, crashed>>
    BY <1>6 DEF LookUp
  <2>2. request[c].body = "good" => Clears(c, "LookUp")
    BY DEF Clears
  <2>3. \/ Return(c, "InvalidArgument")
        \/ Return(c, "NotFound")
        \/ request[c].body = "good" /\ Return(c, "OK")
    BY <1>0, <1>6 DEF LookUp
  <2> QED
    BY <1>2, <2>1, <2>2, <2>3, HandlerReturns
<1>7. CASE UserServiceClient(c)
  <2>1. request[c].body # "unlucky" => Clears(c, "UserServiceClient")
    BY DEF Clears
  <2> QED
    BY <1>2, <1>7, <2>1, HandlerReturns DEF UserServiceClient
<1>8. CASE UnimplementedUserServiceServer(c)
  BY <1>2, <1>8, HandlerReturns DEF UnimplementedUserServiceServer
<1>9. CASE Truncate(c)
  <2>1. Clears(c, "Truncate")
    BY <1>9 DEF Clears, Truncate, TooShort
  <2> QED
    BY <1>2, <1>9, <2>1, HandlerReturns DEF Truncate
<1> QED
  BY <1>3, <1>4, <1>5, <1>6, <1>7, <1>8, <1>9

\* The result goes up by one frame; 18's looks at it, 05's logs it.
LEMMA ComeUpPreserves ==
    ASSUME IInv, NEW c \in Call, ComeUp(c)
    PROVE  IInv'
<1>0. PICK code : code = Outcome(c)
  OBVIOUS
<1>1. TypeOK /\ Way(c)
  BY DEF IInv
<1>2. Sound(request[c].lesson, Frames(c))
  BY <1>1, FramesAreSound
<1>3. UNCHANGED <<request, ctx, worker, selecting, answer, crashed>>
  BY DEF ComeUp, payment
<1>4. /\ stage[c] \in 1..Len(Frames(c)) /\ stage[c] < Len(Frames(c))
      /\ Frames(c)[stage[c]] = At(c)
      /\ stage[c] \in Nat /\ Len(Frames(c)) \in Nat
      /\ result[c] # "none"
  BY <1>1, <1>2 DEF ComeUp, At, TypeOK, Sound
<1>5. /\ code \in Code
      /\ code = "OK" => result[c] = "OK"
      /\ code = "OK" /\ At(c) = "OrderManager" => request[c].body # "invalid"
      /\ At(c) # "OrderManager" => code = result[c]
  <2>1. result[c] \in Code
    BY <1>1, <1>4 DEF TypeOK
  <2> QED
    BY <1>0, <2>1 DEF Outcome, Code
<1>6. /\ stage' = [stage EXCEPT ![c] = stage[c] - 1]
      /\ result' = [result EXCEPT ![c] = code]
      /\ log' = IF At(c) = "Logging" THEN [log EXCEPT ![c] = result[c]] ELSE log
  BY <1>0 DEF ComeUp, Return
<1>7. /\ stage' \in [Call -> Nat]
      /\ stage'[c] = stage[c] - 1
      /\ \A d \in Call \ {c} : stage'[d] = stage[d]
  BY <1>1, <1>4, <1>6 DEF TypeOK
<1>8. /\ result' \in [Call -> Code \cup {"none"}]
      /\ result'[c] = code
      /\ \A d \in Call \ {c} : result'[d] = result[d]
  BY <1>1, <1>5, <1>6 DEF TypeOK
<1>9. /\ log' \in [Call -> Code \cup {"none"}]
      /\ At(c) = "Logging" => log'[c] = result[c]
      /\ \A d \in Call \ {c} : log'[d] = log[d]
  BY <1>1, <1>6 DEF TypeOK
<1>10. \A d \in Call : Frames(d)' = Frames(d)
  BY <1>3 DEF Frames
<1>11. TypeOK'
  <2>1. \A d \in Call : /\ stage'[d] <= Len(Frames(d))
                        /\ result'[d] # "none" => stage'[d] < Len(Frames(d))
    <3>1. stage'[c] < Len(Frames(c))
      BY <1>4, <1>7
    <3>2. \A d \in Call \ {c} : /\ stage'[d] <= Len(Frames(d))
                                /\ result'[d] # "none" => stage'[d] < Len(Frames(d))
      BY <1>1, <1>7, <1>8 DEF TypeOK
    <3> QED
      BY <1>4, <1>7, <3>1, <3>2
  <2> QED
    BY <1>1, <1>3, <1>7, <1>8, <1>9, <1>10, <2>1 DEF TypeOK
<1>12. Way(c)'
  <2>1. Authorized(c)' = Authorized(c)
    BY <1>3 DEF Authorized
  <2>2. \A x : Clears(c, x)' <=> Clears(c, x)
    BY <1>3, <2>1 DEF Clears
  <2>3. Checked(c)'
    <3>1. code # "none"
      BY <1>5 DEF Code
    <3>2. ASSUME code = "OK", NEW i \in 1..Len(Frames(c)),
                 i > stage[c] - 1 \/ Frames(c)[i] \in Checking
          PROVE  Clears(c, Frames(c)[i])
      <4>0. result[c] = "OK" /\ (At(c) = "OrderManager" => request[c].body # "invalid")
        BY <1>5, <3>2
      <4>1. CASE i > stage[c] \/ Frames(c)[i] \in Checking
        BY <1>1, <4>0, <4>1 DEF Way, Checked
      <4>2. CASE i = stage[c] /\ Frames(c)[i] \notin Checking
        <5>1. At(c) \in {"Logging", "OrderManager"} /\ Frames(c)[i] = At(c)
          BY <1>2, <1>4, <4>2 DEF Sound, Passing, Checking
        <5> QED
          BY <4>0, <5>1 DEF Clears
      <4> QED
        BY <1>4, <3>2, <4>1, <4>2
    <3> QED
      BY <1>7, <1>8, <1>10, <2>2, <3>1, <3>2 DEF Checked
  <2>4. Paid(c)'
    <3>1. request[c].lesson # "l03"
      BY <1>2, <1>4 DEF Sound
    <3> QED
      BY <1>1, <1>3, <3>1 DEF Way, Paid
  <2>5. Entered(c)'
    BY <1>1, <1>3, <1>4 DEF Way, Entered
  <2>6. Logged(c)'
    <3>1. ASSUME request[c].lesson = "l05", stage[c] = 1 PROVE log'[c] = result'[c]
      <4>1. At(c) = "Logging"
        BY <1>2, <1>4, <3>1 DEF Sound
      <4> QED
        BY <1>5, <1>8, <1>9, <4>1
    <3> QED
      BY <1>3, <1>4, <1>7, <3>1 DEF Logged, Returned
  <2> QED
    BY <2>3, <2>4, <2>5, <2>6 DEF Way
<1>13. \A d \in Call \ {c} : Same(d)
  BY <1>3, <1>7, <1>8, <1>9 DEF Same
<1> QED
  BY <1>11, <1>12, <1>13, OneCallChanges

-----------------------------------------------------------------------------
(* 03's payment.                                                           *)

\* A call that waits in the select is one of 03's, in its handler.
LEMMA Waiting ==
    ASSUME TypeOK, NEW c \in Call, Way(c), result[c] = "none",
           selecting[c] \/ worker[c] # "none" \/ Down(c, "ProcessPayment")
    PROVE  /\ request[c].lesson = "l03"
           /\ stage[c] = 1
           /\ Frames(c)[1] = "ProcessPayment" /\ Len(Frames(c)) = 1
           /\ At(c) = "ProcessPayment"
           /\ request[c].accepted
<1>1. Sound(request[c].lesson, Frames(c))
  BY FramesAreSound
<1>2. CASE Down(c, "ProcessPayment")
  <2>1. stage[c] \in 1..Len(Frames(c)) /\ Frames(c)[stage[c]] = "ProcessPayment"
    BY <1>1, <1>2 DEF Down, At, TypeOK, Sound
  <2> QED
    BY <1>1, <1>2, <2>1 DEF Sound, Down, Way, Entered
<1>3. CASE selecting[c] \/ worker[c] # "none"
  <2>1. request[c].lesson = "l03" /\ stage[c] = 1
    BY <1>3 DEF Way, Paid
  <2> QED
    BY <1>1, <2>1 DEF Sound, At, Way, Entered
<1> QED
  BY <1>2, <1>3

\* The goroutine gets on, which the rest of the call does not notice.
LEMMA WorkerPreserves ==
    ASSUME IInv, NEW c \in Call, Select(c) \/ BankDone(c)
    PROVE  IInv'
<1>1. TypeOK /\ Way(c)
  BY DEF IInv
<1>2. UNCHANGED <<request, ctx, stage, result, log, answer, crashed>>
  BY DEF Select, BankDone
<1>3. /\ worker' \in [Call -> {"none", "working", "sending", "ended"}]
      /\ selecting' \in [Call -> BOOLEAN]
      /\ \A d \in Call \ {c} : worker'[d] = worker[d] /\ selecting'[d] = selecting[d]
      /\ worker[c] # "none" /\ worker'[c] # "none"
      /\ worker'[c] = worker[c] \/ worker[c] = "working"
  BY <1>1 DEF Select, BankDone, TypeOK
<1>4. \A d \in Call : Frames(d)' = Frames(d)
  BY <1>2 DEF Frames
<1>5. TypeOK'
  BY <1>1, <1>2, <1>3, <1>4 DEF TypeOK
<1>6. Authorized(c)' = Authorized(c)
  BY <1>2 DEF Authorized
<1>7. Checked(c)'
  <2>1. \A x : Clears(c, x)' <=> Clears(c, x)
    BY <1>2, <1>6 DEF Clears
  <2> QED
    BY <1>1, <1>2, <1>4, <2>1 DEF Way, Checked
<1>8. Paid(c)'
  BY <1>1, <1>2, <1>3, <1>6 DEF Way, Paid
<1>9. Entered(c)'
  BY <1>1, <1>2, <1>3 DEF Way, Entered
<1>10. Logged(c)'
  BY <1>1, <1>2 DEF Way, Logged, Returned
<1>11. \A d \in Call \ {c} : Same(d)
  BY <1>2, <1>3 DEF Same
<1> QED
  BY <1>5, <1>7, <1>8, <1>9, <1>10, <1>11, OneCallChanges DEF Way

\* The handler starts the goroutine for a caller with the token, only.
LEMMA ProcessPaymentPreserves ==
    ASSUME IInv, NEW c \in Call, ProcessPayment(c)
    PROVE  IInv'
<1>1. TypeOK /\ Way(c) /\ Down(c, "ProcessPayment") /\ result[c] = "none"
  BY DEF IInv, ProcessPayment, Down
<1>2. /\ request[c].lesson = "l03" /\ stage[c] = 1
      /\ At(c) = "ProcessPayment" /\ request[c].accepted
  BY <1>1, Waiting
<1>3. CASE ~Authorized(c)
  BY <1>1, <1>2, <1>3, ReturnPreserves DEF ProcessPayment, payment, Code
<1>4. CASE Authorized(c)
  <2>1. /\ UNCHANGED <<request, ctx, stage, result, log, answer, crashed, selecting>>
        /\ worker' \in [Call -> {"none", "working", "sending", "ended"}]
        /\ worker[c] = "none" /\ worker'[c] = "working"
        /\ \A d \in Call \ {c} : worker'[d] = worker[d]
    BY <1>1, <1>4 DEF ProcessPayment, TypeOK
  <2>2. \A d \in Call : Frames(d)' = Frames(d)
    BY <2>1 DEF Frames
  <2>3. TypeOK'
    BY <1>1, <2>1, <2>2 DEF TypeOK
  <2>4. Authorized(c)' = Authorized(c)
    BY <2>1 DEF Authorized
  <2>5. Checked(c)'
    <3>1. \A x : Clears(c, x)' <=> Clears(c, x)
      BY <2>1, <2>4 DEF Clears
    <3> QED
      BY <1>1, <2>1, <2>2, <3>1 DEF Way, Checked
  <2>6. Paid(c)'
    <3>1. request[c].lesson = "l03" /\ "OK" \in {result[c], answer[c]} => FALSE
      BY <1>1, <2>1 DEF Way, Paid
    <3> QED
      BY <1>1, <1>2, <1>4, <2>1, <2>4, <3>1 DEF Paid
  <2>7. Entered(c)'
    BY <1>1, <1>2, <2>1 DEF Way, Entered
  <2>8. Logged(c)'
    BY <1>1, <2>1 DEF Way, Logged, Returned
  <2>9. \A d \in Call \ {c} : Same(d)
    BY <2>1 DEF Same
  <2> QED
    BY <2>3, <2>5, <2>6, <2>7, <2>8, <2>9, OneCallChanges DEF Way
<1> QED
  BY <1>3, <1>4

\* The bank's answer is the only way to OK.
LEMMA ReceiveDonePreserves ==
    ASSUME IInv, NEW c \in Call, ReceiveDone(c)
    PROVE  IInv'
<1>1. TypeOK /\ Way(c) /\ selecting[c] /\ result[c] = "none" /\ worker[c] = "sending"
  BY DEF IInv, ReceiveDone
<1>2. /\ request[c].lesson = "l03" /\ stage[c] = 1
      /\ Frames(c)[1] = "ProcessPayment" /\ Len(Frames(c)) = 1
      /\ request[c].accepted
      /\ Authorized(c)
  BY <1>1, Waiting DEF Way, Paid
<1>3. /\ UNCHANGED <<request, ctx, log, answer, crashed, selecting>>
      /\ worker' \in [Call -> {"none", "working", "sending", "ended"}]
      /\ worker'[c] = "ended"
      /\ \A d \in Call \ {c} : worker'[d] = worker[d]
  BY <1>1 DEF ReceiveDone, TypeOK
<1>4. /\ stage' \in [Call -> Nat]
      /\ stage'[c] = 0
      /\ \A d \in Call \ {c} : stage'[d] = stage[d]
  BY <1>1, <1>2 DEF ReceiveDone, Return, TypeOK
<1>5. /\ result' \in [Call -> Code \cup {"none"}]
      /\ result'[c] = "OK"
      /\ \A d \in Call \ {c} : result'[d] = result[d]
  BY <1>1 DEF ReceiveDone, Return, TypeOK, Code
<1>6. \A d \in Call : Frames(d)' = Frames(d)
  BY <1>3 DEF Frames
<1>7. TypeOK'
  <2>1. \A d \in Call : /\ stage'[d] <= Len(Frames(d))
                        /\ result'[d] # "none" => stage'[d] < Len(Frames(d))
    <3>1. stage'[c] < Len(Frames(c)) /\ stage'[c] <= Len(Frames(c))
      BY <1>2, <1>4
    <3>2. \A d \in Call \ {c} : /\ stage'[d] <= Len(Frames(d))
                                /\ result'[d] # "none" => stage'[d] < Len(Frames(d))
      BY <1>1, <1>4, <1>5 DEF TypeOK
    <3> QED
      BY <3>1, <3>2
  <2> QED
    BY <1>1, <1>3, <1>4, <1>5, <1>6, <2>1 DEF TypeOK
<1>8. Authorized(c)' = Authorized(c)
  BY <1>3 DEF Authorized
<1>9. Checked(c)'
  <2>1. Clears(c, "ProcessPayment")'
    BY <1>2, <1>8 DEF Clears
  <2> QED
    BY <1>2, <1>5, <1>6, <2>1 DEF Checked
<1>10. Paid(c)'
  BY <1>2, <1>3, <1>5, <1>8 DEF Paid
<1>11. Entered(c)'
  BY <1>1, <1>2, <1>3 DEF Way, Entered
<1>12. Logged(c)'
  BY <1>2, <1>3 DEF Logged
<1>13. \A d \in Call \ {c} : Same(d)
  BY <1>3, <1>4, <1>5 DEF Same
<1> QED
  BY <1>7, <1>9, <1>10, <1>11, <1>12, <1>13, OneCallChanges DEF Way

LEMMA ReceiveCancelledPreserves ==
    ASSUME IInv, NEW c \in Call, ReceiveCancelled(c)
    PROVE  IInv'
<1>1. TypeOK /\ Way(c) /\ selecting[c] /\ result[c] = "none"
  BY DEF IInv, ReceiveCancelled
<1>2. stage[c] = 1 /\ At(c) = "ProcessPayment"
  BY <1>1, Waiting
<1> QED
  BY <1>1, <1>2, ReturnPreserves DEF ReceiveCancelled, Code

-----------------------------------------------------------------------------
(* The caller, the connection and the process.                             *)

\* Before a call is sent nothing has happened to it, so nothing its new
\* request is subject to has been passed by.
LEMMA SendPreserves ==
    ASSUME IInv, NEW c \in Call, Send(c)
    PROVE  IInv'
<1>1. TypeOK /\ Way(c)
  BY DEF IInv
<1>2. /\ UNCHANGED <<stage, result, log, worker, selecting, answer, crashed>>
      /\ stage[c] = 0 /\ result[c] = "none" /\ worker[c] = "none"
      /\ ~selecting[c] /\ answer[c] = "none"
  BY <1>1 DEF Send, payment, Way, Entered
<1>3. /\ request' \in [Call -> Request]
      /\ \A d \in Call \ {c} : request'[d] = request[d]
  BY <1>1 DEF Send, TypeOK
<1>4. /\ ctx' \in [Call -> {"none", "open", "Canceled", "DeadlineExceeded"}]
      /\ ctx'[c] = "open"
      /\ \A d \in Call \ {c} : ctx'[d] = ctx[d]
  BY <1>1 DEF Send, TypeOK
<1>5. TypeOK'
  <2>1. Sound(request'[c].lesson, Frames(c)')
    <3>1. WellFormed(request'[c])
      BY <1>3, RequestsAreWellFormed
    <3> QED
      BY <3>1, ChainsAreSound DEF Frames, WellFormed
  <2>2. stage'[c] <= Len(Frames(c)') /\ stage'[c] < Len(Frames(c)')
    BY <1>2, <2>1 DEF Sound
  <2>3. ASSUME NEW d \in Call \ {c}
        PROVE  /\ stage'[d] <= Len(Frames(d)')
               /\ result'[d] # "none" => stage'[d] < Len(Frames(d)')
    <3>1. Frames(d)' = Frames(d)
      BY <1>3 DEF Frames
    <3> QED
      BY <1>1, <1>2, <3>1 DEF TypeOK
  <2>4. \A d \in Call : /\ stage'[d] <= Len(Frames(d)')
                        /\ result'[d] # "none" => stage'[d] < Len(Frames(d)')
    BY <2>2, <2>3
  <2> QED
    BY <1>1, <1>2, <1>3, <1>4, <2>4 DEF TypeOK
<1>6. Way(c)'
  <2>1. Checked(c)'
    BY <1>2 DEF Checked
  <2>2. Paid(c)'
    BY <1>2 DEF Paid
  <2>3. Entered(c)'
    BY <1>2, <1>4 DEF Entered
  <2>4. Logged(c)'
    BY <1>2 DEF Logged, Returned
  <2> QED
    BY <2>1, <2>2, <2>3, <2>4 DEF Way
<1>7. \A d \in Call \ {c} : Same(d)
  BY <1>2, <1>3, <1>4 DEF Same
<1> QED
  BY <1>5, <1>6, <1>7, OneCallChanges

\* The caller has an answer: an error, or what came back.
LEMMA AnswersPreserve ==
    ASSUME IInv, NEW c \in Call, FailHandshake(c) \/ Deadline(c) \/ Reply(c)
    PROVE  IInv'
<1>1. TypeOK /\ Way(c)
  BY DEF IInv
<1>2. UNCHANGED <<request, stage, result, log, worker, selecting, crashed>>
  BY DEF FailHandshake, Deadline, Reply, payment
<1>3. /\ answer' \in [Call -> Code \cup {"none"}]
      /\ \A d \in Call \ {c} : answer'[d] = answer[d]
      /\ answer'[c] = "OK" => result[c] = "OK"
  BY <1>1 DEF FailHandshake, Deadline, Reply, TypeOK, Code
<1>4. /\ ctx' \in [Call -> {"none", "open", "Canceled", "DeadlineExceeded"}]
      /\ \A d \in Call \ {c} : ctx'[d] = ctx[d]
      /\ ctx'[c] # "none"
  <2>1. CASE FailHandshake(c)
    BY <1>1, <2>1 DEF FailHandshake, TypeOK
  <2>2. CASE Deadline(c)
    BY <1>1, <2>2 DEF Deadline, TypeOK
  <2>3. CASE Reply(c)
    BY <1>1, <2>3 DEF Reply, Returned, TypeOK, Way, Entered
  <2> QED
    BY <2>1, <2>2, <2>3
<1>5. \A d \in Call : Frames(d)' = Frames(d)
  BY <1>2 DEF Frames
<1>6. TypeOK'
  BY <1>1, <1>2, <1>3, <1>4, <1>5 DEF TypeOK
<1>7. Authorized(c)' = Authorized(c)
  BY <1>2 DEF Authorized
<1>8. Checked(c)'
  <2>1. \A x : Clears(c, x)' <=> Clears(c, x)
    BY <1>2, <1>7 DEF Clears
  <2> QED
    BY <1>1, <1>2, <1>5, <2>1 DEF Way, Checked
<1>9. Paid(c)'
  BY <1>1, <1>2, <1>3, <1>7 DEF Way, Paid
<1>10. Entered(c)'
  BY <1>1, <1>2, <1>4 DEF Way, Entered
<1>11. Logged(c)'
  BY <1>1, <1>2 DEF Way, Logged, Returned
<1>12. \A d \in Call \ {c} : Same(d)
  BY <1>2, <1>3, <1>4 DEF Same
<1> QED
  BY <1>6, <1>8, <1>9, <1>10, <1>11, <1>12, OneCallChanges DEF Way

\* The server lets a call in whose method it has; 05's is the only chain
\* whose errors must be logged, and it has.
LEMMA ReceivePreserves ==
    ASSUME IInv, NEW c \in Call, Receive(c)
    PROVE  IInv'
<1>1. TypeOK /\ Way(c)
  BY DEF IInv
<1>2. WellFormed(request[c]) /\ Sound(request[c].lesson, Frames(c))
  BY <1>1, FramesAreSound
<1>3. /\ UNCHANGED <<request, ctx, log, worker, selecting, answer, crashed>>
      /\ ctx[c] # "none" /\ request[c].accepted
      /\ stage[c] = 0 /\ result[c] = "none"
  BY DEF Receive, payment
<1>4. worker[c] = "none" /\ ~selecting[c]
  BY <1>1, <1>3 DEF Way, Paid
<1>5. /\ stage' \in [Call -> Nat]
      /\ \A d \in Call \ {c} : stage'[d] = stage[d]
      /\ result' \in [Call -> Code \cup {"none"}]
      /\ \A d \in Call \ {c} : result'[d] = result[d]
      /\ \/ stage'[c] = 1 /\ result'[c] = "none"
         \/ /\ stage'[c] = 0 /\ result'[c] = "Unimplemented"
            /\ request[c].lesson # "l05"
  <2>1. CASE Handles(Chain[request[c].lesson].services, request[c].method)
    <3>1. stage' = [stage EXCEPT ![c] = stage[c] + 1] /\ result' = result
      BY <2>1 DEF Receive, Inside
    <3> QED
      BY <1>1, <1>3, <3>1 DEF TypeOK
  <2>2. CASE ~Handles(Chain[request[c].lesson].services, request[c].method)
    <3>1. request[c].lesson # "l05"
      BY <1>2, <2>2, PaymentIsHandled DEF WellFormed
    <3>2. stage' = stage /\ result' = [result EXCEPT ![c] = "Unimplemented"]
      BY <2>2 DEF Receive
    <3> QED
      BY <1>1, <1>3, <3>1, <3>2 DEF TypeOK, Code
  <2> QED
    BY <2>1, <2>2
<1>6. \A d \in Call : Frames(d)' = Frames(d)
  BY <1>3 DEF Frames
<1>7. TypeOK'
  <2>1. \A d \in Call : /\ stage'[d] <= Len(Frames(d))
                        /\ result'[d] # "none" => stage'[d] < Len(Frames(d))
    <3>1. /\ stage'[c] <= Len(Frames(c))
          /\ result'[c] # "none" => stage'[c] < Len(Frames(c))
      BY <1>2, <1>5 DEF Sound
    <3>2. \A d \in Call \ {c} : /\ stage'[d] <= Len(Frames(d))
                                /\ result'[d] # "none" => stage'[d] < Len(Frames(d))
      BY <1>1, <1>5 DEF TypeOK
    <3> QED
      BY <3>1, <3>2
  <2> QED
    BY <1>1, <1>3, <1>5, <1>6, <2>1 DEF TypeOK
<1>8. Checked(c)'
  <2>1. \A i \in 1..Len(Frames(c)) : ~(i < 1)
    BY <1>2 DEF Sound
  <2> QED
    BY <1>5, <1>6, <2>1 DEF Checked
<1>9. Paid(c)'
  BY <1>1, <1>3, <1>4, <1>5 DEF Way, Paid
<1>10. Entered(c)'
  BY <1>3 DEF Entered
<1>11. Logged(c)'
  BY <1>3, <1>5 DEF Logged, Returned
<1>12. \A d \in Call \ {c} : Same(d)
  BY <1>3, <1>5 DEF Same
<1> QED
  BY <1>7, <1>8, <1>9, <1>10, <1>11, <1>12, OneCallChanges DEF Way

\* A panic ends 14's calls, none of which is logged or pays.
LEMMA PanicPreserves ==
    ASSUME IInv, NEW c \in Call, Panic(c)
    PROVE  IInv'
<1>1. TypeOK
  BY DEF IInv
<1>2. UNCHANGED <<request, ctx, log, worker, selecting, answer>> /\ crashed' = TRUE
  BY DEF Panic, payment
<1>3. PICK ended \in SUBSET { d \in Call : request[d].lesson = "l14"
                                           /\ (stage[d] > 0 \/ Returned(d)) } :
          /\ \A d \in Call : stage[d] > 0 /\ request[d].lesson = "l14" => d \in ended
          /\ stage' = [d \in Call |-> IF d \in ended THEN 0 ELSE stage[d]]
          /\ result' = [d \in Call |-> IF d \in ended THEN "Unavailable" ELSE result[d]]
  <2> DEFINE cut == {d \in Call : request[d].lesson = "l14" /\ stage[d] > 0}
             leaving == {d \in Call : request[d].lesson = "l14" /\ Returned(d)
                                                            /\ answer[d] = "none"}
  <2>1. PICK lost \in SUBSET leaving :
            result' = [d \in Call |-> IF d \in cut \cup lost
                                      THEN "Unavailable" ELSE result[d]]
    BY DEF Panic
  <2>2. stage' = [d \in Call |-> IF d \in cut THEN 0 ELSE stage[d]]
    BY DEF Panic
  <2>3. \A d \in lost : stage[d] = 0
    BY <2>1 DEF Returned
  <2>4. stage' = [d \in Call |-> IF d \in cut \cup lost THEN 0 ELSE stage[d]]
    BY <2>2, <2>3
  <2>5. cut \cup lost \in SUBSET { d \in Call : request[d].lesson = "l14"
                                               /\ (stage[d] > 0 \/ Returned(d)) }
    BY <2>1
  <2> HIDE DEF cut
  <2>6. \A d \in Call : stage[d] > 0 /\ request[d].lesson = "l14" => d \in cut \cup lost
    BY DEF cut
  <2> QED
    BY <2>1, <2>4, <2>5, <2>6
<1>4. \A d \in Call : Frames(d)' = Frames(d)
  BY <1>2 DEF Frames
<1>5. TypeOK'
  <2>1. stage' \in [Call -> Nat] /\ result' \in [Call -> Code \cup {"none"}]
    BY <1>1, <1>3 DEF TypeOK, Code
  <2>2. ASSUME NEW d \in Call
        PROVE  /\ stage'[d] <= Len(Frames(d))
               /\ result'[d] # "none" => stage'[d] < Len(Frames(d))
    <3>1. CASE d \in ended
      <4>1. Sound(request[d].lesson, Frames(d))
        BY <1>1, FramesAreSound
      <4> QED
        BY <1>3, <3>1, <4>1 DEF Sound
    <3>2. CASE d \notin ended
      BY <1>1, <1>3, <3>2 DEF TypeOK
    <3> QED
      BY <3>1, <3>2
  <2>3. crashed' \in BOOLEAN
    BY <1>2
  <2>4. \A d \in Call : /\ stage'[d] <= Len(Frames(d)')
                        /\ result'[d] # "none" => stage'[d] < Len(Frames(d)')
    BY <1>4, <2>2
  <2> QED
    BY <1>1, <1>2, <2>1, <2>3, <2>4 DEF TypeOK
<1>6. ASSUME NEW d \in Call PROVE Way(d)'
  <2>1. Way(d)
    BY DEF IInv
  <2>2. CASE d \in ended
    <3>1. /\ request[d].lesson = "l14" /\ (stage[d] > 0 \/ Returned(d))
          /\ stage'[d] = 0 /\ result'[d] = "Unavailable"
      BY <1>3, <2>2
    <3>2. worker[d] = "none" /\ ~selecting[d]
      BY <2>1, <3>1 DEF Way, Paid
    <3>3. ctx[d] # "none" /\ request[d].accepted
      BY <1>1, <2>1, <3>1 DEF Way, Entered, Returned, TypeOK
    <3>4. Checked(d)'
      BY <3>1 DEF Checked
    <3>5. Paid(d)'
      BY <1>2, <3>1, <3>2 DEF Paid
    <3>6. Entered(d)'
      BY <1>2, <3>3 DEF Entered
    <3>7. Logged(d)'
      BY <1>2, <3>1 DEF Logged
    <3> QED
      BY <3>4, <3>5, <3>6, <3>7 DEF Way
  <2>3. CASE d \notin ended
    BY <1>2, <1>3, <2>1, <2>3, OthersKeep
  <2> QED
    BY <2>2, <2>3
<1> QED
  BY <1>5, <1>6 DEF IInv

-----------------------------------------------------------------------------
(* The theorems.                                                           *)

\* The inductive invariant holds of no call and of every step.
LEMMA InitEstablishes == Init => IInv
<1> SUFFICES ASSUME Init PROVE IInv
  OBVIOUS
<1> DEFINE first == [lesson |-> "l01", method |-> GetUserV1, accepted |-> TRUE,
                     body |-> "good", tokens |-> <<>>]
<1>1. first \in Request
  BY DEF Request, UserRequests, Plain, Requests
<1>2. \A c \in Call : request[c] = first
  BY DEF Init
<1>3. \A c \in Call : /\ stage[c] = 0 /\ result[c] = "none" /\ worker[c] = "none"
                      /\ ~selecting[c] /\ answer[c] = "none"
  BY DEF Init
<1>4. TypeOK
  <2>1. \A c \in Call : stage[c] <= Len(Frames(c))
    BY <1>2, <1>3, FramesOfLessons DEF Frames
  <2>2. request \in [Call -> Request]
    BY <1>1 DEF Init
  <2> QED
    BY <1>3, <2>1, <2>2 DEF Init, TypeOK
<1>5. \A c \in Call : Way(c)
  BY <1>3 DEF Way, Checked, Paid, Entered, Logged, Returned
<1> QED
  BY <1>4, <1>5 DEF IInv

LEMMA StepPreserves == IInv /\ [Next]_vars => IInv'
<1> SUFFICES ASSUME IInv, [Next]_vars PROVE IInv'
  OBVIOUS
<1>1. CASE UNCHANGED vars
  <2>1. TypeOK'
    BY <1>1 DEF IInv, TypeOK, vars, payment, Frames
  <2>2. \A d \in Call : Way(d)'
    BY <1>1, OthersKeep DEF IInv, vars, payment
  <2> QED
    BY <2>1, <2>2 DEF IInv
<1>2. ASSUME NEW c \in Call, Send(c) PROVE IInv'
  BY <1>2, SendPreserves
<1>3. ASSUME NEW c \in Call, FailHandshake(c) \/ Deadline(c) \/ Reply(c) PROVE IInv'
  BY <1>3, AnswersPreserve
<1>4. ASSUME NEW c \in Call, ServerStep(c) PROVE IInv'
  BY <1>4, ReceivePreserves, InterceptorsPreserve, HandlersPreserve, ComeUpPreserves,
     WorkerPreserves, ProcessPaymentPreserves, ReceiveDonePreserves,
     ReceiveCancelledPreserves, PanicPreserves DEF ServerStep
<1> QED
  BY <1>1, <1>2, <1>3, <1>4 DEF Next

LEMMA Invariance == Spec => []IInv
<1>1. Init => IInv
  BY InitEstablishes
<1>2. IInv /\ [Next]_vars => IInv'
  BY StepPreserves
<1> QED
  BY <1>1, <1>2, PTL DEF Spec

\* Every call is at a frame of its chain or outside of it, and has a result
\* only above its handler.
THEOREM TypeCorrect == Spec => []TypeOK
<1>1. IInv => TypeOK
  BY DEF IInv
<1> QED
  BY <1>1, Invariance, PTL

\* No request that a check of its lesson rejects begins a payment or is
\* answered OK, whatever tokens there are and however many calls.
THEOREM ChecksComeFirst == Spec => []OnlyCheckedRequestsServed
<1>1. ASSUME IInv, NEW c \in Call,
             worker[c] # "none" \/ (Returned(c) /\ result[c] = "OK")
      PROVE  /\ request[c].accepted
             /\ request[c].lesson \in BodyLesson =>
                    \/ request[c].body = "good"
                    \/ request[c].lesson = "l14" /\ request[c].body = "unlucky"
             /\ request[c].lesson \in TokenLesson => Authorized(c)
  <2>1. TypeOK /\ Way(c)
    BY <1>1 DEF IInv
  <2>2. WellFormed(request[c]) /\ Sound(request[c].lesson, Frames(c))
    BY <2>1, FramesAreSound
  <2>3. request[c].accepted
    BY <1>1, <2>1 DEF Way, Entered, Returned
  <2>4. CASE worker[c] # "none"
    BY <2>1, <2>3, <2>4 DEF Way, Paid, BodyLesson
  <2>5. CASE Returned(c) /\ result[c] = "OK"
    <3>1. \A i \in 1..Len(Frames(c)) : Clears(c, Frames(c)[i])
      BY <2>1, <2>2, <2>5 DEF Way, Checked, Returned, Sound
    <3>2. request[c].lesson \in {"l01", "l04", "l10"} => request[c].body = "good"
      BY <2>2, <3>1 DEF Sound, Clears
    <3>3. request[c].lesson \in {"l08", "l20"} => request[c].body = "good"
      BY <2>2, <3>1 DEF Sound, Clears, WellFormed
    <3>4. request[c].lesson = "l18" => request[c].body = "good"
      BY <2>2, <3>1 DEF Sound, Clears, WellFormed
    <3>5. request[c].lesson = "l14" => request[c].body \in {"good", "unlucky"}
      BY <2>2, <3>1 DEF Sound, Clears, WellFormed
    <3>6. request[c].lesson \in {"l05", "l06"} => Authorized(c)
      BY <2>2, <3>1 DEF Sound, Clears
    <3>7. request[c].lesson = "l03" => Authorized(c)
      BY <2>2, <3>1 DEF Sound, Clears
    <3> QED
      BY <2>3, <3>2, <3>3, <3>4, <3>5, <3>6, <3>7 DEF BodyLesson, TokenLesson
  <2> QED
    BY <1>1, <2>4, <2>5
<1>2. IInv => OnlyCheckedRequestsServed
  BY <1>1 DEF OnlyCheckedRequestsServed, Authorized
<1> QED
  BY <1>2, Invariance, PTL

\* 05's log has every call that came out of the chain, as it was answered.
THEOREM LogIsTrue == Spec => []LoggedAsAnswered
<1>1. IInv => LoggedAsAnswered
  BY DEF IInv, Way, Logged, LoggedAsAnswered
<1> QED
  BY <1>1, Invariance, PTL

\* 03 tells a caller OK only of a payment the bank has processed, whatever
\* the order of the bank's answer, the deadline and the select.
THEOREM NoUnpaidSuccess == Spec => []SuccessIsPaid
<1>1. IInv => SuccessIsPaid
  BY DEF IInv, Way, Paid, SuccessIsPaid
<1> QED
  BY <1>1, Invariance, PTL

-----------------------------------------------------------------------------
(* Why calls fail for want of a server or a method.                        *)

\* The names of 22's snapshot lead its client to its server.
LEMMA SnapshotLeadsToServer ==
    "127.0.0.1:50055" \in Resolve("grpc-client-node", "user-service")
<1> DEFINE route == [name |-> "local_route", domain |-> "user-service",
                     cluster |-> "user-service-cluster"]
           listener == [name |-> "user-service", route |-> "local_route"]
           endpoint == [cluster |-> "user-service-cluster", address |-> "127.0.0.1:50055"]
           routes == { r \in Snapshot.routes :
                           /\ r.domain = "user-service"
                           /\ \E l \in Snapshot.listeners : /\ l.name = "user-service"
                                                            /\ l.route = r.name }
           found == { e \in Snapshot.endpoints :
                          /\ e.cluster \in Snapshot.clusters
                          /\ \E r \in routes : r.cluster = e.cluster }
<1>1. /\ Snapshot.node = "grpc-client-node"
      /\ Snapshot.listeners = {listener}
      /\ Snapshot.routes = {route}
      /\ Snapshot.clusters = {"user-service-cluster"}
      /\ Snapshot.endpoints = {endpoint}
  BY DEF Snapshot
<1>2. route \in routes
  BY <1>1
<1>3. endpoint \in found
  BY <1>1, <1>2
<1>4. endpoint.address \in { e.address : e \in found }
  BY <1>3
<1>5. Resolve("grpc-client-node", "user-service") = { e.address : e \in found }
  BY <1>1 DEF Resolve
<1> QED
  BY <1>4, <1>5

\* A request that finds no server or no handler is one that must not.
Doomed(r) ==
    /\ ~r.accepted => r.lesson \in {"l06", "l15"}
    /\ ~Handles(Chain[r.lesson].services, r.method) =>
           r.lesson = "l01" /\ r.method = ServerReflectionInfo

\* Every chain registers what its lesson's callers ask for.
LEMMA StubsMeetRegistrations ==
    /\ Handles(Chain["l01"].services, GetUserV1)
    /\ Handles(Chain["l03"].services, ProcessPaymentV1)
    /\ Handles(Chain["l04"].services, CreateOrderV1)
    /\ Handles(Chain["l05"].services, ProcessPaymentV1)
    /\ Handles(Chain["l06"].services, GetSensitiveDataV1)
    /\ Handles(Chain["l07"].services, GetUserV1)
    /\ Handles(Chain["l07"].services, ServerReflectionInfo)
    /\ Handles(Chain["health"].services, Check)
    /\ Handles(Chain["l08"].services, GetUserV1)
    /\ Handles(Chain["l10"].services, GetUserV1)
    /\ Handles(Chain["l11"].services, GetUserV1)
    /\ Handles(Chain["l13"].services, GetUserV1)
    /\ Handles(Chain["l14"].services, GetUserV1)
    /\ Handles(Chain["l15"].services, GetUserV1)
    /\ Handles(Chain["l18"].services, GetUserV1)
    /\ Handles(Chain["l20"].services, CreateUserV2)
    /\ Handles(Chain["l22"].services, GetUserV1)
    /\ Handles(Chain["l09"].services, PingV1)
    /\ Handles(Chain["l99"].services, GetUserV99)
<1> USE DEF Handles, Desc
<1>1. /\ \A services : UserService \in services => Handles(services, GetUserV1)
      /\ \A services : UserServiceV2 \in services => Handles(services, CreateUserV2)
      /\ \A services : OrderService \in services => Handles(services, CreateOrderV1)
      /\ \A services : PaymentService \in services => Handles(services, ProcessPaymentV1)
      /\ \A services : SecureService \in services => Handles(services, GetSensitiveDataV1)
      /\ \A services : EchoService \in services => Handles(services, PingV1)
      /\ \A services : UserServiceV99 \in services => Handles(services, GetUserV99)
      /\ \A services : Health \in services => Handles(services, Check)
      /\ \A services : ServerReflection \in services => Handles(services, ServerReflectionInfo)
  BY DEF UserService, GetUserV1, UserServiceV2, CreateUserV2, OrderService, CreateOrderV1,
         PaymentService, ProcessPaymentV1, SecureService, GetSensitiveDataV1, EchoService,
         PingV1, UserServiceV99, GetUserV99, Health, Check, ServerReflection,
         ServerReflectionInfo
<1> HIDE DEF Handles, Desc
<1>2. /\ \A lesson \in {"l01", "l07", "l08", "l10", "l11", "l13", "l14", "l15", "l18", "l22"} :
             UserService \in Chain[lesson].services
      /\ \A lesson \in {"l03", "l05"} : PaymentService \in Chain[lesson].services
      /\ OrderService \in Chain["l04"].services
      /\ SecureService \in Chain["l06"].services
      /\ ServerReflection \in Chain["l07"].services
      /\ Health \in Chain["health"].services
      /\ UserServiceV2 \in Chain["l20"].services
      /\ EchoService \in Chain["l09"].services
      /\ UserServiceV99 \in Chain["l99"].services
  BY DEF Chain, Server, UserChain, PaymentChain, OrderChain, InterceptedChain, SecureChain,
     ReflectionServices, ReflectionChain, HealthChain, RestChain, TestChain, ObservedChain,
     KeepaliveChain, CompressedChain, MultiplexedChain, ManagerChain, ValidatedChain,
     RoutedChain, EchoChain, ClusterChain
<1> QED
  BY <1>1, <1>2

LEMMA RequestsHaveCauses ==
    \A r \in Request : Doomed(r)
<1> USE StubsMeetRegistrations DEF Plain, Requests, Doomed
<1>1. \A r \in UserRequests \cup PaymentRequests \cup OrderRequests : Doomed(r)
  BY DEF UserRequests, PaymentRequests, OrderRequests
<1>2. \A r \in InterceptedRequests \cup SecureRequests \cup ReflectionRequests : Doomed(r)
  BY DEF InterceptedRequests, SecureRequests, ReflectionRequests
<1>3. \A r \in RestRequests \cup TestRequests \cup ObservedRequests : Doomed(r)
  BY DEF RestRequests, TestRequests, ObservedRequests
<1>4. \A r \in KeepaliveRequests \cup CompressedRequests \cup MultiplexedRequests : Doomed(r)
  BY DEF KeepaliveRequests, CompressedRequests, MultiplexedRequests
<1>5. \A r \in ManagerRequests \cup ValidatedRequests \cup RoutedRequests : Doomed(r)
  BY SnapshotLeadsToServer DEF ManagerRequests, ValidatedRequests, RoutedRequests
<1>6. \A r \in EchoRequests \cup ClusterRequests : Doomed(r)
  BY DEF EchoRequests, ClusterRequests
<1>7. \A r \in GrpcurlRequests : Doomed(r)
  <2> SUFFICES ASSUME NEW r \in GrpcurlRequests PROVE Doomed(r)
    OBVIOUS
  <2>1. PICK lesson \in {"l01", "l07"} : r \in Plain(lesson, ServerReflectionInfo, {"good"})
    BY DEF GrpcurlRequests
  <2> QED
    BY <2>1
<1> HIDE DEF Plain, Requests, Doomed
<1> QED
  BY <1>1, <1>2, <1>3, <1>4, <1>5, <1>6, <1>7 DEF Request

\* The errors of a call have a cause, in itself or in 14's end.
Blamed(c) ==
    /\ "Unavailable" \in {result[c], answer[c]} =>
           ~request[c].accepted \/ (crashed /\ request[c].lesson = "l14")
    /\ "Unimplemented" \in {result[c], answer[c]} =>
           \/ request[c].lesson = "l13"
           \/ ~Handles(Chain[request[c].lesson].services, request[c].method)

\* A call ended 14's process, and stays the one that did.
Culprit ==
    crashed => \E d \in Call : /\ ctx[d] # "none"
                               /\ request[d].lesson = "l14"
                               /\ request[d].body = "invalid"

Causes == Culprit /\ \A c \in Call : Blamed(c)

\* A result that is neither of the two errors needs no cause.
LEMMA OtherCodesKeep ==
    ASSUME TypeOK, Causes, NEW c \in Call, NEW code,
           code \notin {"Unavailable", "Unimplemented"},
           result' = [result EXCEPT ![c] = code],
           UNCHANGED <<request, ctx, answer, crashed>>
    PROVE  Causes'
<1>1. result'[c] = code /\ \A d \in Call \ {c} : result'[d] = result[d]
  BY DEF TypeOK
<1>2. Culprit'
  BY DEF Causes, Culprit
<1>3. \A d \in Call : Blamed(d)'
  BY <1>1 DEF Causes, Blamed
<1> QED
  BY <1>2, <1>3 DEF Causes

LEMMA SendKeepsCauses ==
    ASSUME IInv, Causes, NEW c \in Call, Send(c)
    PROVE  Causes'
<1>1. TypeOK /\ Way(c)
  BY DEF IInv
<1>2. /\ UNCHANGED <<result, answer, crashed>>
      /\ ctx[c] = "none" /\ result[c] = "none" /\ answer[c] = "none"
      /\ \A d \in Call \ {c} : request'[d] = request[d] /\ ctx'[d] = ctx[d]
  BY <1>1 DEF Send, Way, Entered, TypeOK
<1>3. Culprit'
  BY <1>2 DEF Causes, Culprit
<1>4. \A d \in Call : Blamed(d)'
  BY <1>2 DEF Causes, Blamed
<1> QED
  BY <1>3, <1>4 DEF Causes

LEMMA AnswersKeepCauses ==
    ASSUME IInv, Causes, NEW c \in Call, FailHandshake(c) \/ Deadline(c) \/ Reply(c)
    PROVE  Causes'
<1>1. TypeOK
  BY DEF IInv
<1>2. UNCHANGED <<request, result, crashed>>
  BY DEF FailHandshake, Deadline, Reply
<1>3. /\ \A d \in Call \ {c} : answer'[d] = answer[d]
      /\ \/ answer'[c] \in {result[c], "DeadlineExceeded"}
         \/ answer'[c] = "Unavailable" /\ (~request[c].accepted \/ Gone(c))
  BY <1>1 DEF FailHandshake, Deadline, Reply, TypeOK
<1>4. \A d \in Call : ctx[d] # "none" => ctx'[d] # "none"
  <2>1. CASE Deadline(c)
    BY <1>1, <2>1 DEF Deadline, TypeOK
  <2>2. CASE FailHandshake(c) \/ Reply(c)
    BY <2>2 DEF FailHandshake, Reply
  <2> QED
    BY <2>1, <2>2
<1>5. Culprit'
  BY <1>2, <1>4 DEF Causes, Culprit
<1>6. \A d \in Call : Blamed(d)'
  BY <1>2, <1>3 DEF Causes, Blamed, Gone
<1> QED
  BY <1>5, <1>6 DEF Causes

LEMMA ReceiveKeepsCauses ==
    ASSUME IInv, Causes, NEW c \in Call, Receive(c)
    PROVE  Causes'
<1>1. TypeOK
  BY DEF IInv
<1>2. UNCHANGED <<request, ctx, answer, crashed>>
  BY DEF Receive
<1>3. /\ \A d \in Call \ {c} : result'[d] = result[d]
      /\ \/ result'[c] = result[c]
         \/ /\ result'[c] = "Unimplemented"
            /\ ~Handles(Chain[request[c].lesson].services, request[c].method)
  <2>1. CASE Handles(Chain[request[c].lesson].services, request[c].method)
    BY <2>1 DEF Receive, Inside
  <2>2. CASE ~Handles(Chain[request[c].lesson].services, request[c].method)
    <3>1. result' = [result EXCEPT ![c] = "Unimplemented"]
      BY <2>2 DEF Receive
    <3> QED
      BY <1>1, <2>2, <3>1 DEF TypeOK
  <2> QED
    BY <2>1, <2>2
<1>4. Culprit'
  BY <1>2 DEF Causes, Culprit
<1>5. \A d \in Call : Blamed(d)'
  BY <1>2, <1>3 DEF Causes, Blamed
<1> QED
  BY <1>4, <1>5 DEF Causes

\* Interceptors and handlers give other errors, and pass on those they get.
LEMMA FramesKeepCauses ==
    ASSUME IInv, Causes, NEW c \in Call, ServerStep(c), ~Receive(c), ~Panic(c)
    PROVE  Causes'
<1>1. TypeOK /\ Way(c) /\ Sound(request[c].lesson, Frames(c))
  BY FramesAreSound DEF IInv
<1>2. UNCHANGED <<request, ctx, answer, crashed>>
  BY DEF ServerStep, LoggingInterceptor, AuthInterceptor, ValidationInterceptor, ServeMux,
         OrderManager, ComeUp, Handler, GetUser, CreateOrder, LookUp, UserServiceClient,
         UnimplementedUserServiceServer, Truncate, ProcessPayment, Select, BankDone,
         ReceiveDone, ReceiveCancelled
<1>3. CASE result' = result
  BY <1>2, <1>3 DEF Causes, Culprit, Blamed
<1>4. CASE \E code : /\ code \notin {"Unavailable", "Unimplemented"}
                     /\ result' = [result EXCEPT ![c] = code]
  BY <1>1, <1>2, <1>4, OtherCodesKeep
<1>5. CASE LoggingInterceptor(c) \/ OrderManager(c) \/ Select(c) \/ BankDone(c)
  BY <1>3, <1>5 DEF LoggingInterceptor, OrderManager, Select, BankDone, Inside
<1>6. CASE AuthInterceptor(c) \/ ValidationInterceptor(c) \/ ServeMux(c) \/ ProcessPayment(c)
  <2>1. \/ result' = result
        \/ \E code \in {"Unauthenticated", "InvalidArgument", "NotFound"} : Return(c, code)
    BY <1>6 DEF AuthInterceptor, ValidationInterceptor, ServeMux, ProcessPayment, Inside
  <2> QED
    BY <1>3, <1>4, <2>1 DEF Return
<1>7. CASE Handler(c) \/ Truncate(c) \/ ReceiveDone(c) \/ ReceiveCancelled(c)
           \/ UserServiceClient(c)
  <2>1. \E code \in {"OK", "NotFound", "Canceled"} : Return(c, code)
    BY <1>7 DEF Handler, Truncate, ReceiveDone, ReceiveCancelled, UserServiceClient
  <2> QED
    BY <1>4, <2>1 DEF Return
<1>8. CASE CreateOrder(c) \/ LookUp(c)
  <2>1. request[c].body \in {"invalid", "unlucky", "good"}
    BY <1>1, FramesAreSound DEF WellFormed
  <2>2. \E code \in {"OK", "InvalidArgument", "FailedPrecondition", "NotFound"} :
            Return(c, code)
    BY <1>8, <2>1 DEF CreateOrder, LookUp
  <2> QED
    BY <1>4, <2>2 DEF Return
<1>9. CASE GetUser(c)
  <2>1. \E code \in {"OK", "InvalidArgument", "NotFound", ctx[c]} : Return(c, code)
    BY <1>9 DEF GetUser
  <2>2. ctx[c] \in {"none", "open", "Canceled", "DeadlineExceeded"}
    BY <1>1 DEF TypeOK
  <2> QED
    BY <1>4, <2>1, <2>2 DEF Return
<1>10. CASE UnimplementedUserServiceServer(c)
  <2>1. /\ result' = [result EXCEPT ![c] = "Unimplemented"]
        /\ stage[c] > 0 /\ At(c) = "UnimplementedUserServiceServer"
    BY <1>10 DEF UnimplementedUserServiceServer, Return, Down
  <2>2. request[c].lesson = "l13"
    <3>1. stage[c] \in 1..Len(Frames(c)) /\ Frames(c)[stage[c]] = At(c)
      BY <1>1, <2>1 DEF At, TypeOK, Sound
    <3> QED
      BY <1>1, <2>1, <3>1 DEF Sound
  <2>3. result'[c] = "Unimplemented" /\ \A d \in Call \ {c} : result'[d] = result[d]
    BY <1>1, <2>1 DEF TypeOK
  <2>4. \A d \in Call : Blamed(d)'
    BY <1>2, <2>2, <2>3 DEF Causes, Blamed
  <2> QED
    BY <1>2, <2>4 DEF Causes, Culprit
<1>11. CASE ComeUp(c)
  <2>1. result' = [result EXCEPT ![c] = Outcome(c)]
    BY <1>11 DEF ComeUp, Return
  <2>2. CASE Outcome(c) = "Unknown"
    BY <1>4, <2>1, <2>2
  <2>3. CASE Outcome(c) = result[c]
    <3>1. result' = result
      BY <1>1, <2>1, <2>3 DEF TypeOK
    <3> QED
      BY <1>3, <3>1
  <2> QED
    BY <2>2, <2>3 DEF Outcome
<1> QED
  BY <1>5, <1>6, <1>7, <1>8, <1>9, <1>10, <1>11 DEF ServerStep

LEMMA PanicKeepsCauses ==
    ASSUME IInv, Causes, NEW c \in Call, Panic(c)
    PROVE  Causes'
<1>1. TypeOK /\ Way(c) /\ Sound(request[c].lesson, Frames(c))
  BY FramesAreSound DEF IInv
<1>2. UNCHANGED <<request, ctx, answer>> /\ crashed' = TRUE
  BY DEF Panic
<1>3. /\ stage[c] \in 1..Len(Frames(c)) /\ Frames(c)[stage[c]] = "Truncate"
      /\ stage[c] \in Nat
  BY <1>1 DEF Panic, Down, At, TypeOK, Sound
<1>4. request[c].lesson = "l14" /\ request[c].body = "invalid"
  BY <1>1, <1>3 DEF Sound, Panic, TooShort
<1>5. ctx[c] # "none"
  BY <1>1, <1>3 DEF Way, Entered
<1>6. Culprit'
  BY <1>2, <1>4, <1>5 DEF Culprit
<1>7. ASSUME NEW d \in Call PROVE Blamed(d)'
  <2>1. \/ result'[d] = result[d]
        \/ result'[d] = "Unavailable" /\ request[d].lesson = "l14"
    BY DEF Panic
  <2> QED
    BY <1>2, <2>1 DEF Causes, Blamed
<1> QED
  BY <1>6, <1>7 DEF Causes

LEMMA StepKeepsCauses == IInv /\ Causes /\ [Next]_vars => Causes'
<1> SUFFICES ASSUME IInv, Causes, [Next]_vars PROVE Causes'
  OBVIOUS
<1>1. CASE UNCHANGED vars
  BY <1>1 DEF Causes, Culprit, Blamed, vars
<1>2. ASSUME NEW c \in Call, Send(c) PROVE Causes'
  BY <1>2, SendKeepsCauses
<1>3. ASSUME NEW c \in Call, FailHandshake(c) \/ Deadline(c) \/ Reply(c) PROVE Causes'
  BY <1>3, AnswersKeepCauses
<1>4. ASSUME NEW c \in Call, ServerStep(c) PROVE Causes'
  BY <1>4, ReceiveKeepsCauses, PanicKeepsCauses, FramesKeepCauses
<1> QED
  BY <1>1, <1>2, <1>3, <1>4 DEF Next

\* No caller is told Unavailable or Unimplemented but for a cause: names of
\* stubs, registrations and 22's snapshot meet for every request of the
\* lessons, and only 14's panic ends a process, for any number of calls.
THEOREM FailuresHaveCauses == Spec => []FailsForCause
<1>1. Init => Causes
  BY DEF Init, Causes, Culprit, Blamed
<1>2. IInv /\ Causes => FailsForCause
  <2> SUFFICES ASSUME IInv, Causes, NEW c \in Call
               PROVE  /\ answer[c] = "Unavailable" =>
                             \/ request[c].lesson \in {"l06", "l15"} /\ ~request[c].accepted
                             \/ /\ request[c].lesson = "l14"
                                /\ \E d \in Call : /\ request[d].lesson = "l14"
                                                   /\ request[d].body = "invalid"
                      /\ answer[c] = "Unimplemented" =>
                             \/ request[c].lesson = "l13"
                             \/ /\ request[c].lesson = "l01"
                                /\ request[c].method = ServerReflectionInfo
    BY DEF FailsForCause
  <2>1. Doomed(request[c])
    BY RequestsHaveCauses DEF IInv, TypeOK
  <2> QED
    BY <2>1 DEF Causes, Culprit, Blamed, Doomed
<1> QED
  BY <1>1, <1>2, StepKeepsCauses, Invariance, PTL DEF Spec

-----------------------------------------------------------------------------
(* Why every call comes out of its chain: its steps run out, and until it  *)
(* is out one of them can be taken.                                        *)

\* 03's goroutine has been heard by a handler that then has a result; a call
\* whose context is done has been given up; and 14's server runs no call once
\* its process is gone.
Heard(c) ==
    /\ worker[c] = "ended" => result[c] # "none"
    /\ answer[c] = "none" => ctx[c] \in {"none", "open"}
    /\ Gone(c) => stage[c] = 0

\* What a step of the server does for a call: it goes one frame down or up, is
\* refused at once, or waits for the bank.
GoesDown(c) ==
    /\ result[c] = "none" /\ result'[c] = "none"
    /\ stage[c] < Len(Frames(c)) /\ stage'[c] = stage[c] + 1
    /\ stage[c] = 0 => ~Gone(c)
    /\ UNCHANGED <<worker[c], selecting[c]>>

ComesUp(c) ==
    /\ stage[c] > 0 /\ stage'[c] = stage[c] - 1
    /\ result'[c] # "none"
    /\ worker'[c] = worker[c] \/ worker'[c] = "ended"
    /\ UNCHANGED selecting[c]

Refused(c) ==
    /\ stage[c] = 0
    /\ result[c] = "none" /\ result'[c] # "none"
    /\ UNCHANGED <<stage[c], worker[c], selecting[c]>>

Waited(c) ==
    /\ UNCHANGED <<stage[c], result[c]>>
    /\ \/ worker[c] = "none" /\ worker'[c] = "working" /\ UNCHANGED selecting[c]
       \/ worker[c] = "working" /\ worker'[c] = "sending" /\ UNCHANGED selecting[c]
       \/ ~selecting[c] /\ selecting'[c] /\ UNCHANGED worker[c]

Moves(c) == GoesDown(c) \/ ComesUp(c) \/ Refused(c) \/ Waited(c)

\* A step of the server changes the call it is for, and how.
LEMMA ServerMoves ==
    ASSUME IInv, NEW c \in Call, ServerStep(c), ~Panic(c)
    PROVE  /\ Moves(c)
           /\ UNCHANGED <<request, ctx, answer, crashed>>
           /\ \A d \in Call \ {c} : Same(d)
<1>1. TypeOK /\ Sound(request[c].lesson, Frames(c))
  BY FramesAreSound DEF IInv
<1>2. /\ stage \in [Call -> Nat] /\ result \in [Call -> Code \cup {"none"}]
      /\ log \in [Call -> Code \cup {"none"}]
      /\ worker \in [Call -> {"none", "working", "sending", "ended"}]
      /\ selecting \in [Call -> BOOLEAN]
      /\ Len(Frames(c)) \in Nat /\ Len(Frames(c)) > 0
      /\ stage[c] <= Len(Frames(c))
  BY <1>1 DEF TypeOK, Sound
<1>3. UNCHANGED <<request, ctx, answer, crashed>>
  BY DEF ServerStep, Receive, LoggingInterceptor, AuthInterceptor, ValidationInterceptor,
         ServeMux, OrderManager, ComeUp, Handler, GetUser, CreateOrder, LookUp,
         UserServiceClient, UnimplementedUserServiceServer, Truncate, ProcessPayment,
         Select, BankDone, ReceiveDone, ReceiveCancelled
<1>4. ASSUME Inside(c), NEW frame \in Passing, Down(c, frame), UNCHANGED <<log, payment>>
      PROVE  Moves(c) /\ \A d \in Call \ {c} : Same(d)
  <2>1. stage[c] \in 1..Len(Frames(c)) /\ Frames(c)[stage[c]] = frame /\ result[c] = "none"
    BY <1>2, <1>4 DEF Down, At
  <2>2. stage[c] < Len(Frames(c))
    BY <1>1, <2>1 DEF Sound
  <2>3. GoesDown(c)
    BY <1>2, <1>4, <2>1, <2>2 DEF GoesDown, Inside, payment
  <2> QED
    BY <1>2, <1>3, <1>4, <2>3 DEF Moves, Same, Inside, payment
<1>5. ASSUME NEW code, code # "none", Return(c, code), stage[c] > 0, UNCHANGED payment,
             \A d \in Call \ {c} : log'[d] = log[d]
      PROVE  Moves(c) /\ \A d \in Call \ {c} : Same(d)
  <2>1. ComesUp(c)
    BY <1>2, <1>5 DEF ComesUp, Return, payment
  <2> QED
    BY <1>2, <1>3, <1>5, <2>1 DEF Moves, Same, Return, payment
<1>6. CASE LoggingInterceptor(c)
  BY <1>4, <1>6 DEF LoggingInterceptor, Passing
<1>7. CASE OrderManager(c)
  BY <1>4, <1>7 DEF OrderManager, Passing
<1>8. CASE AuthInterceptor(c)
  BY <1>4, <1>5, <1>8 DEF AuthInterceptor, Passing, Down
<1>9. CASE ValidationInterceptor(c)
  BY <1>4, <1>5, <1>9 DEF ValidationInterceptor, Passing, Down
<1>10. CASE ServeMux(c)
  BY <1>4, <1>5, <1>10 DEF ServeMux, Passing, Down
<1>11. CASE Handler(c) \/ Truncate(c) \/ UserServiceClient(c)
            \/ UnimplementedUserServiceServer(c)
  <2>1. PICK code \in {"OK", "NotFound", "Unimplemented"} : Return(c, code)
    BY <1>11 DEF Handler, Truncate, UserServiceClient, UnimplementedUserServiceServer
  <2>2. stage[c] > 0 /\ UNCHANGED <<log, payment>>
    BY <1>11 DEF Handler, Truncate, UserServiceClient, UnimplementedUserServiceServer, Down
  <2> QED
    BY <1>3, <1>5, <2>1, <2>2
<1>12. CASE CreateOrder(c) \/ LookUp(c)
  <2>1. request[c].body \in {"invalid", "unlucky", "good"}
    BY <1>1, FramesAreSound DEF WellFormed
  <2>2. PICK code \in {"OK", "InvalidArgument", "FailedPrecondition", "NotFound"} :
            Return(c, code)
    BY <1>12, <2>1 DEF CreateOrder, LookUp
  <2>3. stage[c] > 0 /\ UNCHANGED <<log, payment>>
    BY <1>12 DEF CreateOrder, LookUp, Down
  <2> QED
    BY <1>3, <1>5, <2>2, <2>3
<1>13. CASE GetUser(c)
  <2>1. PICK code \in {"OK", "InvalidArgument", "NotFound", ctx[c]} : Return(c, code)
    BY <1>13 DEF GetUser
  <2>2. stage[c] > 0 /\ UNCHANGED <<log, payment>>
    BY <1>13 DEF GetUser, Down
  <2>3. ctx[c] # "none"
    BY <1>2, <2>2 DEF IInv, Way, Entered
  <2> QED
    BY <1>3, <1>5, <2>1, <2>2, <2>3
<1>14. CASE ComeUp(c)
  <2>1. Outcome(c) # "none"
    BY <1>14 DEF ComeUp, Outcome
  <2>2. \A d \in Call \ {c} : log'[d] = log[d]
    BY <1>2, <1>14 DEF ComeUp
  <2> QED
    BY <1>5, <1>14, <2>1, <2>2 DEF ComeUp
<1>15. CASE Receive(c)
  <2>1. CASE Inside(c)
    <3>1. GoesDown(c)
      BY <1>2, <1>15, <2>1 DEF Receive, Inside, GoesDown, payment
    <3> QED
      BY <1>2, <1>3, <1>15, <2>1, <3>1 DEF Receive, Inside, Moves, Same, payment
  <2>2. CASE result' = [result EXCEPT ![c] = "Unimplemented"] /\ UNCHANGED stage
    <3>1. Refused(c)
      BY <1>2, <1>15, <2>2 DEF Receive, Refused, payment
    <3> QED
      BY <1>2, <1>3, <1>15, <2>2, <3>1 DEF Receive, Moves, Same, payment
  <2> QED
    BY <1>15, <2>1, <2>2 DEF Receive
<1>16. CASE Select(c)
  <2>1. Waited(c)
    BY <1>2, <1>16 DEF Select, Waited
  <2> QED
    BY <1>2, <1>3, <1>16, <2>1 DEF Select, Moves, Same
<1>17. CASE BankDone(c)
  <2>1. Waited(c)
    BY <1>2, <1>17 DEF BankDone, Waited
  <2> QED
    BY <1>2, <1>3, <1>17, <2>1 DEF BankDone, Moves, Same
<1>18. CASE ProcessPayment(c)
  <2>1. CASE Authorized(c)
    <3>1. Waited(c)
      BY <1>2, <1>18, <2>1 DEF ProcessPayment, Waited
    <3> QED
      BY <1>2, <1>3, <1>18, <2>1, <3>1 DEF ProcessPayment, Moves, Same
  <2>2. CASE ~Authorized(c)
    BY <1>5, <1>18, <2>2 DEF ProcessPayment, Down, payment
  <2> QED
    BY <2>1, <2>2
<1>19. CASE ReceiveDone(c) \/ ReceiveCancelled(c)
  <2>1. stage[c] = 1
    BY <1>1, <1>19, Waiting DEF ReceiveDone, ReceiveCancelled, IInv
  <2>2. CASE ReceiveDone(c)
    <3>1. ComesUp(c)
      BY <1>2, <2>1, <2>2 DEF ReceiveDone, Return, ComesUp
    <3> QED
      BY <1>2, <1>3, <2>2, <3>1 DEF ReceiveDone, Return, Moves, Same
  <2>3. CASE ReceiveCancelled(c)
    BY <1>5, <2>1, <2>3 DEF ReceiveCancelled
  <2> QED
    BY <1>19, <2>2, <2>3
<1>20. Moves(c) /\ \A d \in Call \ {c} : Same(d)
  BY <1>6, <1>7, <1>8, <1>9, <1>10, <1>11, <1>12, <1>13, <1>14, <1>15, <1>16, <1>17,
     <1>18, <1>19 DEF ServerStep
<1> QED
  BY <1>3, <1>20

\* A panic ends calls of 14's process, and gives none of them anything to do.
LEMMA PanicEnds ==
    ASSUME IInv, NEW c \in Call, Panic(c)
    PROVE  /\ UNCHANGED <<request, ctx, worker, selecting, answer>> /\ crashed'
           /\ stage[c] > 0 /\ request[c].lesson = "l14"
           /\ \A d \in Call :
                  \/ /\ Same(d)
                     /\ request[d].lesson = "l14" => stage[d] = 0
                  \/ /\ request[d].lesson = "l14"
                     /\ stage[d] > 0 \/ result[d] # "none"
                     /\ stage'[d] = 0 /\ result'[d] = "Unavailable"
<1>1. TypeOK /\ Sound(request[c].lesson, Frames(c))
  BY FramesAreSound DEF IInv
<1>2. UNCHANGED <<request, ctx, log, worker, selecting, answer>> /\ crashed'
  BY DEF Panic, payment
<1>3. stage[c] > 0 /\ request[c].lesson = "l14"
  <2>1. stage[c] \in 1..Len(Frames(c)) /\ Frames(c)[stage[c]] = "Truncate"
    BY <1>1 DEF Panic, Down, At, TypeOK, Sound
  <2> QED
    BY <1>1, <2>1 DEF Sound
<1>4. ASSUME NEW d \in Call
      PROVE  \/ /\ Same(d)
                /\ request[d].lesson = "l14" => stage[d] = 0
             \/ /\ request[d].lesson = "l14"
                /\ stage[d] > 0 \/ result[d] # "none"
                /\ stage'[d] = 0 /\ result'[d] = "Unavailable"
  <2>1. stage'[d] = IF request[d].lesson = "l14" /\ stage[d] > 0 THEN 0 ELSE stage[d]
    BY DEF Panic
  <2>2. \/ result'[d] = "Unavailable" /\ request[d].lesson = "l14"
           /\ (stage[d] > 0 \/ Returned(d))
        \/ result'[d] = result[d] /\ ~(request[d].lesson = "l14" /\ stage[d] > 0)
    BY DEF Panic
  <2>3. stage[d] \in Nat
    BY <1>1 DEF TypeOK
  <2> QED
    BY <1>2, <2>1, <2>2, <2>3 DEF Same, Returned
<1> QED
  BY <1>2, <1>3, <1>4

\* What a caller does, or has done to it, while the server does nothing.
LEMMA CallerMoves ==
    ASSUME IInv, NEW c \in Call, FailHandshake(c) \/ Deadline(c) \/ Reply(c)
    PROVE  /\ UNCHANGED <<request, stage, result, log, worker, selecting, crashed>>
           /\ ctx[c] # "none" /\ ctx'[c] # "none"
           /\ answer[c] = "none" /\ answer'[c] # "none"
           /\ \A d \in Call \ {c} : Same(d)
<1>1. TypeOK /\ Way(c)
  BY DEF IInv
<1>2. /\ UNCHANGED <<request, stage, result, log, worker, selecting, crashed>>
      /\ answer[c] = "none"
  BY DEF FailHandshake, Deadline, Reply, payment
<1>3. answer \in [Call -> Code \cup {"none"}]
      /\ ctx \in [Call -> {"none", "open", "Canceled", "DeadlineExceeded"}]
  BY <1>1 DEF TypeOK
<1>4. ctx[c] # "none"
  BY <1>1 DEF FailHandshake, Deadline, Reply, Returned, Way, Entered
<1>5. /\ answer'[c] # "none" /\ ctx'[c] # "none"
      /\ \A d \in Call \ {c} : answer'[d] = answer[d] /\ ctx'[d] = ctx[d]
  <2>1. CASE FailHandshake(c)
    BY <1>3, <1>4, <2>1 DEF FailHandshake
  <2>2. CASE Reply(c)
    BY <1>3, <1>4, <2>2 DEF Reply, Returned
  <2>3. CASE Deadline(c)
    BY <1>3, <2>3 DEF Deadline
  <2> QED
    BY <2>1, <2>2, <2>3
<1> QED
  BY <1>2, <1>4, <1>5 DEF Same

\* A caller's only step before all others.
LEMMA SendMoves ==
    ASSUME IInv, NEW c \in Call, Send(c)
    PROVE  /\ UNCHANGED <<stage, result, log, worker, selecting, answer, crashed>>
           /\ ctx[c] = "none" /\ ctx'[c] = "open"
           /\ stage[c] = 0 /\ result[c] = "none" /\ worker[c] = "none"
           /\ ~selecting[c] /\ answer[c] = "none"
           /\ \A d \in Call \ {c} : Same(d)
<1>1. TypeOK /\ Way(c)
  BY DEF IInv
<1>2. UNCHANGED <<stage, result, log, worker, selecting, answer, crashed>>
  BY DEF Send, payment
<1>3. /\ ctx[c] = "none" /\ ctx'[c] = "open"
      /\ \A d \in Call \ {c} : ctx'[d] = ctx[d] /\ request'[d] = request[d]
  BY <1>1 DEF Send, TypeOK
<1> QED
  BY <1>1, <1>2, <1>3 DEF Way, Entered, Same

\* What a call has in front of it: frames down and up, the bank, the select,
\* its answer and the end of 14's process.
FramesLeft(c) == IF result[c] = "none" THEN 2 * Len(Frames(c)) - stage[c] ELSE stage[c]

WaitsLeft(c) ==
    (CASE worker[c] = "none" -> 3
       [] worker[c] = "working" -> 2
       [] worker[c] = "sending" -> 1
       [] worker[c] = "ended" -> 0)
    + (IF selecting[c] THEN 0 ELSE 1)

StepsLeft(c) ==
    IF ctx[c] = "none" THEN 13
    ELSE FramesLeft(c) + WaitsLeft(c) + (IF answer[c] = "none" THEN 1 ELSE 0)
                                      + (IF crashed THEN 0 ELSE 1)

\* The numbers those are.
Ranged(c) ==
    /\ FramesLeft(c) \in 0..6
    /\ WaitsLeft(c) \in 0..4
    /\ Len(Frames(c)) \in 1..3
    /\ stage[c] \in 0..Len(Frames(c))

LEMMA StepsLeftType ==
    ASSUME TypeOK, NEW c \in Call
    PROVE  Ranged(c) /\ StepsLeft(c) \in 0..13
<1> DEFINE n == Len(Frames(c))
<1>1. /\ n \in Nat \ {0} /\ n <= 3
      /\ stage[c] \in Nat /\ stage[c] <= n
  BY FramesAreSound DEF TypeOK, Sound
<1>2. FramesLeft(c) = IF result[c] = "none" THEN 2 * n - stage[c] ELSE stage[c]
  BY DEF FramesLeft
<1> HIDE DEF n
<1>3. n \in 1..3 /\ stage[c] \in 0..n /\ FramesLeft(c) \in 0..6
  BY <1>1, <1>2
<1>4. WaitsLeft(c) \in 0..4
  BY DEF WaitsLeft, TypeOK
<1>5. StepsLeft(c) \in 0..13
  BY <1>3, <1>4 DEF StepsLeft
<1> QED
  BY <1>3, <1>4, <1>5 DEF Ranged, n

LEMMA ServerStepLowers ==
    ASSUME TypeOK, TypeOK', NEW c \in Call, Ranged(c), Ranged(c)', Moves(c), ctx[c] # "none",
           UNCHANGED <<request, ctx, answer, crashed>>
    PROVE  StepsLeft(c)' < StepsLeft(c)
<1> DEFINE f == FramesLeft(c)
           w == WaitsLeft(c)
           f2 == FramesLeft(c)'
           w2 == WaitsLeft(c)'
           rest == (IF answer[c] = "none" THEN 1 ELSE 0) + (IF crashed THEN 0 ELSE 1)
<1>1. f \in 0..6 /\ f2 \in 0..6 /\ w \in 0..4 /\ w2 \in 0..4 /\ rest \in 0..2
  BY DEF Ranged
<1>2. /\ Frames(c)' = Frames(c)
      /\ Len(Frames(c)) \in 1..3 /\ stage[c] \in 0..Len(Frames(c))
      /\ worker[c] \in {"none", "working", "sending", "ended"}
      /\ worker'[c] \in {"none", "working", "sending", "ended"}
      /\ selecting[c] \in BOOLEAN
  <2>1. Frames(c)' = Frames(c)
    BY DEF Frames
  <2> QED
    BY <2>1 DEF TypeOK, Ranged
<1>3. f2 + w2 < f + w
  <2>1. CASE GoesDown(c)
    BY <1>2, <2>1 DEF GoesDown, FramesLeft, WaitsLeft
  <2>2. CASE ComesUp(c)
    <3>1. f2 < f
      BY <1>2, <2>2 DEF ComesUp, FramesLeft
    <3>2. w2 <= w
      BY <1>2, <2>2 DEF ComesUp, WaitsLeft
    <3> QED
      BY <1>1, <3>1, <3>2
  <2>3. CASE Refused(c)
    <3>1. f = 2 * Len(Frames(c)) - 0 /\ f2 = 0
      BY <1>2, <2>3 DEF Refused, FramesLeft
    <3>2. w2 = w
      BY <2>3 DEF Refused, WaitsLeft
    <3>3. f > 0
      <4> DEFINE n == Len(Frames(c))
      <4>1. n \in 1..3 /\ f = 2 * n - 0
        BY <1>2, <3>1
      <4> HIDE DEF n, f
      <4> QED
        BY <4>1
    <3> QED
      BY <1>1, <3>1, <3>2, <3>3
  <2>4. CASE Waited(c)
    BY <1>2, <2>4 DEF Waited, FramesLeft, WaitsLeft
  <2> QED
    BY <2>1, <2>2, <2>3, <2>4 DEF Moves
<1>4. StepsLeft(c) = f + w + rest /\ StepsLeft(c)' = f2 + w2 + rest
  BY <1>1 DEF StepsLeft
<1> QED
  BY <1>1, <1>3, <1>4

\* A step leaves a call as it is or uses up a step of it, and there is a call
\* it uses one up of.
CallsAdvance ==
    /\ \A c \in Call : Same(c) \/ StepsLeft(c)' < StepsLeft(c)
    /\ \E c \in Call : StepsLeft(c)' < StepsLeft(c)

LEMMA StepAdvances ==
    ASSUME IInv, IInv', \A d \in Call : Heard(d) /\ Ranged(d) /\ Ranged(d)',
           NEW c \in Call,
           Send(c) \/ FailHandshake(c) \/ Deadline(c) \/ Reply(c) \/ ServerStep(c)
    PROVE  CallsAdvance
<1>1. TypeOK /\ TypeOK'
  BY DEF IInv
<1>2. CASE Send(c)
  <2>1. StepsLeft(c) = 13
    BY <1>2, SendMoves DEF StepsLeft
  <2>2. StepsLeft(c)' <= 12
    <3>1. ctx'[c] # "none"
      BY <1>2, SendMoves
    <3>2. FramesLeft(c)' \in 0..6 /\ WaitsLeft(c)' \in 0..4
      BY DEF Ranged
    <3>3. StepsLeft(c)' = FramesLeft(c)' + WaitsLeft(c)'
                          + (IF answer'[c] = "none" THEN 1 ELSE 0)
                          + (IF crashed' THEN 0 ELSE 1)
      BY <3>1 DEF StepsLeft
    <3> QED
      BY <3>2, <3>3
  <2>3. StepsLeft(c)' < StepsLeft(c)
    <3>1. StepsLeft(c)' \in Int
      BY DEF StepsLeft, Ranged
    <3> QED
      BY <2>1, <2>2, <3>1
  <2> QED
    BY <1>2, <2>3, SendMoves DEF CallsAdvance
<1>3. CASE FailHandshake(c) \/ Deadline(c) \/ Reply(c)
  <2>1. FramesLeft(c)' = FramesLeft(c) /\ WaitsLeft(c)' = WaitsLeft(c)
    BY <1>3, CallerMoves DEF FramesLeft, WaitsLeft, Frames
  <2>2. FramesLeft(c) \in 0..6 /\ WaitsLeft(c) \in 0..4
    BY DEF Ranged
  <2>3. StepsLeft(c)' < StepsLeft(c)
    BY <1>3, <2>1, <2>2, CallerMoves DEF StepsLeft
  <2> QED
    BY <1>3, <2>3, CallerMoves DEF CallsAdvance
<1>4. CASE ServerStep(c) /\ ~Panic(c)
  <2>1. /\ Moves(c)
        /\ UNCHANGED <<request, ctx, answer, crashed>>
        /\ \A d \in Call \ {c} : Same(d)
    BY <1>4, ServerMoves
  <2>2. ctx[c] # "none"
    <3>1. CASE Receive(c)
      BY <3>1 DEF Receive
    <3>2. CASE worker[c] # "none" \/ selecting[c] \/ stage[c] > 0
      BY <1>1, <3>2 DEF IInv, Way, Entered, TypeOK
    <3> QED
      BY <1>4, <3>1, <3>2 DEF ServerStep, LoggingInterceptor, AuthInterceptor,
         ValidationInterceptor, ServeMux, OrderManager, ComeUp, Handler, GetUser,
         CreateOrder, LookUp, UserServiceClient, UnimplementedUserServiceServer, Truncate,
         ProcessPayment, Select, BankDone, ReceiveDone, ReceiveCancelled, Down
  <2>3. StepsLeft(c)' < StepsLeft(c)
    BY <1>1, <2>1, <2>2, ServerStepLowers
  <2> QED
    BY <2>1, <2>3 DEF CallsAdvance
<1>5. CASE Panic(c)
  <2>1. ~crashed
    BY <1>1, <1>5, PanicEnds DEF Heard, Gone, TypeOK
  <2>2. ASSUME NEW d \in Call, ctx[d] # "none"
        PROVE  StepsLeft(d)' < StepsLeft(d)
    <3>1. WaitsLeft(d)' = WaitsLeft(d) /\ Frames(d)' = Frames(d)
      BY <1>5, PanicEnds DEF WaitsLeft, Frames
    <3>2. FramesLeft(d)' <= FramesLeft(d)
      <4>1. CASE stage'[d] = stage[d] /\ result'[d] = result[d]
        BY <3>1, <4>1 DEF FramesLeft, Ranged
      <4>2. CASE stage'[d] = 0 /\ result'[d] # "none"
        <5>1. FramesLeft(d)' = 0 /\ FramesLeft(d) \in 0..6
          BY <4>2 DEF FramesLeft, Ranged
        <5> QED
          BY <5>1
      <4> QED
        BY <1>5, <4>1, <4>2, PanicEnds DEF Same
    <3>3. /\ FramesLeft(d) \in 0..6 /\ FramesLeft(d)' \in 0..6 /\ WaitsLeft(d) \in 0..4
      BY DEF Ranged
    <3>4. UNCHANGED <<ctx, answer>> /\ crashed'
      BY <1>5, PanicEnds
    <3> QED
      BY <2>1, <2>2, <3>1, <3>2, <3>3, <3>4 DEF StepsLeft
  <2>3. ASSUME NEW d \in Call, ctx[d] = "none"
        PROVE  Same(d)
    <3>1. stage[d] = 0 /\ result[d] = "none"
      BY <2>3 DEF IInv, Way, Entered
    <3> QED
      BY <1>5, <3>1, PanicEnds
  <2>4. ctx[c] # "none"
    BY <1>1, <1>5, PanicEnds DEF IInv, Way, Entered, TypeOK
  <2> QED
    BY <2>2, <2>3, <2>4 DEF CallsAdvance
<1> QED
  BY <1>2, <1>3, <1>4, <1>5 DEF ServerStep

LEMMA HeardStep ==
    ASSUME IInv, NEW c \in Call, \A d \in Call : Heard(d),
           Send(c) \/ FailHandshake(c) \/ Deadline(c) \/ Reply(c) \/ ServerStep(c)
    PROVE  \A d \in Call : Heard(d)'
<1>1. ASSUME NEW d \in Call, Same(d), crashed' = crashed PROVE Heard(d)'
  BY <1>1 DEF Heard, Gone, Same
<1>2. CASE Send(c)
  <2>1. Heard(c)'
    BY <1>2, SendMoves DEF Heard, Gone
  <2> QED
    BY <1>1, <1>2, <2>1, SendMoves
<1>3. CASE FailHandshake(c) \/ Deadline(c) \/ Reply(c)
  <2>1. Heard(c)'
    BY <1>3, CallerMoves DEF Heard, Gone
  <2> QED
    BY <1>1, <1>3, <2>1, CallerMoves
<1>4. CASE ServerStep(c) /\ ~Panic(c)
  <2>1. /\ Moves(c)
        /\ UNCHANGED <<request, ctx, answer, crashed>>
        /\ \A d \in Call \ {c} : Same(d)
    BY <1>4, ServerMoves
  <2>2. Heard(c)
    OBVIOUS
  <2>3. Heard(c)'
    <3>1. CASE GoesDown(c)
      BY <2>1, <2>2, <3>1 DEF Heard, Gone, GoesDown
    <3>2. CASE ComesUp(c)
      BY <2>1, <2>2, <3>2 DEF Heard, Gone, ComesUp
    <3>3. CASE Refused(c)
      BY <2>1, <2>2, <3>3 DEF Heard, Gone, Refused
    <3>4. CASE Waited(c)
      BY <2>1, <2>2, <3>4 DEF Heard, Gone, Waited
    <3> QED
      BY <2>1, <3>1, <3>2, <3>3, <3>4 DEF Moves
  <2> QED
    BY <1>1, <2>1, <2>3
<1>5. CASE Panic(c)
  <2>1. ASSUME NEW d \in Call PROVE Heard(d)'
    <3>1. Heard(d)
      OBVIOUS
    <3>2. UNCHANGED <<request, ctx, worker, answer>>
      BY <1>5, PanicEnds
    <3>3. CASE Same(d) /\ (request[d].lesson = "l14" => stage[d] = 0)
      BY <3>1, <3>2, <3>3 DEF Heard, Gone, Same
    <3>4. CASE stage'[d] = 0 /\ result'[d] = "Unavailable"
      BY <3>1, <3>2, <3>4 DEF Heard
    <3> QED
      BY <1>5, <3>3, <3>4, PanicEnds
  <2> QED
    BY <2>1
<1> QED
  BY <1>2, <1>3, <1>4, <1>5 DEF ServerStep

LEMMA HeardInvariance == Spec => [](\A c \in Call : Heard(c))
<1> DEFINE AllHeard == \A c \in Call : Heard(c)
<1>1. Init => AllHeard
  BY DEF Init, Heard, Gone
<1>2. IInv /\ AllHeard /\ [Next]_vars => AllHeard'
  <2> SUFFICES ASSUME IInv, AllHeard, [Next]_vars PROVE AllHeard'
    OBVIOUS
  <2>1. CASE UNCHANGED vars
    BY <2>1 DEF Heard, Gone, vars, payment
  <2>2. CASE Next
    BY <2>2, HeardStep DEF Next
  <2> QED
    BY <2>1, <2>2
<1> QED
  BY <1>1, <1>2, Invariance, PTL DEF Spec

\* Every call is done after at most 13 steps of its own, whatever other calls
\* do, and every step of the system is one of a call's: no interceptor,
\* handler or goroutine of the servers goes on for ever.
THEOREM CallStepsRunOut ==
    Spec => /\ [](\A c \in Call : StepsLeft(c) \in 0..13)
            /\ [][CallsAdvance]_vars
<1> DEFINE AllHeard == \A c \in Call : Heard(c)
           AllRanged == \A c \in Call : Ranged(c)
<1>1. IInv => AllRanged /\ \A c \in Call : StepsLeft(c) \in 0..13
  BY StepsLeftType DEF IInv
<1>2. IInv /\ IInv' /\ AllHeard /\ AllRanged /\ AllRanged' /\ [Next]_vars
          => [CallsAdvance]_vars
  <2> SUFFICES ASSUME IInv, IInv', AllHeard, AllRanged, AllRanged', Next
               PROVE  CallsAdvance
    OBVIOUS
  <2> QED
    BY StepAdvances DEF Next
<1> QED
  BY <1>1, <1>2, Invariance, HeardInvariance, PTL DEF Spec

\* The chain has a step for a call: the guards of the actions of ServerStep.
ServerCanGoOn(c) ==
    \/ stage[c] > 0 /\ result[c] # "none"
    \/ \E frame \in Frame \ {"ProcessPayment"} : Down(c, frame)
    \/ /\ Down(c, "ProcessPayment")
       /\ worker[c] \in {"none", "working", "sending"} \/ ~selecting[c]

\* The connection has one: the guards of Reply, Receive and FailHandshake.
ConnectionCanGoOn(c) ==
    \/ Returned(c) /\ answer[c] = "none"
    \/ /\ ctx[c] # "none" /\ request[c].accepted /\ ~Gone(c)
       /\ stage[c] = 0 /\ result[c] = "none"
    \/ /\ ctx[c] = "open" /\ answer[c] = "none"
       /\ ~request[c].accepted \/ (Gone(c) /\ stage[c] = 0 /\ result[c] = "none")

NotStuck(c) ==
    /\ stage[c] > 0 => ServerCanGoOn(c)
    /\ ctx[c] # "none" /\ answer[c] = "none" => ServerCanGoOn(c) \/ ConnectionCanGoOn(c)

\* A call in the chain always has a step to take there: in particular 03's
\* handler and its goroutine never miss each other at the unbuffered channel,
\* whichever of them is there first and whatever becomes of the deadline. And
\* a caller without an answer is always brought one, the end of 14's process
\* included.
THEOREM CallsAreNeverStuck == Spec => [](\A c \in Call : NotStuck(c))
<1> DEFINE AllHeard == \A c \in Call : Heard(c)
           AllGoOn == \A c \in Call : NotStuck(c)
<1>1. IInv /\ AllHeard => AllGoOn
  <2> SUFFICES ASSUME IInv, AllHeard, NEW c \in Call PROVE NotStuck(c)
    OBVIOUS
  <2>1. TypeOK /\ Heard(c)
    BY DEF IInv
  <2>2. stage[c] > 0 => ServerCanGoOn(c)
    <3> SUFFICES ASSUME stage[c] > 0, result[c] = "none" PROVE ServerCanGoOn(c)
      BY DEF ServerCanGoOn
    <3>1. stage[c] \in 1..Len(Frames(c)) /\ At(c) = Frames(c)[stage[c]]
      BY <2>1, StepsLeftType DEF Ranged, At
    <3>2. At(c) \in Frame /\ Down(c, At(c))
      BY <2>1, <3>1, FramesAreSound DEF Down, Sound
    <3>3. worker[c] \in {"none", "working", "sending"}
      BY <2>1 DEF Heard, TypeOK
    <3> QED
      BY <3>2, <3>3 DEF ServerCanGoOn
  <2>3. ctx[c] # "none" /\ answer[c] = "none" /\ stage[c] = 0 => ConnectionCanGoOn(c)
    BY <2>1 DEF Heard, ConnectionCanGoOn, Returned, Gone, TypeOK
  <2>4. stage[c] \in Nat
    BY <2>1 DEF TypeOK
  <2> QED
    BY <2>2, <2>3, <2>4 DEF NotStuck
<1> QED
  BY <1>1, Invariance, HeardInvariance, PTL
=============================================================================
