------------------------- MODULE SensorStreams_proofs -------------------------
(***************************************************************************)
(* That LiveAlerts' client receives exactly the alerts of its readings, in *)
(* order, and has them all when it exits: for any readings, any number of  *)
(* updates on the first stream, and any number of broken connections.      *)
(*                                                                         *)
(* Both directions of the stream run at the same time. What is inductive   *)
(* cuts the readings at the one the handler is about to receive: those     *)
(* from there on are on their way to it, and the alerts of those before,   *)
(* received or on their way back, are the hot ones among them. The last    *)
(* part shows that the client ends, but for the fairness.                  *)
(***************************************************************************)
EXTENDS SensorStreams, SequenceTheorems, TLAPS

-----------------------------------------------------------------------------
(* Lists of alerts.                                                        *)

\* No reading, no alert.
LEMMA NoneListed == Lists(<<>>, 0)
<1>1. HotAmong(0) = {} /\ Len(<<>>) = 0
  BY DEF HotAmong
<1>2. <<>> \in [1..0 -> {}]
  BY EmptySeq
<1> QED
  BY <1>1, <1>2 DEF Lists

\* A hot reading is the next alert.
LEMMA HotListed ==
    ASSUME NEW n \in Nat, n + 1 \in 1..Len(Readings),
           NEW alerts \in Seq(Int), Lists(alerts, n), Hot(Readings[n + 1])
    PROVE  Lists(Append(alerts, Readings[n + 1]), n + 1)
<1> DEFINE l == Len(alerts)
           more == Append(alerts, Readings[n + 1])
<1>1. l \in Nat
  BY LenProperties
<1>2. PICK at \in [1..l -> HotAmong(n)] :
          /\ \A j, k \in 1..l : j < k => at[j] < at[k]
          /\ \A i \in HotAmong(n) : \E k \in 1..l : at[k] = i
          /\ \A k \in 1..l : alerts[k] = Readings[at[k]]
  BY DEF Lists
<1>3. /\ HotAmong(n + 1) = HotAmong(n) \cup {n + 1}
      /\ \A i \in HotAmong(n) : i \in 1..n
  BY DEF HotAmong
<1>4. Readings[n + 1] \in Int
  BY SensorAssumption, ElementOfSeq
<1>5. /\ Len(more) = l + 1
      /\ \A k \in 1..l : more[k] = alerts[k]
      /\ more[l + 1] = Readings[n + 1]
  BY <1>4, AppendProperties
<1> DEFINE next == [k \in 1..(l + 1) |-> IF k = l + 1 THEN n + 1 ELSE at[k]]
<1> HIDE DEF l, more
<1>6. next \in [1..(l + 1) -> HotAmong(n + 1)]
  <2>1. \A k \in 1..(l + 1) : k # l + 1 => k \in 1..l
    BY <1>1
  <2> QED
    BY <2>1, <1>2, <1>3
<1>7. \A j, k \in 1..(l + 1) : j < k => next[j] < next[k]
  <2> SUFFICES ASSUME NEW j \in 1..(l + 1), NEW k \in 1..(l + 1), j < k
               PROVE  next[j] < next[k]
    OBVIOUS
  <2>1. j \in 1..l /\ next[j] = at[j]
    BY <1>1
  <2>2. at[j] \in HotAmong(n) /\ at[j] \in 1..n
    BY <2>1, <1>2, <1>3
  <2>3. CASE k = l + 1
    BY <2>1, <2>2, <2>3
  <2>4. CASE k # l + 1
    <3>1. k \in 1..l /\ next[k] = at[k]
      BY <2>4, <1>1
    <3> QED
      BY <3>1, <2>1, <1>2
  <2> QED
    BY <2>3, <2>4
<1>8. \A i \in HotAmong(n + 1) : \E k \in 1..(l + 1) : next[k] = i
  <2> SUFFICES ASSUME NEW i \in HotAmong(n + 1)
               PROVE  \E k \in 1..(l + 1) : next[k] = i
    OBVIOUS
  <2>1. CASE i = n + 1
    <3>1. l + 1 \in 1..(l + 1) /\ next[l + 1] = i
      BY <2>1, <1>1
    <3> QED
      BY <3>1
  <2>2. CASE i \in HotAmong(n)
    <3>1. PICK k \in 1..l : at[k] = i
      BY <2>2, <1>2
    <3>2. k \in 1..(l + 1) /\ next[k] = i
      BY <3>1, <1>1
    <3> QED
      BY <3>2
  <2> QED
    BY <2>1, <2>2, <1>3
<1>9. \A k \in 1..(l + 1) : more[k] = Readings[next[k]]
  <2> SUFFICES ASSUME NEW k \in 1..(l + 1) PROVE more[k] = Readings[next[k]]
    OBVIOUS
  <2>1. CASE k = l + 1
    BY <2>1, <1>5
  <2>2. CASE k # l + 1
    <3>1. k \in 1..l /\ next[k] = at[k]
      BY <2>2, <1>1
    <3> QED
      BY <3>1, <1>2, <1>5
  <2> QED
    BY <2>1, <2>2
<1> HIDE DEF next
<1>10. Lists(more, n + 1)
  <2>1. 1..Len(more) = 1..(l + 1)
    BY <1>5
  <2>2. next \in [1..Len(more) -> HotAmong(n + 1)]
    BY <2>1, <1>6
  <2>3. \A j, k \in 1..Len(more) : j < k => next[j] < next[k]
    BY <2>1, <1>7
  <2>4. \A i \in HotAmong(n + 1) : \E k \in 1..Len(more) : next[k] = i
    BY <2>1, <1>8
  <2>5. \A k \in 1..Len(more) : more[k] = Readings[next[k]]
    BY <2>1, <1>9
  <2> QED
    BY <2>2, <2>3, <2>4, <2>5 DEF Lists
<1> QED
  BY <1>10 DEF more

\* Any other reading leaves the list as it is.
LEMMA ColdListed ==
    ASSUME NEW n \in Nat, NEW alerts, Lists(alerts, n), ~Hot(Readings[n + 1])
    PROVE  Lists(alerts, n + 1)
<1>1. HotAmong(n + 1) = HotAmong(n)
  BY DEF HotAmong
<1> QED
  BY <1>1 DEF Lists

\* The first alerts of a list are those of the first readings.
LEMMA PrefixListed ==
    ASSUME NEW n \in Nat, NEW s \in Seq(Int), NEW t \in Seq(Int),
           Lists(s \o t, n)
    PROVE  \E m \in 0..n : Lists(s, m)
<1> DEFINE l == Len(s)
           all == Len(s \o t)
<1>1. l \in Nat /\ all \in Nat /\ l <= all /\ \A k \in 1..l : (s \o t)[k] = s[k]
  BY LenProperties, ConcatProperties
<1>2. PICK at \in [1..all -> HotAmong(n)] :
          /\ \A j, k \in 1..all : j < k => at[j] < at[k]
          /\ \A i \in HotAmong(n) : \E k \in 1..all : at[k] = i
          /\ \A k \in 1..all : (s \o t)[k] = Readings[at[k]]
  BY DEF Lists
<1>3. CASE l = 0
  <2>1. s = <<>>
    BY <1>3, EmptySeq
  <2> QED
    BY <2>1, NoneListed
<1>4. CASE l > 0
  <2> DEFINE m == at[l]
             first == [k \in 1..l |-> at[k]]
  <2> HIDE DEF l, all
  <2>1. m \in HotAmong(n) /\ m \in 1..n
    BY <1>1, <1>2, <1>4 DEF HotAmong
  <2>2. \A k \in 1..l : at[k] \in HotAmong(n) /\ at[k] <= m
    <3> SUFFICES ASSUME NEW k \in 1..l PROVE at[k] \in HotAmong(n) /\ at[k] <= m
      OBVIOUS
    <3>1. k \in 1..all /\ l \in 1..all
      BY <1>1, <1>4
    <3>2. at[k] \in HotAmong(n) /\ at[k] \in 1..n
      BY <3>1, <1>2 DEF HotAmong
    <3>3. k = l \/ at[k] < at[l]
      BY <3>1, <1>1, <1>2
    <3> QED
      BY <3>2, <3>3, <2>1
  <2>3. \A i \in HotAmong(m) : i \in HotAmong(n) /\ i <= m
    BY <2>1 DEF HotAmong
  <2>4. \A i \in HotAmong(n) : i <= m => i \in HotAmong(m)
    BY <2>1 DEF HotAmong
  <2>5. first \in [1..l -> HotAmong(m)]
    BY <2>2, <2>4
  <2>6. \A j, k \in 1..l : j < k => first[j] < first[k]
    BY <1>1, <1>2
  <2>7. \A i \in HotAmong(m) : \E k \in 1..l : first[k] = i
    <3> SUFFICES ASSUME NEW i \in HotAmong(m) PROVE \E k \in 1..l : first[k] = i
      OBVIOUS
    <3>1. PICK k \in 1..all : at[k] = i
      BY <2>3, <1>2
    <3>2. k <= l
      <4>1. SUFFICES ASSUME l < k PROVE FALSE
        BY <1>1
      <4>2. at[l] < at[k]
        BY <4>1, <1>1, <1>2, <1>4
      <4>3. at[k] <= at[l] /\ at[k] \in Int /\ at[l] \in Int
        BY <3>1, <2>1, <2>3 DEF HotAmong
      <4> QED
        BY <4>2, <4>3
    <3> QED
      BY <3>1, <3>2, <1>1
  <2>8. \A k \in 1..l : s[k] = Readings[first[k]]
    <3> SUFFICES ASSUME NEW k \in 1..l PROVE s[k] = Readings[at[k]]
      OBVIOUS
    <3>1. k \in 1..all
      BY <1>1
    <3> QED
      BY <3>1, <1>1, <1>2
  <2> HIDE DEF first, m
  <2>9. Lists(s, m)
    BY <2>5, <2>6, <2>7, <2>8 DEF Lists, l
  <2> QED
    BY <2>1, <2>9
<1> QED
  BY <1>1, <1>3, <1>4

\* The next alert on its way is received.
LEMMA ReceivedNext ==
    ASSUME NEW s \in Seq(Int), NEW t \in Seq(Int), t # <<>>
    PROVE  Append(s, Head(t)) \o Tail(t) = s \o t
<1>1. /\ Head(t) \in Int /\ Tail(t) \in Seq(Int)
      /\ Len(Tail(t)) = Len(t) - 1
      /\ \A i \in 1..Len(Tail(t)) : Tail(t)[i] = t[i + 1]
      /\ Head(t) = t[1]
      /\ Len(t) \in Nat \ {0} /\ Len(s) \in Nat
  BY HeadTailProperties, EmptySeq, LenProperties
<1> DEFINE s1 == Append(s, Head(t))
<1>2. /\ s1 \in Seq(Int)
      /\ Len(s1) = Len(s) + 1
      /\ \A i \in 1..Len(s) : s1[i] = s[i]
      /\ s1[Len(s) + 1] = t[1]
  BY <1>1, AppendProperties
<1> HIDE DEF s1
<1>3. /\ s1 \o Tail(t) \in Seq(Int)
      /\ Len(s1 \o Tail(t)) = Len(s1) + Len(Tail(t))
      /\ \A i \in 1..(Len(s1) + Len(Tail(t))) : (s1 \o Tail(t))[i] =
             IF i <= Len(s1) THEN s1[i] ELSE Tail(t)[i - Len(s1)]
  BY <1>1, <1>2, ConcatProperties
<1>4. /\ s \o t \in Seq(Int)
      /\ Len(s \o t) = Len(s) + Len(t)
      /\ \A i \in 1..(Len(s) + Len(t)) : (s \o t)[i] =
             IF i <= Len(s) THEN s[i] ELSE t[i - Len(s)]
  BY ConcatProperties
<1>5. Len(s1 \o Tail(t)) = Len(s \o t)
  BY <1>1, <1>2, <1>3, <1>4
<1>6. \A i \in 1..Len(s \o t) : (s1 \o Tail(t))[i] = (s \o t)[i]
  <2> SUFFICES ASSUME NEW i \in 1..Len(s \o t)
               PROVE  (s1 \o Tail(t))[i] = (s \o t)[i]
    OBVIOUS
  <2>1. CASE i <= Len(s)
    BY <2>1, <1>1, <1>2, <1>3, <1>4, <1>5
  <2>2. CASE i = Len(s) + 1
    BY <2>2, <1>1, <1>2, <1>3, <1>4, <1>5
  <2>3. CASE i > Len(s) + 1
    <3>1. i - Len(s1) \in 1..Len(Tail(t)) /\ (i - Len(s1)) + 1 = i - Len(s)
      BY <2>3, <1>1, <1>2, <1>4
    <3>2. (s1 \o Tail(t))[i] = Tail(t)[i - Len(s1)]
      BY <2>3, <1>1, <1>2, <1>3, <1>4, <1>5
    <3>3. Tail(t)[i - Len(s1)] = t[(i - Len(s1)) + 1]
      BY <3>1, <1>1
    <3>4. (s \o t)[i] = t[i - Len(s)]
      BY <2>3, <1>1, <1>4
    <3> QED
      BY <3>1, <3>2, <3>3, <3>4
  <2> QED
    <3>1. i \in Nat /\ Len(s) \in Nat
      BY <1>1, <1>4
    <3>2. i <= Len(s) \/ i = Len(s) + 1 \/ i > Len(s) + 1
      BY <3>1
    <3> QED
      BY <3>2, <2>1, <2>2, <2>3
<1>7. s1 \o Tail(t) = s \o t
  BY <1>3, <1>4, <1>5, <1>6, SeqEqual
<1> QED
  BY <1>7 DEF s1

\* One more alert is on its way.
LEMMA SentNext ==
    ASSUME NEW s \in Seq(Int), NEW t \in Seq(Int), NEW e \in Int
    PROVE  s \o Append(t, e) = Append(s \o t, e)
<1>1. Append(t, e) = t \o <<e>> /\ <<e>> \in Seq(Int)
  BY AppendIsConcat
<1>2. s \o t \in Seq(Int)
  BY ConcatProperties
<1>3. Append(s \o t, e) = (s \o t) \o <<e>>
  BY <1>2, AppendIsConcat
<1> QED
  BY <1>1, <1>3, ConcatAssociative

-----------------------------------------------------------------------------
(* The types.                                                              *)

\* TypeOK, but for the bound on toServer, which the invariant below gives.
Typing ==
    /\ main \in {"start", "monitor", "between", "send", "wait", "exited"}
    /\ sent \in 0..Len(Readings)
    /\ receiver \in {"none", "running", "returned"}
    /\ waitc \in BOOLEAN
    /\ received \in Seq(Int)
    /\ handler \in {"none", "accepting", "MonitorTemperature", "LiveAlerts",
                   "returned", "failed"}
    /\ produced \in 0..Updates
    /\ toServer \in Seq(Int \cup {EOF})
    /\ toClient \in Seq(Int \cup {EOF, Error})
    /\ breaks \in 0..MaxBreaks

\* A stream asks for the handler its client calls.
LEMMA AskedHandler ==
    Asked[2] = IF main = "monitor" THEN "MonitorTemperature" ELSE "LiveAlerts"
BY DEF Asked, MonitorTemperatureV1, LiveAlertsV1

LEMMA TypingInit == Init => Typing
<1>1. /\ <<>> \in Seq(Int) /\ <<>> \in Seq(Int \cup {EOF})
      /\ <<>> \in Seq(Int \cup {EOF, Error})
  BY EmptySeq
<1>2. 0 \in 0..Len(Readings) /\ 0 \in 0..Updates /\ 0 \in 0..MaxBreaks
  BY SensorAssumption, LenProperties
<1> QED
  BY <1>1, <1>2 DEF Init, Typing

LEMMA TypingStep == Typing /\ [Next]_vars => Typing'
<1> SUFFICES ASSUME Typing, [Next]_vars PROVE Typing'
  OBVIOUS
<1> USE DEF Typing
<1>0. /\ Len(Readings) \in Nat
      /\ <<>> \in Seq(Int) /\ <<>> \in Seq(Int \cup {EOF})
      /\ <<>> \in Seq(Int \cup {EOF, Error})
      /\ <<Error>> \in Seq(Int \cup {EOF, Error})
  BY SensorAssumption, LenProperties, EmptySeq
<1>a. toServer # <<>> => /\ Head(toServer) \in Int \cup {EOF}
                         /\ Tail(toServer) \in Seq(Int \cup {EOF})
  BY HeadTailProperties
<1>b. toClient # <<>> => /\ Head(toClient) \in Int \cup {EOF, Error}
                         /\ Tail(toClient) \in Seq(Int \cup {EOF, Error})
  BY HeadTailProperties
<1>c. \A e \in Int \cup {EOF} : Append(toServer, e) \in Seq(Int \cup {EOF})
  BY AppendProperties
<1>d. \A e \in Int \cup {EOF, Error} :
          Append(toClient, e) \in Seq(Int \cup {EOF, Error})
  BY AppendProperties
<1>e. \A e \in Int : Append(received, e) \in Seq(Int)
  BY AppendProperties
<1>1. CASE Accept
  BY <1>1, AskedHandler DEF Accept
<1>2. CASE MonitorTemperature
  <2>1. produced \in Int /\ produced \in Nat /\ Updates \in Nat
    BY SensorAssumption
  <2>2. Append(toClient, produced) \in Seq(Int \cup {EOF, Error})
    BY <2>1, <1>d
  <2>3. Append(toClient, EOF) \in Seq(Int \cup {EOF, Error})
    BY <1>d
  <2>4. produced' \in 0..Updates
    BY <1>2, <2>1 DEF MonitorTemperature
  <2>5. toClient' \in Seq(Int \cup {EOF, Error})
    BY <1>2, <2>2, <2>3 DEF MonitorTemperature
  <2> QED
    BY <1>2, <2>4, <2>5 DEF MonitorTemperature
<1>3. CASE LiveAlerts
  <2>1. toServer' \in Seq(Int \cup {EOF})
    BY <1>3, <1>a DEF LiveAlerts
  <2>2. Append(toClient, EOF) \in Seq(Int \cup {EOF, Error})
    BY <1>d
  <2>3. Head(toServer) # EOF =>
            Append(toClient, Head(toServer)) \in Seq(Int \cup {EOF, Error})
    BY <1>3, <1>a, <1>d DEF LiveAlerts
  <2> QED
    BY <1>3, <2>1, <2>2, <2>3 DEF LiveAlerts
<1>4. CASE Break
  BY <1>4, <1>0, SensorAssumption DEF Break
<1>5. CASE OpenMonitorTemperature
  BY <1>5, <1>0, SensorAssumption DEF OpenMonitorTemperature
<1>6. CASE RecvUpdate
  <2>1. /\ toClient' \in Seq(Int \cup {EOF, Error})
        /\ Head(toClient) \in Int \/ Head(toClient) \in {EOF, Error}
    BY <1>6, <1>b DEF RecvUpdate
  <2>2. received' \in Seq(Int)
    BY <1>6, <2>1, <1>e DEF RecvUpdate
  <2> QED
    BY <1>6, <2>1, <2>2 DEF RecvUpdate
<1>7. CASE OpenLiveAlerts
  <2>1. breaks' \in 0..MaxBreaks
    BY <1>7, SensorAssumption DEF OpenLiveAlerts
  <2>2. received' \in Seq(Int)
    BY <1>7, <1>0 DEF OpenLiveAlerts
  <2>3. /\ toServer' \in Seq(Int \cup {EOF})
        /\ toClient' \in Seq(Int \cup {EOF, Error})
    BY <1>7, <1>0 DEF OpenLiveAlerts
  <2> QED
    BY <1>7, <2>1, <2>2, <2>3 DEF OpenLiveAlerts
<1>8. CASE Send
  <2>1. sent + 1 \in 0..Len(Readings) /\ sent + 1 \in 1..Len(Readings)
    BY <1>8, <1>0 DEF Send
  <2>2. Readings[sent + 1] \in Int \cup {EOF}
    BY <2>1, SensorAssumption, ElementOfSeq
  <2>3. toServer' \in Seq(Int \cup {EOF})
    BY <1>8, <2>2, <1>c DEF Send
  <2> QED
    BY <1>8, <2>1, <2>3 DEF Send
<1>9. CASE CloseSend
  <2>1. toServer' \in Seq(Int \cup {EOF})
    BY <1>9, <1>c DEF CloseSend
  <2> QED
    BY <1>9, <2>1 DEF CloseSend
<1>10. CASE RecvAlert
  <2>1. /\ toClient' \in Seq(Int \cup {EOF, Error})
        /\ Head(toClient) \in Int \/ Head(toClient) \in {EOF, Error}
    BY <1>10, <1>b DEF RecvAlert
  <2>2. received' \in Seq(Int)
    BY <1>10, <2>1, <1>e DEF RecvAlert
  <2> QED
    BY <1>10, <2>1, <2>2 DEF RecvAlert
<1>11. CASE Exit
  BY <1>11 DEF Exit
<1>12. CASE UNCHANGED vars
  BY <1>12 DEF vars
<1> QED
  BY <1>1, <1>2, <1>3, <1>4, <1>5, <1>6, <1>7, <1>8, <1>9, <1>10, <1>11,
     <1>12 DEF Next

-----------------------------------------------------------------------------
(* The invariant.                                                          *)

\* Until LiveAlerts is open nothing is sent, and no stream is open but the
\* first, whose client waits for its end.
FirstStream ==
    /\ main \in {"start", "monitor", "between", "exited"}
    /\ sent = 0
    /\ waitc = FALSE
    /\ toServer = <<>>
    /\ main = "start" => toClient = <<>>
    /\ Open => /\ main = "monitor"
               /\ handler # "LiveAlerts"
               /\ toClient \in Seq(Int)

\* main() has passed CloseSend.
Closed == main \in {"wait", "exited"}

\* The handler has received n readings. The others that were sent are on
\* their way to it, followed by the end of the stream if that was sent too.
OnTheWay(n) ==
    /\ Len(toServer) = IF Closed THEN sent - n + 1 ELSE sent - n
    /\ \A i \in 1..(sent - n) : toServer[i] = Readings[n + i]
    /\ Closed => toServer[sent - n + 1] = EOF

\* The handler runs: what was received and what is on its way back are the
\* alerts of the readings it has received.
Serving ==
    /\ handler \in {"accepting", "LiveAlerts"}
    /\ receiver = "running"
    /\ ~waitc
    /\ toClient \in Seq(Int)
    /\ \E n \in 0..sent : OnTheWay(n) /\ Lists(received \o toClient, n)

\* The handler has returned nil: the end of the stream follows the alerts.
Served ==
    /\ handler = "returned"
    /\ Closed
    /\ toServer = <<>>
    /\ \/ /\ receiver = "running"
          /\ ~waitc
          /\ \E t \in Seq(Int) : /\ toClient = Append(t, EOF)
                                 /\ Lists(received \o t, Len(Readings))
       \/ /\ receiver = "returned"
          /\ waitc
          /\ toClient = <<>>
          /\ Lists(received, Len(Readings))

\* The connection broke: waitc is never closed.
Broken ==
    /\ handler = "failed"
    /\ ~waitc
    /\ toServer = <<>>
    /\ \E n \in 0..sent : Lists(received, n)
    /\ \/ receiver = "running" /\ toClient = <<Error>>
       \/ receiver = "returned" /\ toClient = <<>>

SecondStream ==
    /\ main \in {"send", "wait", "exited"}
    /\ Closed => sent = Len(Readings)
    /\ main = "exited" => waitc
    /\ Serving \/ Served \/ Broken

StreamInv == IF receiver = "none" THEN FirstStream ELSE SecondStream

-----------------------------------------------------------------------------
(* The first stream's steps.                                               *)

LEMMA FirstSteps ==
    ASSUME Typing, StreamInv, receiver = "none", Next
    PROVE  StreamInv'
<1>0. FirstStream
  BY DEF StreamInv
<1> USE DEF FirstStream, Typing
<1>1. CASE Accept
  BY <1>0, <1>1, AskedHandler DEF Accept, Open, StreamInv
<1>2. CASE MonitorTemperature
  <2>1. toClient \in Seq(Int) /\ main = "monitor"
    BY <1>0, <1>2 DEF MonitorTemperature, Open
  <2>2. produced \in Int
    BY SensorAssumption
  <2>3. Append(toClient, produced) \in Seq(Int)
    BY <2>1, <2>2, AppendProperties
  <2> QED
    BY <1>0, <1>2, <2>1, <2>3 DEF MonitorTemperature, Open, StreamInv
<1>3. CASE LiveAlerts
  BY <1>0, <1>3 DEF LiveAlerts, Open
<1>4. CASE Break
  BY <1>0, <1>4 DEF Break, Open, StreamInv
<1>5. CASE OpenMonitorTemperature
  <2>1. <<>> \in Seq(Int)
    BY EmptySeq
  <2> QED
    BY <1>0, <1>5, <2>1 DEF OpenMonitorTemperature, Open, StreamInv
<1>6. CASE RecvUpdate
  <2>1. toClient \in Seq(Int) =>
            /\ Head(toClient) \in Int
            /\ Tail(toClient) \in Seq(Int)
    BY <1>6, HeadTailProperties DEF RecvUpdate
  <2>2. Open => Head(toClient) \notin {EOF, Error}
    BY <1>0, <2>1, SensorAssumption
  <2> QED
    BY <1>0, <1>6, <2>1, <2>2 DEF RecvUpdate, Open, StreamInv
<1>7. CASE OpenLiveAlerts
  <2>1. CASE main' = "exited"
    BY <1>0, <1>7, <2>1 DEF OpenLiveAlerts, Open, StreamInv
  <2>2. CASE main' = "send" /\ receiver' = "running"
    <3>1. <<>> \in Seq(Int) /\ Len(<<>>) = 0 /\ <<>> \o <<>> = <<>>
      BY EmptySeq, ConcatEmptySeq
    <3>2. ~Closed' /\ sent' = 0 /\ toServer' = <<>>
      BY <1>0, <1>7, <2>2 DEF OpenLiveAlerts, Closed
    <3>3. OnTheWay(0)'
      BY <3>1, <3>2 DEF OnTheWay
    <3>4. received' = <<>> /\ toClient' = <<>>
      BY <1>7, <2>2 DEF OpenLiveAlerts
    <3>5. Lists(<<>>, 0)' /\ received' \o toClient' = <<>>
      BY <3>1, <3>4, NoneListed DEF Lists, HotAmong
    <3>6. \E n \in (0..sent)' : OnTheWay(n)' /\ Lists(received \o toClient, n)'
      BY <3>2, <3>3, <3>4, <3>5
    <3>7. Serving'
      BY <1>0, <1>7, <2>2, <3>1, <3>6 DEF OpenLiveAlerts, Serving
    <3> QED
      BY <2>2, <3>2, <3>7 DEF StreamInv, SecondStream, Closed
  <2> QED
    BY <1>7, <2>1, <2>2 DEF OpenLiveAlerts
<1>8. CASE Send
  BY <1>0, <1>8 DEF Send
<1>9. CASE CloseSend
  BY <1>0, <1>9 DEF CloseSend
<1>10. CASE RecvAlert
  BY <1>10 DEF RecvAlert
<1>11. CASE Exit
  BY <1>0, <1>11 DEF Exit
<1> QED
  BY <1>1, <1>2, <1>3, <1>4, <1>5, <1>6, <1>7, <1>8, <1>9, <1>10, <1>11
     DEF Next

-----------------------------------------------------------------------------
(* The second stream's steps.                                              *)

\* What the handler receives next: the next reading, or the end of the stream
\* when it has received all that was sent.
LEMMA NextReceived ==
    ASSUME Typing, NEW n \in 0..sent, OnTheWay(n), toServer # <<>>
    PROVE  /\ Head(toServer) = EOF => /\ n = sent
                                      /\ Closed
                                      /\ Tail(toServer) = <<>>
           /\ Head(toServer) # EOF => /\ n < sent
                                      /\ Head(toServer) = Readings[n + 1]
<1>1. /\ Len(Readings) \in Nat /\ sent \in 0..Len(Readings)
      /\ toServer \in Seq(Int \cup {EOF})
  BY SensorAssumption, LenProperties DEF Typing
<1>2. /\ Head(toServer) = toServer[1]
      /\ Tail(toServer) \in Seq(Int \cup {EOF})
      /\ Len(Tail(toServer)) = Len(toServer) - 1
      /\ Len(toServer) \in Nat \ {0}
  BY <1>1, HeadTailProperties, EmptySeq
<1>3. CASE n < sent
  <2>1. 1 \in 1..(sent - n) /\ n + 1 \in 1..Len(Readings)
    BY <1>1, <1>3
  <2>2. toServer[1] = Readings[n + 1]
    BY <2>1 DEF OnTheWay
  <2>3. Readings[n + 1] \in Int
    BY <2>1, SensorAssumption, ElementOfSeq
  <2> QED
    BY <1>2, <1>3, <2>2, <2>3, SensorAssumption
<1>4. CASE n = sent
  <2>1. sent - n = 0
    BY <1>1, <1>4
  <2>2. Closed /\ Len(toServer) = 1
    BY <1>2, <2>1 DEF OnTheWay
  <2>3. toServer[1] = EOF
    BY <2>1, <2>2 DEF OnTheWay
  <2>4. Tail(toServer) = <<>>
    <3>1. Len(Tail(toServer)) = 0
      BY <1>2, <2>2
    <3> QED
      BY <3>1, <1>2, EmptySeq
  <2> QED
    BY <1>2, <1>4, <2>2, <2>3, <2>4
<1> QED
  BY <1>1, <1>3, <1>4

LEMMA HandlerReceives ==
    ASSUME Typing, SecondStream, LiveAlerts
    PROVE  SecondStream'
<1> USE DEF Typing
<1>1. Serving
  BY DEF SecondStream, LiveAlerts, Served, Broken
<1>2. PICK n \in 0..sent : OnTheWay(n) /\ Lists(received \o toClient, n)
  BY <1>1 DEF Serving
<1>3. toServer # <<>>
  BY DEF LiveAlerts
<1>4. /\ Head(toServer) = EOF => /\ n = sent
                                 /\ Closed
                                 /\ Tail(toServer) = <<>>
      /\ Head(toServer) # EOF => /\ n < sent
                                 /\ Head(toServer) = Readings[n + 1]
  BY <1>2, <1>3, NextReceived
<1>5. /\ UNCHANGED <<main, sent, receiver, waitc, received>>
      /\ toServer' = Tail(toServer)
  BY DEF LiveAlerts
<1>6. received \in Seq(Int) /\ toClient \in Seq(Int)
  BY <1>1 DEF Serving
<1>7. CASE Head(toServer) = EOF
  <2>1. handler' = "returned" /\ toClient' = Append(toClient, EOF)
    BY <1>7 DEF LiveAlerts
  <2>2. n = Len(Readings)
    BY <1>4, <1>7 DEF SecondStream
  <2>3. Lists(received \o toClient, Len(Readings))
    BY <1>2, <2>2
  <2>4. \E t \in Seq(Int) : toClient' = Append(t, EOF)
                            /\ Lists(received \o t, Len(Readings))
    BY <1>6, <2>1, <2>3
  <2>5. (\E t \in Seq(Int) : toClient = Append(t, EOF)
                             /\ Lists(received \o t, Len(Readings)))'
    BY <1>5, <2>4
  <2>6. Served'
    BY <1>1, <1>4, <1>5, <1>7, <2>1, <2>5 DEF Served, Serving, Closed
  <2> QED
    BY <1>5, <2>6 DEF SecondStream, Closed
<1>8. CASE Head(toServer) # EOF
  <2>1. handler' = "LiveAlerts"
    BY <1>8 DEF LiveAlerts
  <2>2. /\ Len(Readings) \in Nat /\ sent \in 0..Len(Readings)
        /\ n + 1 \in 0..sent /\ n + 1 \in 1..Len(Readings) /\ n \in Nat
    BY <1>4, <1>8, SensorAssumption, LenProperties
  <2>3. Readings[n + 1] \in Int
    BY <2>2, SensorAssumption, ElementOfSeq
  <2>4. received \o toClient \in Seq(Int)
    BY <1>6, ConcatProperties
  <2>5. toClient' \in Seq(Int) /\ Lists(received \o toClient', n + 1)
    <3>1. CASE Hot(Readings[n + 1])
      <4>1. toClient' = Append(toClient, Readings[n + 1])
        BY <1>4, <1>8, <3>1 DEF LiveAlerts
      <4>2. received \o toClient' = Append(received \o toClient, Readings[n + 1])
        BY <4>1, <1>6, <2>3, SentNext
      <4>3. Lists(Append(received \o toClient, Readings[n + 1]), n + 1)
        BY <3>1, <1>2, <2>2, <2>4, HotListed
      <4> QED
        BY <4>1, <4>2, <4>3, <1>6, <2>3, AppendProperties
    <3>2. CASE ~Hot(Readings[n + 1])
      <4>1. toClient' = toClient
        BY <1>4, <1>8, <3>2 DEF LiveAlerts
      <4> QED
        BY <4>1, <3>2, <1>2, <1>6, <2>2, ColdListed
    <3> QED
      BY <3>1, <3>2
  <2>6. OnTheWay(n + 1)'
    <3>1. /\ Len(Tail(toServer)) = Len(toServer) - 1
          /\ \A i \in 1..(Len(toServer) - 1) : Tail(toServer)[i] = toServer[i + 1]
          /\ Len(toServer) \in Nat
      BY <1>3, HeadTailProperties, LenProperties
    <3>2. /\ Len(toServer) = IF Closed THEN sent - n + 1 ELSE sent - n
          /\ \A i \in 1..(sent - n) : toServer[i] = Readings[n + i]
          /\ Closed => toServer[sent - n + 1] = EOF
      BY <1>2 DEF OnTheWay
    <3>3. Len(Tail(toServer)) =
              IF Closed THEN sent - (n + 1) + 1 ELSE sent - (n + 1)
      <4>1. CASE Closed
        BY <4>1, <2>2, <3>1, <3>2
      <4>2. CASE ~Closed
        BY <4>2, <2>2, <3>1, <3>2
      <4> QED
        BY <4>1, <4>2
    <3>4. ASSUME NEW i \in 1..(sent - (n + 1))
          PROVE  Tail(toServer)[i] = Readings[(n + 1) + i]
      <4>1. /\ i + 1 \in 1..(sent - n) /\ n + (i + 1) = (n + 1) + i
            /\ i \in 1..(Len(toServer) - 1)
        BY <2>2, <3>1, <3>2
      <4>2. toServer[i + 1] = Readings[n + (i + 1)]
        BY <4>1, <3>2
      <4> QED
        BY <4>1, <4>2, <3>1
    <3>5. ASSUME Closed PROVE Tail(toServer)[sent - (n + 1) + 1] = EOF
      <4> DEFINE i == sent - (n + 1) + 1
      <4>1. i + 1 = sent - n + 1 /\ i \in 1..(Len(toServer) - 1)
        BY <2>2, <3>1, <3>2, <3>5
      <4> HIDE DEF i
      <4>2. Tail(toServer)[i] = EOF
        BY <4>1, <3>1, <3>2, <3>5
      <4> QED
        BY <4>2 DEF i
    <3>6. Closed' = Closed
      BY <1>5 DEF Closed
    <3> QED
      BY <1>5, <3>3, <3>4, <3>5, <3>6 DEF OnTheWay
  <2>7. \E k \in (0..sent)' : OnTheWay(k)' /\ Lists(received \o toClient, k)'
    <3>1. Lists(received \o toClient, n + 1)'
      BY <1>5, <2>5 DEF Lists, HotAmong
    <3>2. n + 1 \in (0..sent)'
      BY <1>5, <2>2
    <3> QED
      BY <3>1, <3>2, <2>6
  <2>8. Serving'
    BY <1>1, <1>5, <2>1, <2>5, <2>7 DEF Serving
  <2> QED
    BY <1>5, <2>8 DEF SecondStream, Closed
<1> QED
  BY <1>7, <1>8

LEMMA ConnectionBreaks ==
    ASSUME Typing, SecondStream, Break
    PROVE  SecondStream'
<1>1. receiver = "running" /\ ~waitc
  BY DEF SecondStream, Break, Open, Serving, Served, Broken
<1>3. sent \in Nat /\ Len(Readings) \in Nat
  BY SensorAssumption, LenProperties DEF Typing
<1>2. PICK n \in 0..sent, t \in Seq(Int) : Lists(received \o t, n)
  <2>1. CASE Serving
    BY <2>1 DEF Serving
  <2>2. CASE Served
    <3>1. sent = Len(Readings) /\ Len(Readings) \in 0..sent
      BY <1>3, <2>2 DEF SecondStream, Served
    <3>2. PICK t \in Seq(Int) : Lists(received \o t, Len(Readings))
      BY <1>1, <2>2 DEF Served
    <3> QED
      BY <3>1, <3>2
  <2> QED
    BY <2>1, <2>2 DEF SecondStream, Break, Open, Broken
<1>4. PICK m \in 0..n : Lists(received, m)
  BY <1>2, <1>3, PrefixListed DEF Typing
<1>5. m \in 0..sent
  BY <1>3, <1>4
<1>6. /\ UNCHANGED <<main, sent, receiver, waitc, received>>
      /\ handler' = "failed" /\ toServer' = <<>> /\ toClient' = <<Error>>
  BY DEF Break
<1>7. (\E k \in 0..sent : Lists(received, k))'
  BY <1>4, <1>5, <1>6 DEF Lists, HotAmong
<1>8. Broken'
  BY <1>1, <1>6, <1>7 DEF Broken
<1> QED
  BY <1>6, <1>8 DEF SecondStream, Closed

LEMMA ReadingSent ==
    ASSUME Typing, SecondStream, Send
    PROVE  SecondStream'
<1> USE DEF Typing
<1>1. /\ sent \in Nat /\ sent + 1 \in 1..Len(Readings)
      /\ Readings[sent + 1] \in Int \cup {EOF}
  <2>1. sent \in Nat /\ sent + 1 \in 1..Len(Readings)
    BY SensorAssumption, LenProperties DEF Send
  <2> QED
    BY <2>1, SensorAssumption, ElementOfSeq
<1>2. /\ UNCHANGED <<main, receiver, waitc, received, handler, toClient>>
      /\ main = "send" /\ sent' = sent + 1
  BY DEF Send
<1>3. ~Closed /\ ~Closed'
  BY <1>2 DEF Closed
<1>4. CASE Serving
  <2>1. PICK n \in 0..sent : OnTheWay(n) /\ Lists(received \o toClient, n)
    BY <1>4 DEF Serving
  <2>2. toServer' = Append(toServer, Readings[sent + 1])
    BY <1>4 DEF Serving, Open, Send
  <2>3. /\ Len(toServer') = Len(toServer) + 1
        /\ \A i \in 1..Len(toServer) : toServer'[i] = toServer[i]
        /\ toServer'[Len(toServer) + 1] = Readings[sent + 1]
    BY <1>1, <2>2, AppendProperties
  <2>4. /\ Len(toServer) = sent - n
        /\ \A i \in 1..(sent - n) : toServer[i] = Readings[n + i]
    BY <1>3, <2>1 DEF OnTheWay
  <2>5. Len(toServer') = sent + 1 - n
    BY <1>1, <2>3, <2>4
  <2>6. ASSUME NEW i \in 1..(sent + 1 - n)
        PROVE  toServer'[i] = Readings[n + i]
    <3>1. CASE i = sent - n + 1
      <4>1. n + i = sent + 1 /\ i = Len(toServer) + 1
        BY <1>1, <2>4, <3>1
      <4> QED
        BY <4>1, <2>3
    <3>2. CASE i # sent - n + 1
      <4>1. i \in 1..(sent - n)
        BY <1>1, <3>2
      <4> QED
        BY <4>1, <2>3, <2>4
    <3> QED
      BY <3>1, <3>2
  <2>7. OnTheWay(n)'
    BY <1>2, <1>3, <2>5, <2>6 DEF OnTheWay
  <2>8. n \in (0..sent)'
    BY <1>1, <1>2
  <2>9. Lists(received \o toClient, n)'
    BY <1>2, <2>1
  <2>10. (\E k \in 0..sent : OnTheWay(k) /\ Lists(received \o toClient, k))'
    BY <2>7, <2>8, <2>9
  <2>11. Serving'
    BY <1>2, <1>4, <2>10 DEF Serving
  <2> QED
    BY <1>2, <1>3, <2>11 DEF SecondStream, Closed
<1>5. CASE Served
  BY <1>3, <1>5 DEF Served
<1>6. CASE Broken
  <2>1. toServer' = <<>>
    BY <1>6 DEF Broken, Open, Send
  <2>2. PICK n \in 0..sent : Lists(received, n)
    BY <1>6 DEF Broken
  <2>3. n \in (0..sent)'
    BY <1>1, <1>2
  <2>4. Lists(received, n)'
    BY <1>2, <2>2
  <2>5. (\E k \in 0..sent : Lists(received, k))'
    BY <2>3, <2>4
  <2>6. Broken'
    BY <1>2, <1>6, <2>1, <2>5 DEF Broken
  <2> QED
    BY <1>2, <1>3, <2>6 DEF SecondStream, Closed
<1> QED
  BY <1>4, <1>5, <1>6 DEF SecondStream

LEMMA EndSent ==
    ASSUME Typing, SecondStream, CloseSend
    PROVE  SecondStream'
<1> USE DEF Typing
<1>1. sent \in Nat /\ sent = Len(Readings)
  BY SensorAssumption, LenProperties DEF CloseSend
<1>2. /\ UNCHANGED <<sent, receiver, waitc, received, handler, toClient>>
      /\ main = "send" /\ main' = "wait"
  BY DEF CloseSend
<1>3. ~Closed /\ Closed'
  BY <1>2 DEF Closed
<1>4. CASE Serving
  <2>1. PICK n \in 0..sent : OnTheWay(n) /\ Lists(received \o toClient, n)
    BY <1>4 DEF Serving
  <2>2. toServer' = Append(toServer, EOF)
    BY <1>4 DEF Serving, Open, CloseSend
  <2>3. /\ Len(toServer') = Len(toServer) + 1
        /\ \A i \in 1..Len(toServer) : toServer'[i] = toServer[i]
        /\ toServer'[Len(toServer) + 1] = EOF
    BY <2>2, AppendProperties
  <2>4. /\ Len(toServer) = sent - n
        /\ \A i \in 1..(sent - n) : toServer[i] = Readings[n + i]
    BY <1>3, <2>1 DEF OnTheWay
  <2>5. OnTheWay(n)'
    BY <1>2, <1>3, <2>3, <2>4 DEF OnTheWay
  <2>6. n \in (0..sent)' /\ Lists(received \o toClient, n)'
    BY <1>2, <2>1
  <2>7. (\E k \in 0..sent : OnTheWay(k) /\ Lists(received \o toClient, k))'
    BY <2>5, <2>6
  <2>8. Serving'
    BY <1>2, <1>4, <2>7 DEF Serving
  <2> QED
    BY <1>1, <1>2, <2>8 DEF SecondStream
<1>5. CASE Served
  BY <1>3, <1>5 DEF Served
<1>6. CASE Broken
  <2>1. toServer' = <<>>
    BY <1>6 DEF Broken, Open, CloseSend
  <2>2. (\E k \in 0..sent : Lists(received, k))'
    BY <1>2, <1>6 DEF Broken
  <2>3. Broken'
    BY <1>2, <1>6, <2>1, <2>2 DEF Broken
  <2> QED
    BY <1>1, <1>2, <2>3 DEF SecondStream
<1> QED
  BY <1>4, <1>5, <1>6 DEF SecondStream

LEMMA AlertReceived ==
    ASSUME Typing, SecondStream, RecvAlert
    PROVE  SecondStream'
<1> USE DEF Typing
<1>1. /\ UNCHANGED <<main, sent, handler, toServer>>
      /\ toClient # <<>> /\ toClient' = Tail(toClient)
      /\ receiver = "running"
  BY DEF RecvAlert
<1>2. Closed' = Closed
  BY <1>1 DEF Closed
<1>3. CASE Serving
  <2>1. PICK n \in 0..sent : OnTheWay(n) /\ Lists(received \o toClient, n)
    BY <1>3 DEF Serving
  <2>2. /\ Head(toClient) \in Int /\ Tail(toClient) \in Seq(Int)
        /\ Append(received, Head(toClient)) \o Tail(toClient)
               = received \o toClient
    BY <1>1, <1>3, HeadTailProperties, ReceivedNext DEF Serving
  <2>3. /\ received' = Append(received, Head(toClient))
        /\ UNCHANGED <<waitc, receiver>>
    BY <2>2, SensorAssumption DEF RecvAlert
  <2>4. OnTheWay(n)' /\ n \in (0..sent)'
    BY <1>1, <1>2, <2>1 DEF OnTheWay
  <2>5. received' \o toClient' = received \o toClient
    BY <1>1, <2>2, <2>3
  <2>6. Lists(received \o toClient, n)'
    BY <2>1, <2>5
  <2>7. (\E k \in 0..sent : OnTheWay(k) /\ Lists(received \o toClient, k))'
    BY <2>4, <2>6
  <2>8. Serving'
    BY <1>1, <1>3, <2>2, <2>3, <2>7 DEF Serving
  <2> QED
    BY <1>1, <1>2, <2>3, <2>8 DEF SecondStream
<1>4. CASE Served
  <2>1. ~waitc
    BY <1>1, <1>4 DEF Served
  <2>2. PICK t \in Seq(Int) : /\ toClient = Append(t, EOF)
                              /\ Lists(received \o t, Len(Readings))
    BY <1>1, <1>4 DEF Served
  <2>3. /\ Head(toClient) = IF t = <<>> THEN EOF ELSE Head(t)
        /\ Tail(toClient) = IF t = <<>> THEN <<>> ELSE Append(Tail(t), EOF)
    BY <2>2, HeadTailAppend
  <2>4. CASE t = <<>>
    <3>1. waitc' /\ receiver' = "returned" /\ received' = received
      BY <2>3, <2>4, SensorAssumption DEF RecvAlert
    <3>2. toClient' = <<>> /\ received \o t = received
      BY <1>1, <2>3, <2>4, ConcatEmptySeq
    <3>3. Lists(received, Len(Readings))'
      BY <2>2, <3>1, <3>2
    <3>4. Served'
      BY <1>1, <1>2, <1>4, <3>1, <3>2, <3>3 DEF Served
    <3> QED
      BY <1>1, <1>2, <3>1, <3>4 DEF SecondStream
  <2>5. CASE t # <<>>
    <3>1. /\ Head(t) \in Int /\ Tail(t) \in Seq(Int)
          /\ Append(received, Head(t)) \o Tail(t) = received \o t
      BY <2>5, HeadTailProperties, ReceivedNext
    <3>2. /\ received' = Append(received, Head(t))
          /\ UNCHANGED <<waitc, receiver>>
          /\ toClient' = Append(Tail(t), EOF)
      BY <1>1, <2>3, <2>5, <3>1, SensorAssumption DEF RecvAlert
    <3>3. Lists(received' \o Tail(t), Len(Readings))
      BY <2>2, <3>1, <3>2
    <3>4. \E s \in Seq(Int) : toClient' = Append(s, EOF)
                              /\ Lists(received' \o s, Len(Readings))
      BY <3>1, <3>2, <3>3
    <3>5. (\E s \in Seq(Int) : /\ toClient = Append(s, EOF)
                               /\ Lists(received \o s, Len(Readings)))'
      BY <3>4
    <3>6. Served'
      BY <1>1, <1>2, <1>4, <2>1, <3>2, <3>5 DEF Served
    <3> QED
      BY <1>1, <1>2, <3>2, <3>6 DEF SecondStream
  <2> QED
    BY <2>4, <2>5
<1>5. CASE Broken
  <2>1. toClient = <<Error>>
    BY <1>1, <1>5 DEF Broken
  <2>2. Head(toClient) = Error /\ Tail(toClient) = <<>>
    BY <2>1
  <2>3. /\ receiver' = "returned" /\ UNCHANGED <<waitc, received>>
    BY <2>2, SensorAssumption DEF RecvAlert
  <2>4. (\E k \in 0..sent : Lists(received, k))'
    BY <1>1, <1>5, <2>3 DEF Broken
  <2>5. Broken'
    BY <1>1, <1>5, <2>2, <2>3, <2>4 DEF Broken
  <2> QED
    BY <1>1, <1>2, <2>3, <2>5 DEF SecondStream
<1> QED
  BY <1>3, <1>4, <1>5 DEF SecondStream

LEMMA SecondSteps ==
    ASSUME Typing, StreamInv, receiver # "none", Next
    PROVE  StreamInv'
<1>0. SecondStream
  BY DEF StreamInv
<1> SUFFICES SecondStream' /\ receiver' # "none"
  BY DEF StreamInv
<1>1. CASE Accept
  <2>1. /\ main # "monitor" /\ handler = "accepting"
        /\ UNCHANGED <<main, sent, receiver, waitc, received, toServer, toClient>>
    BY <1>0, <1>1 DEF Accept, SecondStream
  <2>2. handler' = "LiveAlerts"
    BY <1>1, <2>1, AskedHandler DEF Accept
  <2>3. Serving
    BY <1>0, <2>1 DEF SecondStream, Served, Broken
  <2>4. (\E n \in 0..sent : OnTheWay(n) /\ Lists(received \o toClient, n))'
    <3>1. PICK n \in 0..sent : OnTheWay(n) /\ Lists(received \o toClient, n)
      BY <2>3 DEF Serving
    <3>2. OnTheWay(n)'
      BY <2>1, <3>1 DEF OnTheWay, Closed
    <3>3. n \in (0..sent)' /\ Lists(received \o toClient, n)'
      BY <2>1, <3>1
    <3> QED
      BY <3>2, <3>3
  <2>5. Serving'
    BY <2>1, <2>2, <2>3, <2>4 DEF Serving
  <2> QED
    BY <1>0, <2>1, <2>5 DEF SecondStream, Closed
<1>2. CASE MonitorTemperature
  BY <1>0, <1>2 DEF MonitorTemperature, SecondStream, Serving, Served, Broken
<1>3. CASE LiveAlerts
  BY <1>0, <1>3, HandlerReceives DEF LiveAlerts
<1>4. CASE Break
  BY <1>0, <1>4, ConnectionBreaks DEF Break
<1>5. CASE OpenMonitorTemperature
  BY <1>0, <1>5 DEF OpenMonitorTemperature, SecondStream
<1>6. CASE RecvUpdate
  BY <1>0, <1>6 DEF RecvUpdate, SecondStream
<1>7. CASE OpenLiveAlerts
  BY <1>0, <1>7 DEF OpenLiveAlerts, SecondStream
<1>8. CASE Send
  BY <1>0, <1>8, ReadingSent DEF Send
<1>9. CASE CloseSend
  BY <1>0, <1>9, EndSent DEF CloseSend
<1>10. CASE RecvAlert
  <2>1. receiver' # "none"
    BY <1>10 DEF RecvAlert
  <2> QED
    BY <1>0, <1>10, <2>1, AlertReceived
<1>11. CASE Exit
  <2>1. /\ main = "wait" /\ waitc /\ main' = "exited"
        /\ UNCHANGED <<sent, receiver, waitc, received, handler, toServer, toClient>>
    BY <1>11 DEF Exit
  <2>2. Served /\ sent = Len(Readings)
    BY <1>0, <2>1 DEF SecondStream, Serving, Broken, Closed
  <2>3. receiver = "returned" /\ toClient = <<>> /\ Lists(received, Len(Readings))
    BY <2>1, <2>2 DEF Served
  <2>4. Lists(received, Len(Readings))'
    BY <2>1, <2>3
  <2>5. Served'
    BY <2>1, <2>2, <2>3, <2>4 DEF Served, Closed
  <2> QED
    BY <2>1, <2>2, <2>3, <2>5 DEF SecondStream
<1> QED
  BY <1>1, <1>2, <1>3, <1>4, <1>5, <1>6, <1>7, <1>8, <1>9, <1>10, <1>11
     DEF Next

-----------------------------------------------------------------------------
(* The theorems.                                                           *)

\* What is inductive.
StreamsInv == Typing /\ StreamInv

LEMMA StreamsInvInit == Init => StreamsInv
BY TypingInit DEF StreamsInv, Init, StreamInv, FirstStream, Open

LEMMA StreamsInvStep == StreamsInv /\ [Next]_vars => StreamsInv'
<1> SUFFICES ASSUME StreamsInv, [Next]_vars PROVE StreamsInv'
  OBVIOUS
<1>1. Typing'
  BY TypingStep DEF StreamsInv
<1>2. CASE Next
  <2>1. StreamInv'
    BY <1>2, FirstSteps, SecondSteps DEF StreamsInv
  <2> QED
    BY <1>1, <2>1 DEF StreamsInv
<1>3. CASE UNCHANGED vars
  <2>1. StreamInv' = StreamInv
    BY <1>3 DEF vars, StreamInv, FirstStream, SecondStream, Serving, Served,
                Broken, OnTheWay, Closed, Open
  <2> QED
    BY <1>1, <2>1 DEF StreamsInv
<1> QED
  BY <1>2, <1>3

LEMMA StreamsInvHolds == Spec => []StreamsInv
BY StreamsInvInit, StreamsInvStep, PTL DEF Spec

\* The type invariant; the server never holds more than the client has sent,
\* the end of the stream included.
THEOREM TypeCorrect == Spec => []TypeOK
<1>1. StreamsInv => TypeOK
  <2> SUFFICES ASSUME Typing, StreamInv PROVE TypeOK
    BY DEF StreamsInv
  <2>1. Len(Readings) \in Nat /\ Len(<<>>) = 0 /\ sent \in 0..Len(Readings)
    BY SensorAssumption, LenProperties, EmptySeq DEF Typing
  <2>2. CASE toServer = <<>>
    BY <2>1, <2>2 DEF Typing, TypeOK
  <2>3. CASE toServer # <<>>
    <3>1. PICK n \in 0..sent : OnTheWay(n)
      BY <2>3 DEF StreamInv, FirstStream, SecondStream, Serving, Served, Broken
    <3>2. Len(toServer) <= Len(Readings) + 1
      <4>1. CASE Closed
        BY <2>1, <3>1, <4>1 DEF OnTheWay
      <4>2. CASE ~Closed
        BY <2>1, <3>1, <4>2 DEF OnTheWay
      <4> QED
        BY <4>1, <4>2
    <3> QED
      BY <3>2 DEF Typing, TypeOK
  <2> QED
    BY <2>2, <2>3
<1> QED
  BY <1>1, StreamsInvHolds, PTL

\* Whatever main() sends and however often the connection breaks, what the
\* receiving goroutine has are the alerts of the first readings, those of
\* LiveAlerts' test, in order, with none missing and none twice.
THEOREM AlertsAreInOrder == Spec => []AlertsInOrder
<1>1. StreamsInv => AlertsInOrder
  <2> SUFFICES ASSUME Typing, StreamInv, receiver # "none"
               PROVE  \E n \in 0..sent : Lists(received, n)
    BY DEF StreamsInv, AlertsInOrder
  <2>1. SecondStream
    BY DEF StreamInv
  <2>2. /\ Len(Readings) \in Nat /\ sent \in 0..Len(Readings)
        /\ received \in Seq(Int)
    BY SensorAssumption, LenProperties DEF Typing
  <2>3. CASE Serving
    <3>1. PICK n \in 0..sent : Lists(received \o toClient, n)
      BY <2>3 DEF Serving
    <3>2. PICK m \in 0..n : Lists(received, m)
      BY <2>2, <2>3, <3>1, PrefixListed DEF Serving
    <3>3. m \in 0..sent
      BY <2>2
    <3> QED
      BY <3>2, <3>3
  <2>4. CASE Served
    <3>1. sent = Len(Readings) /\ Len(Readings) \in 0..sent
      BY <2>1, <2>2, <2>4 DEF SecondStream, Served
    <3>2. CASE Lists(received, Len(Readings))
      BY <3>1, <3>2
    <3>3. CASE \E t \in Seq(Int) : Lists(received \o t, Len(Readings))
      <4>1. PICK m \in 0..Len(Readings) : Lists(received, m)
        BY <2>2, <3>3, PrefixListed
      <4> QED
        BY <3>1, <4>1
    <3> QED
      BY <2>4, <3>2, <3>3 DEF Served
  <2>5. CASE Broken
    BY <2>5 DEF Broken
  <2> QED
    BY <2>1, <2>3, <2>4, <2>5 DEF SecondStream
<1> QED
  BY <1>1, StreamsInvHolds, PTL

\* main() passes <-waitc only with the alert of every hot reading received:
\* io.EOF, which closes waitc, is the last thing the handler's return sends.
THEOREM ExitHasAllAlerts == Spec => []ExitsWithAllAlerts
<1>1. StreamsInv => ExitsWithAllAlerts
  BY DEF StreamsInv, StreamInv, SecondStream, Serving, Served, Broken,
         ExitsWithAllAlerts
<1> QED
  BY <1>1, StreamsInvHolds, PTL

-----------------------------------------------------------------------------
(* Why the client ends while the connection holds. Fairness is out of the  *)
(* prover's reach; that every step uses up some of the work there is, and  *)
(* that some process can go on until the client has ended, is not.         *)

MainWork ==
    CASE main = "start" -> 14
      [] main \in {"monitor", "between"} -> 9
      [] main = "send" -> 4
      [] main = "wait" -> 1
      [] OTHER -> 0

HandlerWork ==
    CASE handler = "accepting" -> 4
      [] handler \in {"MonitorTemperature", "LiveAlerts"} -> 3
      [] handler = "returned" -> 1
      [] OTHER -> 0

\* A bound on the steps that are left. A message to the server is worth the
\* step that receives it and the alert it may become.
Work ==
    MainWork + HandlerWork + 2 * (Updates - produced)
    + 3 * (Len(Readings) - sent) + 2 * Len(toServer) + Len(toClient)

LEMMA WorkType ==
    Typing => /\ MainWork \in Nat /\ HandlerWork \in Nat
              /\ produced \in 0..Updates /\ sent \in 0..Len(Readings)
              /\ Len(toServer) \in Nat /\ Len(toClient) \in Nat
<1> SUFFICES ASSUME Typing
             PROVE  /\ MainWork \in Nat /\ HandlerWork \in Nat
                    /\ produced \in 0..Updates /\ sent \in 0..Len(Readings)
                    /\ Len(toServer) \in Nat /\ Len(toClient) \in Nat
  OBVIOUS
<1>1. MainWork \in Nat /\ HandlerWork \in Nat
  BY DEF MainWork, HandlerWork, Typing
<1>2. Len(toServer) \in Nat /\ Len(toClient) \in Nat
  BY LenProperties DEF Typing
<1> QED
  BY <1>1, <1>2 DEF Typing

\* Each step pays for what it sends, starts or answers.
LEMMA StepWorks ==
    ASSUME StreamsInv, Next
    PROVE  Work' < Work
<1>1. /\ Typing /\ Typing'
      /\ main \in {"start", "between"} => receiver = "none" /\ FirstStream
  BY TypingStep DEF StreamsInv, StreamInv, SecondStream
<1>2. Updates \in Nat /\ Len(Readings) \in Nat
  BY SensorAssumption, LenProperties
<1>3. Len(<<>>) = 0 /\ Len(<<Error>>) = 1
  OBVIOUS
<1>4. PICK m \in Nat, h \in Nat, p \in 0..Updates, s \in 0..Len(Readings),
           a \in Nat, b \in Nat :
          /\ m = MainWork /\ h = HandlerWork /\ p = produced /\ s = sent
          /\ a = Len(toServer) /\ b = Len(toClient)
  BY <1>1, WorkType
<1>5. PICK m2 \in Nat, h2 \in Nat, p2 \in 0..Updates, s2 \in 0..Len(Readings),
           a2 \in Nat, b2 \in Nat :
          /\ m2 = MainWork' /\ h2 = HandlerWork' /\ p2 = produced' /\ s2 = sent'
          /\ a2 = Len(toServer') /\ b2 = Len(toClient')
  <2>1. (/\ MainWork \in Nat /\ HandlerWork \in Nat
         /\ produced \in 0..Updates /\ sent \in 0..Len(Readings)
         /\ Len(toServer) \in Nat /\ Len(toClient) \in Nat)'
    BY <1>1, WorkType, PTL
  <2> QED
    BY <2>1
<1>6. /\ Work = m + h + 2 * (Updates - p) + 3 * (Len(Readings) - s) + 2 * a + b
      /\ Work' = m2 + h2 + 2 * (Updates - p2) + 3 * (Len(Readings) - s2)
                 + 2 * a2 + b2
  BY <1>4, <1>5 DEF Work
<1>7. SUFFICES m2 + h2 + 3 * s + 2 * p + 2 * a2 + b2
                 < m + h + 3 * s2 + 2 * p2 + 2 * a + b
  <2> SUFFICES m2 + h2 + 2 * (Updates - p2) + 3 * (Len(Readings) - s2)
               + 2 * a2 + b2
               < m + h + 2 * (Updates - p) + 3 * (Len(Readings) - s) + 2 * a + b
    BY <1>6, Zenon
  <2> QED
    BY <1>2
<1>a. toServer # <<>> => /\ a # 0
                         /\ Len(Tail(toServer)) = a - 1
  BY <1>1, <1>4, EmptySeq, HeadTailProperties DEF Typing
<1>b. toClient # <<>> => /\ b # 0
                         /\ Len(Tail(toClient)) = b - 1
  BY <1>1, <1>4, EmptySeq, HeadTailProperties DEF Typing
<1>c. \A e \in Int \cup {EOF} : Len(Append(toServer, e)) = a + 1
  BY <1>1, <1>4, AppendProperties DEF Typing
<1>d. \A e \in Int \cup {EOF, Error} : Len(Append(toClient, e)) = b + 1
  BY <1>1, <1>4, AppendProperties DEF Typing
<1>11. CASE Accept
  <2>1. h = 4 /\ h2 = 3 /\ m2 = m /\ p2 = p /\ s2 = s /\ a2 = a /\ b2 = b
    BY <1>4, <1>5, <1>11, AskedHandler DEF Accept, HandlerWork, MainWork
  <2> QED
    BY <2>1
<1>12. CASE MonitorTemperature
  <2>1. m2 = m /\ s2 = s /\ a2 = a /\ h = 3
    BY <1>4, <1>5, <1>12 DEF MonitorTemperature, HandlerWork, MainWork
  <2>2. produced \in Int \cup {EOF, Error}
    BY <1>4
  <2>3. b2 = b + 1
    BY <1>5, <1>12, <1>d, <2>2 DEF MonitorTemperature
  <2>4. \/ h2 = h /\ p2 = p + 1
        \/ h2 = 1 /\ p2 = p
    BY <1>4, <1>5, <1>12 DEF MonitorTemperature, HandlerWork
  <2> QED
    BY <2>1, <2>3, <2>4
<1>13. CASE LiveAlerts
  <2>1. m2 = m /\ s2 = s /\ p2 = p /\ a2 = a - 1 /\ h = 3
    BY <1>4, <1>5, <1>13, <1>a DEF LiveAlerts, HandlerWork, MainWork
  <2>2. h2 \in {1, 3}
    BY <1>5, <1>13 DEF LiveAlerts, HandlerWork
  <2>3. toServer # <<>> => Head(toServer) \in Int \cup {EOF}
    BY <1>1, HeadTailProperties DEF Typing
  <2>4. b2 \in {b, b + 1}
    BY <1>4, <1>5, <1>13, <1>d, <2>3 DEF LiveAlerts
  <2> QED
    BY <2>1, <2>2, <2>4
<1>14. CASE Break
  <2>1. m2 = m /\ s2 = s /\ p2 = p /\ a2 = 0 /\ h2 = 0 /\ b2 = 1
    BY <1>3, <1>4, <1>5, <1>14 DEF Break, HandlerWork, MainWork
  <2>2. h \in {3, 4} \/ (h = 1 /\ b # 0)
    <3>1. CASE Open
      BY <1>4, <3>1 DEF Open, HandlerWork
    <3>2. CASE ~Open
      <4>1. handler = "returned" /\ toClient # <<>>
        BY <1>14, <3>2 DEF Break
      <4> QED
        BY <1>4, <1>b, <4>1 DEF HandlerWork
    <3> QED
      BY <3>1, <3>2
  <2> QED
    BY <2>1, <2>2
<1>15. CASE OpenMonitorTemperature
  <2>1. m = 14 /\ h \in {0, 1}
    BY <1>1, <1>4, <1>15
       DEF OpenMonitorTemperature, FirstStream, Open, MainWork, HandlerWork
  <2>2. m2 = 9 /\ h2 \in {h, 4} /\ s2 = s /\ p2 = p /\ a2 = a /\ b2 = b
    BY <1>4, <1>5, <1>15, <2>1 DEF OpenMonitorTemperature, MainWork, HandlerWork
  <2> QED
    BY <2>1, <2>2
<1>16. CASE RecvUpdate
  <2>1. m2 = m /\ h2 = h /\ s2 = s /\ p2 = p /\ a2 = a /\ b2 = b - 1
    BY <1>4, <1>5, <1>16, <1>b DEF RecvUpdate, MainWork, HandlerWork
  <2> QED
    BY <2>1
<1>17. CASE OpenLiveAlerts
  <2>1. m = 9 /\ h \in {0, 1}
    BY <1>1, <1>4, <1>17
       DEF OpenLiveAlerts, FirstStream, Open, MainWork, HandlerWork
  <2>2. \/ m2 = 4 /\ h2 = 4
        \/ m2 = 0 /\ h2 = h
    BY <1>4, <1>5, <1>17, <2>1 DEF OpenLiveAlerts, MainWork, HandlerWork
  <2>3. s2 = s /\ p2 = p /\ a2 = 0 /\ b2 = 0
    BY <1>3, <1>4, <1>5, <1>17 DEF OpenLiveAlerts
  <2> QED
    BY <2>1, <2>2, <2>3
<1>18. CASE Send
  <2>1. m2 = m /\ h2 = h /\ s2 = s + 1 /\ p2 = p /\ b2 = b
    BY <1>4, <1>5, <1>18 DEF Send, MainWork, HandlerWork
  <2>2. sent + 1 \in 1..Len(Readings)
    BY <1>2, <1>4, <1>18 DEF Send
  <2>3. Readings[sent + 1] \in Int \cup {EOF}
    BY <2>2, SensorAssumption, ElementOfSeq
  <2>4. a2 \in {a, a + 1}
    BY <1>4, <1>5, <1>18, <1>c, <2>3 DEF Send
  <2> QED
    BY <2>1, <2>4
<1>19. CASE CloseSend
  <2>1. m = 4 /\ m2 = 1 /\ h2 = h /\ s2 = s /\ p2 = p /\ b2 = b
    BY <1>4, <1>5, <1>19 DEF CloseSend, MainWork, HandlerWork
  <2>2. a2 \in {a, a + 1}
    BY <1>4, <1>5, <1>19, <1>c DEF CloseSend
  <2> QED
    BY <2>1, <2>2
<1>20. CASE RecvAlert
  <2>1. m2 = m /\ h2 = h /\ s2 = s /\ p2 = p /\ a2 = a /\ b2 = b - 1
    BY <1>4, <1>5, <1>20, <1>b DEF RecvAlert, MainWork, HandlerWork
  <2> QED
    BY <2>1
<1>21. CASE Exit
  <2>1. /\ m = 1 /\ m2 = 0
        /\ h2 = h /\ s2 = s /\ p2 = p /\ a2 = a /\ b2 = b
    BY <1>4, <1>5, <1>21 DEF Exit, MainWork, HandlerWork
  <2> QED
    BY <2>1
<1> QED
  BY <1>11, <1>12, <1>13, <1>14, <1>15, <1>16, <1>17, <1>18, <1>19, <1>20,
     <1>21 DEF Next

\* Every step uses up work, of which there is only so much: both processes
\* together take at most 14 steps, two more for each update and three more for
\* each reading. Neither the loops over Recv() nor the handlers go on for ever.
THEOREM WorkRunsOut ==
    Spec => [](Work \in Nat) /\ [][Work' < Work]_vars
<1>1. StreamsInv => Work \in Nat
  <2> SUFFICES ASSUME Typing PROVE Work \in Nat
    BY DEF StreamsInv
  <2>1. Updates \in Nat /\ Len(Readings) \in Nat
    BY SensorAssumption, LenProperties
  <2>2. PICK m \in Nat, h \in Nat, p \in 0..Updates, s \in 0..Len(Readings),
             a \in Nat, b \in Nat :
            /\ m = MainWork /\ h = HandlerWork /\ p = produced /\ s = sent
            /\ a = Len(toServer) /\ b = Len(toClient)
    BY WorkType
  <2>3. m + h + 2 * (Updates - p) + 3 * (Len(Readings) - s) + 2 * a + b \in Nat
    <3>1. Updates - p \in Nat /\ Len(Readings) - s \in Nat
      BY <2>1
    <3> QED
      BY <3>1
  <2> QED
    BY <2>2, <2>3 DEF Work
<1>2. StreamsInv /\ [Next]_vars => [Work' < Work]_vars
  BY StepWorks
<1> QED
  BY <1>1, <1>2, StreamsInvHolds, PTL DEF Spec

\* One of the two processes has a step to take: the guards of the actions that
\* FairSpec says are taken.
CanGoOn ==
    \/ main \in {"start", "between", "send"}
    \/ main = "monitor" /\ toClient # <<>>
    \/ main = "wait" /\ waitc
    \/ receiver = "running" /\ toClient # <<>>
    \/ handler \in {"accepting", "MonitorTemperature"}
    \/ handler = "LiveAlerts" /\ toServer # <<>>

\* A first stream that is over ends with what tells the client so.
FirstStreamEnds ==
    main = "monitor" /\ ~Open =>
        \E t \in Seq(Int), e \in {EOF, Error} : toClient = Append(t, e)

\* Streams fail only when the connection breaks.
FailsWhenBroken == handler = "failed" => breaks > 0

LEMMA EndsStep ==
    ASSUME StreamsInv, FirstStreamEnds, FailsWhenBroken, [Next]_vars
    PROVE  FirstStreamEnds' /\ FailsWhenBroken'
<1>1. Typing /\ (main = "monitor" => FirstStream)
  BY DEF StreamsInv, StreamInv, SecondStream
<1>2. FailsWhenBroken'
  <2>1. breaks \in Nat
    BY <1>1, SensorAssumption DEF Typing
  <2>2. CASE Break
    BY <2>1, <2>2 DEF Break, FailsWhenBroken
  <2>3. CASE OpenMonitorTemperature \/ OpenLiveAlerts
    BY <2>1, <2>3 DEF OpenMonitorTemperature, OpenLiveAlerts, FailsWhenBroken
  <2>4. CASE Accept
    BY <2>4, AskedHandler DEF Accept, FailsWhenBroken
  <2>5. CASE UNCHANGED vars
    BY <2>5 DEF vars, FailsWhenBroken
  <2> QED
    BY <2>2, <2>3, <2>4, <2>5
       DEF Next, MonitorTemperature, LiveAlerts, RecvUpdate, Send, CloseSend,
           RecvAlert, Exit, FailsWhenBroken
<1>3. FirstStreamEnds'
  <2> SUFFICES ASSUME main' = "monitor", ~Open'
               PROVE  \E t \in Seq(Int), e \in {EOF, Error} :
                          toClient' = Append(t, e)
    BY DEF FirstStreamEnds
  <2>1. CASE Accept
    BY <2>1, AskedHandler DEF Accept, Open
  <2>2. CASE MonitorTemperature
    <3>1. toClient \in Seq(Int)
      BY <1>1, <2>2 DEF MonitorTemperature, FirstStream, Open
    <3>2. toClient' = Append(toClient, EOF)
      BY <2>2 DEF MonitorTemperature, Open
    <3> QED
      BY <3>1, <3>2
  <2>3. CASE LiveAlerts
    BY <1>1, <2>3 DEF LiveAlerts, FirstStream, Open
  <2>4. CASE Break
    <3>1. toClient' = Append(<<>>, Error) /\ <<>> \in Seq(Int)
      BY <2>4, EmptySeq DEF Break
    <3> QED
      BY <3>1
  <2>5. CASE OpenMonitorTemperature
    BY <2>5 DEF OpenMonitorTemperature, Open
  <2>6. CASE RecvUpdate
    <3>1. main = "monitor" /\ ~Open /\ toClient' = Tail(toClient)
      BY <2>6 DEF RecvUpdate, Open
    <3>2. PICK t \in Seq(Int), e \in {EOF, Error} : toClient = Append(t, e)
      BY <3>1 DEF FirstStreamEnds
    <3>3. /\ Head(toClient) = IF t = <<>> THEN e ELSE Head(t)
          /\ Tail(toClient) = IF t = <<>> THEN <<>> ELSE Append(Tail(t), e)
      BY <3>2, HeadTailAppend
    <3>4. Head(toClient) \notin {EOF, Error}
      BY <2>6 DEF RecvUpdate
    <3>5. t # <<>>
      BY <3>3, <3>4
    <3>6. Tail(t) \in Seq(Int) /\ toClient' = Append(Tail(t), e)
      BY <3>1, <3>3, <3>5, HeadTailProperties
    <3> QED
      BY <3>6
  <2>7. CASE OpenLiveAlerts
    BY <2>7 DEF OpenLiveAlerts
  <2>8. CASE Send \/ CloseSend \/ Exit
    BY <2>8 DEF Send, CloseSend, Exit
  <2>9. CASE RecvAlert
    BY <1>1, <2>9 DEF RecvAlert, StreamsInv, StreamInv, SecondStream
  <2>10. CASE UNCHANGED vars
    BY <2>10 DEF vars, FirstStreamEnds, Open
  <2> QED
    BY <2>1, <2>2, <2>3, <2>4, <2>5, <2>6, <2>7, <2>8, <2>9, <2>10 DEF Next
<1> QED
  BY <1>2, <1>3

\* While the connection holds nobody waits for good: not main() at <-waitc,
\* not the receiving goroutine for the end of the stream, not the handler for
\* that of the client. With WorkRunsOut this is WholeClientExits but for the
\* fairness: steps are left until main() has exited, and they run out.
THEOREM WholeClientIsNeverStuck ==
    Spec => [](breaks = 0 /\ main # "exited" => CanGoOn)
<1>1. Init => FirstStreamEnds /\ FailsWhenBroken
  BY DEF Init, FirstStreamEnds, FailsWhenBroken
<1>2. /\ StreamsInv /\ FirstStreamEnds /\ FailsWhenBroken
      => (breaks = 0 /\ main # "exited" => CanGoOn)
  <2> SUFFICES ASSUME StreamsInv, FirstStreamEnds, FailsWhenBroken,
                      breaks = 0, main # "exited"
               PROVE  CanGoOn
    OBVIOUS
  <2>1. Typing /\ StreamInv /\ handler # "failed"
    BY DEF StreamsInv, FailsWhenBroken
  <2>2. CASE main = "monitor" /\ ~Open
    <3>1. PICK t \in Seq(Int), e \in {EOF, Error} : toClient = Append(t, e)
      BY <2>2 DEF FirstStreamEnds
    <3>2. Append(t, e) # <<>>
      <4>1. t \in Seq(Int \cup {EOF, Error})
        BY <3>1
      <4> QED
        BY <4>1, AppendProperties
    <3> QED
      BY <2>2, <3>1, <3>2 DEF CanGoOn
  <2>3. CASE main = "monitor" /\ Open
    BY <2>1, <2>3
       DEF CanGoOn, StreamInv, FirstStream, SecondStream, Open
  <2>4. CASE main = "wait"
    <3>1. SecondStream
      BY <2>1, <2>4 DEF StreamInv, FirstStream
    <3>2. CASE Serving
      <4>1. PICK n \in 0..sent : OnTheWay(n)
        BY <3>2 DEF Serving
      <4>2. Len(toServer) = sent - n + 1
        BY <2>4, <4>1 DEF OnTheWay, Closed
      <4>3. sent \in Nat
        BY <2>1, SensorAssumption, LenProperties DEF Typing
      <4>4. Len(toServer) # 0
        BY <4>2, <4>3
      <4>5. toServer # <<>>
        BY <4>4, EmptySeq
      <4> QED
        BY <3>2, <4>5 DEF Serving, CanGoOn
    <3>3. CASE Served
      <4>1. CASE receiver = "running"
        <5>1. PICK t \in Seq(Int) : toClient = Append(t, EOF)
          BY <3>3, <4>1 DEF Served
        <5>2. Append(t, EOF) # <<>>
          <6>1. t \in Seq(Int \cup {EOF})
            BY <5>1
          <6> QED
            BY <6>1, AppendProperties
        <5> QED
          BY <4>1, <5>1, <5>2 DEF CanGoOn
      <4>2. CASE receiver = "returned"
        BY <2>4, <3>3, <4>2 DEF Served, CanGoOn
      <4> QED
        BY <3>3, <4>1, <4>2 DEF Served
    <3> QED
      BY <2>1, <3>1, <3>2, <3>3 DEF SecondStream, Broken
  <2> QED
    BY <2>1, <2>2, <2>3, <2>4 DEF Typing, CanGoOn
<1> QED
  BY <1>1, <1>2, EndsStep, StreamsInvHolds, PTL DEF Spec
=============================================================================
