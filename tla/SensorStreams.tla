---------------------------- MODULE SensorStreams ----------------------------
(***************************************************************************)
(* 02-streaming-rpc: the client's two streams against the server's         *)
(* handlers. MonitorTemperature is a server stream; LiveAlerts a           *)
(* bidirectional one, whose client sends from main() and receives in a     *)
(* goroutine of its own that reports its end by closing waitc.             *)
(***************************************************************************)
EXTENDS Integers, Sequences, SequencesExt, Services

CONSTANTS
    Updates,    \* How many temperatures MonitorTemperature sends.
    Readings,   \* The readings main() sends, in tenths of a degree.
    MaxBreaks,  \* Bound: how many times the connection breaks.
    EOF, Error  \* A stream's end as Recv reports it: io.EOF or an error.

ASSUME SensorAssumption ==
    /\ Updates \in Nat
    /\ Readings \in Seq(Int)
    /\ MaxBreaks \in Nat
    /\ EOF \notin Int
    /\ Error \notin Int
    /\ EOF # Error

VARIABLES
    main,       \* Where the client's main() is.
    sent,       \* How many readings it has tried to send.
    receiver,   \* The goroutine that receives alerts.
    waitc,      \* waitc is closed.
    received,   \* What the client received on the current stream.
    handler,    \* The server's handler of the current stream, "failed" once
                \* the stream broke.
    produced,   \* How many updates MonitorTemperature has sent.
    toServer,   \* Messages on their way to the server.
    toClient,   \* Messages on their way to the client.
    breaks      \* How many times the connection broke.

vars == <<main, sent, receiver, waitc, received, handler, produced,
          toServer, toClient, breaks>>

Hot(reading) == reading > 300

\* What the client's current stream asks for.
Asked == IF main = "monitor" THEN MonitorTemperatureV1 ELSE LiveAlertsV1

\* The stream has not ended on the server's side.
Open == handler \in {"accepting", "MonitorTemperature", "LiveAlerts"}

-----------------------------------------------------------------------------
(* The server.                                                             *)

\* The server finds the method of a stream and starts its handler, that of
\* MonitorTemperature when it has the request.
Accept ==
    /\ handler = "accepting"
    /\ Handles({SensorService}, Asked)
    /\ handler' = Asked[2]
    /\ UNCHANGED <<main, sent, receiver, waitc, received, produced, toServer,
                   toClient, breaks>>

\* Mutant of MonitorTemperature: one update too many.
MonitorTemperatureOnceMore ==
    /\ handler = "MonitorTemperature"
    /\ \/ /\ produced <= Updates
          /\ produced' = produced + 1
          /\ toClient' = Append(toClient, produced)
          /\ UNCHANGED handler
       \/ /\ produced > Updates
          /\ handler' = "returned"
          /\ toClient' = Append(toClient, EOF)
          /\ UNCHANGED produced
    /\ UNCHANGED <<main, sent, receiver, waitc, received, toServer, breaks>>

\* MonitorTemperature sends an update a second and returns nil.
MonitorTemperature ==
    /\ handler = "MonitorTemperature"
    /\ \/ /\ produced < Updates
          /\ produced' = produced + 1
          /\ toClient' = Append(toClient, produced)
          /\ UNCHANGED handler
       \/ /\ produced = Updates
          /\ handler' = "returned"
          /\ toClient' = Append(toClient, EOF)
          /\ UNCHANGED produced
    /\ UNCHANGED <<main, sent, receiver, waitc, received, toServer, breaks>>

\* Mutant of LiveAlerts: an alert from 30.0 on.
LiveAlertsFromThirty ==
    /\ handler = "LiveAlerts"
    /\ toServer # <<>>
    /\ toServer' = Tail(toServer)
    /\ \/ /\ Head(toServer) = EOF
          /\ handler' = "returned"
          /\ toClient' = Append(toClient, EOF)
       \/ /\ Head(toServer) # EOF
          /\ toClient' = IF Head(toServer) >= 300
                         THEN Append(toClient, Head(toServer)) ELSE toClient
          /\ UNCHANGED handler
    /\ UNCHANGED <<main, sent, receiver, waitc, received, produced, breaks>>

\* LiveAlerts receives one message: io.EOF ends the handler with nil, a hot
\* reading is answered with an alert.
LiveAlerts ==
    /\ handler = "LiveAlerts"
    /\ toServer # <<>>
    /\ toServer' = Tail(toServer)
    /\ \/ /\ Head(toServer) = EOF
          /\ handler' = "returned"
          /\ toClient' = Append(toClient, EOF)
       \/ /\ Head(toServer) # EOF
          /\ toClient' = IF Hot(Head(toServer))
                         THEN Append(toClient, Head(toServer)) ELSE toClient
          /\ UNCHANGED handler
    /\ UNCHANGED <<main, sent, receiver, waitc, received, produced, breaks>>

\* The connection breaks: both sides' stream calls fail from now on, what is
\* under way is lost, and so is the end of the stream of a handler that has
\* returned already.
Break ==
    /\ Open \/ (handler = "returned" /\ toClient # <<>>)
    /\ breaks < MaxBreaks
    /\ breaks' = breaks + 1
    /\ handler' = "failed"
    /\ toServer' = <<>>
    /\ toClient' = <<Error>>
    /\ UNCHANGED <<main, sent, receiver, waitc, received, produced>>

-----------------------------------------------------------------------------
(* The client.                                                             *)

\* client.MonitorTemperature opens the first stream, sends the request and
\* closes its side; main() goes on without updates if it fails.
OpenMonitorTemperature ==
    /\ main = "start"
    /\ \/ /\ main' = "monitor"
          /\ handler' = "accepting"
          /\ UNCHANGED breaks
       \/ /\ breaks < MaxBreaks
          /\ breaks' = breaks + 1
          /\ main' = "between"
          /\ UNCHANGED handler
    /\ UNCHANGED <<sent, receiver, waitc, received, produced, toServer, toClient>>

\* The loop over streamServer.Recv() ends with the stream, however it ends.
RecvUpdate ==
    /\ main = "monitor"
    /\ toClient # <<>>
    /\ toClient' = Tail(toClient)
    /\ \/ /\ Head(toClient) \in {EOF, Error}
          /\ main' = "between"
          /\ UNCHANGED received
       \/ /\ Head(toClient) \notin {EOF, Error}
          /\ received' = Append(received, Head(toClient))
          /\ UNCHANGED main
    /\ UNCHANGED <<sent, receiver, waitc, handler, produced, toServer, breaks>>

\* client.LiveAlerts opens the second stream, or fails and main() returns.
OpenLiveAlerts ==
    /\ main = "between"
    /\ \/ /\ main' = "send"
          /\ receiver' = "running"
          /\ handler' = "accepting"
          /\ received' = <<>>
          /\ UNCHANGED breaks
       \/ /\ breaks < MaxBreaks
          /\ breaks' = breaks + 1
          /\ main' = "exited"
          /\ UNCHANGED <<receiver, handler, received>>
    /\ toServer' = <<>>
    /\ toClient' = <<>>
    /\ UNCHANGED <<sent, waitc, produced>>

\* A failed Send is logged and the loop goes on.
Send ==
    /\ main = "send"
    /\ sent < Len(Readings)
    /\ sent' = sent + 1
    /\ toServer' = IF Open
                   THEN Append(toServer, Readings[sent + 1]) ELSE toServer
    /\ UNCHANGED <<main, receiver, waitc, received, handler, produced,
                   toClient, breaks>>

\* Mutant of CloseSend: the call is forgotten.
WaitWithoutCloseSend ==
    /\ main = "send"
    /\ sent = Len(Readings)
    /\ main' = "wait"
    /\ UNCHANGED <<sent, receiver, waitc, received, handler, produced,
                   toServer, toClient, breaks>>

CloseSend ==
    /\ main = "send"
    /\ sent = Len(Readings)
    /\ main' = "wait"
    /\ toServer' = IF Open THEN Append(toServer, EOF) ELSE toServer
    /\ UNCHANGED <<sent, receiver, waitc, received, handler, produced,
                   toClient, breaks>>

\* Mutant of RecvAlert: waitc is closed before the loop's end.
RecvAlertClosing ==
    /\ receiver = "running"
    /\ toClient # <<>>
    /\ toClient' = Tail(toClient)
    /\ \/ /\ Head(toClient) \in {EOF, Error}
          /\ waitc' = TRUE
          /\ receiver' = "returned"
          /\ UNCHANGED received
       \/ /\ Head(toClient) \notin {EOF, Error}
          /\ received' = Append(received, Head(toClient))
          /\ waitc' = TRUE
          /\ UNCHANGED receiver
    /\ UNCHANGED <<main, sent, handler, produced, toServer, breaks>>

\* The receiving goroutine: io.EOF closes waitc, an error does not.
RecvAlert ==
    /\ receiver = "running"
    /\ toClient # <<>>
    /\ toClient' = Tail(toClient)
    /\ \/ /\ Head(toClient) = EOF
          /\ waitc' = TRUE
          /\ receiver' = "returned"
          /\ UNCHANGED received
       \/ /\ Head(toClient) = Error
          /\ receiver' = "returned"
          /\ UNCHANGED <<waitc, received>>
       \/ /\ Head(toClient) \notin {EOF, Error}
          /\ received' = Append(received, Head(toClient))
          /\ UNCHANGED <<waitc, receiver>>
    /\ UNCHANGED <<main, sent, handler, produced, toServer, breaks>>

\* <-waitc
Exit ==
    /\ main = "wait"
    /\ waitc
    /\ main' = "exited"
    /\ UNCHANGED <<sent, receiver, waitc, received, handler, produced,
                   toServer, toClient, breaks>>

-----------------------------------------------------------------------------
Init ==
    /\ main = "start"
    /\ sent = 0
    /\ receiver = "none"
    /\ waitc = FALSE
    /\ received = <<>>
    /\ handler = "none"
    /\ produced = 0
    /\ toServer = <<>>
    /\ toClient = <<>>
    /\ breaks = 0

Next ==
    \/ Accept
    \/ MonitorTemperature
    \/ LiveAlerts
    \/ Break
    \/ OpenMonitorTemperature
    \/ RecvUpdate
    \/ OpenLiveAlerts
    \/ Send
    \/ CloseSend
    \/ RecvAlert
    \/ Exit

Spec == Init /\ [][Next]_vars

\* Both processes run; the connection need not break.
FairSpec ==
    /\ Spec
    /\ WF_vars(Accept)
    /\ WF_vars(MonitorTemperature)
    /\ WF_vars(LiveAlerts)
    /\ WF_vars(OpenMonitorTemperature)
    /\ WF_vars(RecvUpdate)
    /\ WF_vars(OpenLiveAlerts)
    /\ WF_vars(Send)
    /\ WF_vars(CloseSend)
    /\ WF_vars(RecvAlert)
    /\ WF_vars(Exit)

-----------------------------------------------------------------------------
(* Properties.                                                             *)

\* Type invariant. The server never holds more than the client has sent.
TypeOK ==
    /\ main \in {"start", "monitor", "between", "send", "wait", "exited"}
    /\ sent \in 0..Len(Readings)
    /\ receiver \in {"none", "running", "returned"}
    /\ waitc \in BOOLEAN
    /\ received \in Seq(Int)
    /\ handler \in {"none", "accepting", "MonitorTemperature", "LiveAlerts",
                   "returned", "failed"}
    /\ produced \in 0..Updates
    /\ toServer \in Seq(Int \cup {EOF})
    /\ Len(toServer) <= Len(Readings) + 1
    /\ toClient \in Seq(Int \cup {EOF, Error})
    /\ breaks \in 0..MaxBreaks

\* Which of the first n readings are hot.
HotAmong(n) == { i \in 1..n : Hot(Readings[i]) }

\* The alerts list those readings in the order they were sent: there is an
\* increasing function from their places to the readings' that misses none.
Lists(alerts, n) ==
    \E at \in [1..Len(alerts) -> HotAmong(n)] :
        /\ \A j, k \in 1..Len(alerts) : j < k => at[j] < at[k]
        /\ \A i \in HotAmong(n) : \E k \in 1..Len(alerts) : at[k] = i
        /\ \A k \in 1..Len(alerts) : alerts[k] = Readings[at[k]]

\* Every alert is for a hot reading that was sent, in the order sent, and
\* none is skipped or doubled, at every moment of the two directions' race.
AlertsInOrder ==
    receiver # "none" => \E n \in 0..sent : Lists(received, n)

\* When main() passes <-waitc it has the alert of every hot reading: waitc
\* is not closed while one is still on its way.
ExitsWithAllAlerts ==
    main = "exited" /\ receiver # "none" => Lists(received, Len(Readings))

\* While the connection holds, the client ends: neither the server's end of
\* the stream nor the last alerts can be missed by the receiving goroutine.
WholeClientExits == [](breaks = 0) => <>(main = "exited")

\* The comment at <-waitc: "Wait for the receiving Goroutine to finish before
\* exiting the program". If the stream breaks the goroutine finishes, but
\* does not close waitc.
ClientExits == <>(main = "exited")
=============================================================================
