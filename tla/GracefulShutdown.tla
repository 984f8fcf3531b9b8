-------------------------- MODULE GracefulShutdown --------------------------
(***************************************************************************)
(* The termination of a server: main() from the signal on, beside          *)
(* Kubernetes, which withdraws the pod from routing on its own time and    *)
(* kills it at the end of its grace period. There are four programs:       *)
(*   guarded  26-graceful-shutdown/server: GracefulStop runs under a       *)
(*            timeout guard;                                               *)
(*   service  the order and user services of 99-production-ready-cluster:  *)
(*            the metrics server is shut down, then the same, and at the   *)
(*            end the tracer is flushed;                                   *)
(*   gateway  the API gateway: its HTTP and its metrics server are shut    *)
(*            down under one deadline, then its tracer is flushed;         *)
(*   lesson   the servers of 01-unary-rpc and 06-security: GracefulStop    *)
(*            alone. Their handlers are unary and end by themselves.       *)
(*                                                                         *)
(* Time is discrete. What the Go runtime can do at once (end a handler,    *)
(* wake a select, return from GracefulStop) it does before time passes.    *)
(***************************************************************************)
EXTENDS Integers

CONSTANTS
    Rpc,            \* RPCs that clients may send.
    Duration,       \* How long their handlers may take.
    Forever,        \* The duration of a stream that its client never ends.
    MetricsTimeout, \* The metrics server's Shutdown takes at most this long.
    DrainTimeout,   \* The timeout guard of a service's drain.
    HttpTimeout,    \* The deadline of the gateway's two Shutdown calls.
    FlushTimeout,   \* The deferred flush of the tracer has no deadline; its
                    \* exports, which have one each, add up to this much.
    Grace           \* From SIGTERM to SIGKILL (terminationGracePeriodSeconds).

ASSUME TimeAssumption ==
    /\ Duration \subseteq Nat
    /\ Forever \notin Nat
    /\ MetricsTimeout \in Nat
    /\ DrainTimeout \in Nat
    /\ HttpTimeout \in Nat
    /\ FlushTimeout \in Nat
    /\ Grace \in Nat

\* What comes before the flush is shorter than the grace period.
ASSUME GraceAssumption ==
    /\ MetricsTimeout + DrainTimeout < Grace
    /\ HttpTimeout < Grace

VARIABLES
    program,    \* Which of the programs it is.
    pc,         \* Where main() is.
    listening,  \* The server accepts connections, streams and requests.
    routed,     \* Kubernetes routes new traffic to the pod.
    status,     \* What became of each RPC.
    need,       \* How long its handler takes in all.
    left,       \* How long it still takes.
    stopped,    \* GracefulStop (of the gateway: the HTTP server's Shutdown)
                \* has seen the last RPC end.
    timer,      \* Time left of what main() waits for.
    elapsed     \* Time since the signal.

vars == <<program, pc, listening, routed, status, need, left, stopped, timer,
          elapsed>>

Running(r) == status[r] = "running"
Quiet == \A r \in Rpc : ~Running(r)
Alive == pc \notin {"exited", "killed"}
Terminating == pc \in {"metrics", "draining", "flushing"}
TimeoutGuard == program \in {"guarded", "service"}

\* 26 has no tracer.
Flush == IF program = "guarded" THEN 0 ELSE FlushTimeout

\* The end of the process, grpcServer.Stop() or conn.Close() cuts what still
\* runs.
Sever == status' = [r \in Rpc |-> IF Running(r) THEN "severed" ELSE status[r]]

-----------------------------------------------------------------------------
(* The RPCs.                                                               *)

\* What a handler may take: a unary handler of a lesson ends by itself.
Durations == IF program = "lesson" THEN Duration ELSE Duration \cup {Forever}

Start(r) ==
    /\ status[r] = "new"
    /\ listening
    /\ status' = [status EXCEPT ![r] = "running"]
    /\ \E d \in Durations : /\ need' = [need EXCEPT ![r] = d]
                            /\ left' = [left EXCEPT ![r] = d]
    /\ UNCHANGED <<program, pc, listening, routed, stopped, timer, elapsed>>

\* Traffic routed to a pod that no longer listens hits a closed port.
Refuse(r) ==
    /\ status[r] = "new"
    /\ routed
    /\ ~listening
    /\ status' = [status EXCEPT ![r] = "refused"]
    /\ UNCHANGED <<program, pc, listening, routed, need, left, stopped, timer,
                   elapsed>>

Finish(r) ==
    /\ Running(r)
    /\ left[r] = 0
    /\ status' = [status EXCEPT ![r] = "done"]
    /\ UNCHANGED <<program, pc, listening, routed, need, left, stopped, timer,
                   elapsed>>

\* The handler sees ctx.Done, or the client closes its stream.
Cancel(r) ==
    /\ Running(r)
    /\ status' = [status EXCEPT ![r] = "cancelled"]
    /\ UNCHANGED <<program, pc, listening, routed, need, left, stopped, timer,
                   elapsed>>

-----------------------------------------------------------------------------
(* main().                                                                 *)

\* The signal ends the wait of main(). A server with a timeout guard sets its
\* health status to NOT_SERVING and shuts its metrics server down (26 has none
\* to wait for); the gateway shuts its HTTP server down, and a lesson's
\* GracefulStop begins: these close the listener first.
Signal ==
    /\ pc = "serving"
    /\ pc' = IF TimeoutGuard THEN "metrics" ELSE "draining"
    /\ listening' = TimeoutGuard
    /\ timer' = CASE program = "service" -> MetricsTimeout
                  [] program = "gateway" -> HttpTimeout
                  [] OTHER -> 0
    /\ elapsed' = 0
    /\ UNCHANGED <<program, routed, status, need, left, stopped>>

\* Mutant of BeginDrain: the guard goes on with the timer of the metrics.
BeginDrainLate ==
    /\ TimeoutGuard
    /\ pc = "metrics"
    /\ pc' = "draining"
    /\ listening' = FALSE
    /\ UNCHANGED <<program, routed, status, need, left, stopped, timer,
                   elapsed>>

\* Mutant of BeginDrain: a guard as long as the grace period.
BeginLongDrain ==
    /\ TimeoutGuard
    /\ pc = "metrics"
    /\ pc' = "draining"
    /\ listening' = FALSE
    /\ timer' = Grace
    /\ UNCHANGED <<program, routed, status, need, left, stopped, elapsed>>

\* The metrics server is down, or its timeout is over: GracefulStop starts,
\* which closes the listener, and with it the timeout guard.
BeginDrain ==
    /\ TimeoutGuard
    /\ pc = "metrics"
    /\ pc' = "draining"
    /\ listening' = FALSE
    /\ timer' = DrainTimeout
    /\ UNCHANGED <<program, routed, status, need, left, stopped, elapsed>>

\* Mutant of StoppedClosed: close(stopped) does not wait for GracefulStop.
StoppedClosedEarly ==
    /\ pc = "draining"
    /\ ~stopped
    /\ stopped' = TRUE
    /\ UNCHANGED <<program, pc, listening, routed, status, need, left, timer,
                   elapsed>>

\* GracefulStop returns when the last RPC has ended, or was cut by Stop;
\* close(stopped). The HTTP server's Shutdown waits in the same way.
StoppedClosed ==
    /\ pc \in {"draining", "flushing"}
    /\ ~stopped
    /\ Quiet
    /\ stopped' = TRUE
    /\ UNCHANGED <<program, pc, listening, routed, status, need, left, timer,
                   elapsed>>

SelectStopped ==
    /\ TimeoutGuard
    /\ pc = "draining"
    /\ stopped
    /\ pc' = "flushing"
    /\ timer' = Flush
    /\ UNCHANGED <<program, listening, routed, status, need, left, stopped,
                   elapsed>>

\* Mutant of SelectTimeout: the timeout case waits for the drain as well.
SelectTimeoutStopped ==
    /\ TimeoutGuard
    /\ pc = "draining"
    /\ stopped
    /\ timer = 0
    /\ pc' = "flushing"
    /\ timer' = Flush
    /\ UNCHANGED <<program, listening, routed, status, need, left, stopped,
                   elapsed>>

\* Mutant of SelectTimeout: grpcServer.Stop() is forgotten.
SelectTimeoutWithoutStop ==
    /\ TimeoutGuard
    /\ pc = "draining"
    /\ timer = 0
    /\ pc' = "flushing"
    /\ timer' = Flush
    /\ UNCHANGED <<program, listening, routed, status, need, left, stopped,
                   elapsed>>

\* time.After fires: grpcServer.Stop(). Either case of the select may be
\* taken when both are ready.
SelectTimeout ==
    /\ TimeoutGuard
    /\ pc = "draining"
    /\ timer = 0
    /\ pc' = "flushing"
    /\ timer' = Flush
    /\ Sever
    /\ UNCHANGED <<program, listening, routed, need, left, stopped, elapsed>>

\* The gateway's HTTP server is down or the deadline is over. The metrics
\* server is shut down under what is left of the same deadline.
HttpShutdown ==
    /\ program = "gateway"
    /\ pc = "draining"
    /\ stopped \/ timer = 0
    /\ pc' = "metrics"
    /\ UNCHANGED <<program, listening, routed, status, need, left, stopped,
                   timer, elapsed>>

\* m.Close, and GracefulStop of a gRPC server without services, which has no
\* RPC to wait for. Of the deferred calls conn.Close comes first: it ends the
\* calls to the order service that HTTP requests still wait for.
CloseGateway ==
    /\ program = "gateway"
    /\ pc = "metrics"
    /\ pc' = "flushing"
    /\ timer' = Flush
    /\ Sever
    /\ UNCHANGED <<program, listening, routed, need, left, stopped, elapsed>>

\* A lesson's main() returns after GracefulStop, and has no deferred calls.
ReturnStopped ==
    /\ program = "lesson"
    /\ pc = "draining"
    /\ stopped
    /\ pc' = "exited"
    /\ UNCHANGED <<program, listening, routed, status, need, left, stopped,
                   timer, elapsed>>

\* The deferred calls are done and main() returns, which ends the process.
Exit ==
    /\ pc = "flushing"
    /\ pc' = "exited"
    /\ Sever
    /\ UNCHANGED <<program, listening, routed, need, left, stopped, timer,
                   elapsed>>

-----------------------------------------------------------------------------
(* Kubernetes and time.                                                    *)

\* What main() waits for has a time limit.
Limited == Terminating /\ program # "lesson"

Overdue == Limited /\ elapsed >= Grace

\* SIGKILL. (The lessons do not run in Kubernetes.)
Kill ==
    /\ Overdue
    /\ pc' = "killed"
    /\ listening' = FALSE
    /\ Sever
    /\ UNCHANGED <<program, routed, need, left, stopped, timer, elapsed>>

\* The pod leaves the Endpoints some time after its termination began: the
\* readiness probe or the endpoints controller saw it.
Withdraw ==
    /\ Terminating
    /\ routed
    /\ routed' = FALSE
    /\ UNCHANGED <<program, pc, listening, status, need, left, stopped, timer,
                   elapsed>>

\* A unit of time passes unless something is due.
Tick ==
    /\ Alive
    /\ \A r \in Rpc : Running(r) => left[r] # 0
    /\ Limited => timer > 0
    /\ ~Overdue
    /\ pc = "draining" => ~stopped /\ ~Quiet
    /\ left' = [r \in Rpc |-> IF Running(r) /\ left[r] # Forever
                              THEN left[r] - 1 ELSE left[r]]
    /\ timer' = IF Limited THEN timer - 1 ELSE timer
    /\ elapsed' = IF Terminating THEN elapsed + 1 ELSE 0
    /\ UNCHANGED <<program, pc, listening, routed, status, need, stopped>>

-----------------------------------------------------------------------------
Init ==
    /\ program \in {"guarded", "service", "gateway", "lesson"}
    /\ pc = "serving"
    /\ listening = TRUE
    /\ routed = TRUE
    /\ status = [r \in Rpc |-> "new"]
    /\ need = [r \in Rpc |-> 0]
    /\ left = [r \in Rpc |-> 0]
    /\ stopped = FALSE
    /\ timer = 0
    /\ elapsed = 0

Next ==
    \/ \E r \in Rpc : Start(r)
    \/ \E r \in Rpc : Refuse(r)
    \/ \E r \in Rpc : Finish(r)
    \/ \E r \in Rpc : Cancel(r)
    \/ Signal
    \/ BeginDrain
    \/ StoppedClosed
    \/ SelectStopped
    \/ SelectTimeout
    \/ HttpShutdown
    \/ CloseGateway
    \/ ReturnStopped
    \/ Exit
    \/ Kill
    \/ Withdraw
    \/ Tick

Spec == Init /\ [][Next]_vars

\* The runtime runs what can run, and time passes.
FairSpec ==
    /\ Spec
    /\ \A r \in Rpc : WF_vars(Finish(r))
    /\ WF_vars(BeginDrain)
    /\ WF_vars(StoppedClosed)
    /\ WF_vars(SelectStopped)
    /\ WF_vars(SelectTimeout)
    /\ WF_vars(HttpShutdown)
    /\ WF_vars(CloseGateway)
    /\ WF_vars(ReturnStopped)
    /\ WF_vars(Exit)
    /\ WF_vars(Kill)
    /\ WF_vars(Tick)

-----------------------------------------------------------------------------
(* Properties.                                                             *)

\* Type invariant. After main()'s last wait nothing runs.
TypeOK ==
    /\ program \in {"guarded", "service", "gateway", "lesson"}
    /\ pc \in {"serving", "metrics", "draining", "flushing", "exited",
             "killed"}
    /\ listening \in BOOLEAN
    /\ routed \in BOOLEAN
    /\ status \in [Rpc -> {"new", "running", "done", "cancelled", "refused",
                           "severed"}]
    /\ need \in [Rpc -> Duration \cup {0, Forever}]
    /\ left \in [Rpc -> Nat \cup {Forever}]
    /\ stopped \in BOOLEAN
    /\ timer \in Nat
    /\ elapsed \in Nat
    /\ pc \in {"flushing", "exited", "killed"} => Quiet

\* The timeout guard's purpose in the README of 26 ("to guarantee the server
\* exits before Kubernetes triggers SIGKILL"): whatever streams hang and
\* however long the metrics server takes, the end of the grace period never
\* finds 26's server, nor any program while it still waits for RPCs. The flush
\* of 99's programs can outlast it. (The lessons have no guard.)
KilledOnlyInFlush == Overdue => pc = "flushing" /\ program # "guarded"

\* How long an RPC may take for its server to wait for it without fail.
Patience == IF program = "gateway" THEN HttpTimeout ELSE DrainTimeout

\* "ZERO dropped requests": an RPC that reached the server is cut only if its
\* handler takes at least as long as the server waits. One that arrived just
\* before the listener closed has its full time; a lesson cuts none.
ZeroDropped ==
    \A r \in Rpc :
        status[r] = "severed" =>
            /\ program # "lesson"
            /\ need[r] = Forever \/ need[r] >= Patience

\* What the log says on <-stopped, "All active RPCs completed cleanly": when
\* the select can take that case no RPC was cut and none can still be. (Stop
\* makes GracefulStop return as well, but the select is over then.) The
\* gateway's log says "stopped cleanly" in either case.
StoppedIsClean ==
    pc = "draining" /\ stopped =>
        \A r \in Rpc : status[r] \notin {"running", "severed"}

\* In spite of hanging streams a signal brings main() to its deferred calls
\* or past them, by itself; and the process ends.
Terminates ==
    /\ Terminating ~> (pc \in {"flushing", "exited"})
    /\ Terminating ~> ~Alive
=============================================================================
