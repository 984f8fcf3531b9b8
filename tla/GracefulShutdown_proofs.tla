---------------------- MODULE GracefulShutdown_proofs ----------------------
(* Proofs about GracefulShutdown, for any set of RPCs and any times.        *)
EXTENDS GracefulShutdown, TLAPS

\* The timers of the phases add up to the time since the signal.
TimersOK ==
    /\ TimeoutGuard =>
           /\ pc = "metrics" => elapsed + timer <= MetricsTimeout
           /\ pc = "draining" => elapsed + timer <= MetricsTimeout + DrainTimeout
    /\ program = "guarded" /\ pc = "flushing" =>
           elapsed + timer <= MetricsTimeout + DrainTimeout
    /\ program = "gateway" /\ pc \in {"draining", "metrics"} =>
           elapsed + timer = HttpTimeout

\* A handler counts down from what it needs; during the wait for it, it has
\* run for at least as long as the wait.
HandlersOK ==
    \A r \in Rpc :
        Running(r) =>
            \/ need[r] = Forever /\ program # "lesson"
            \/ /\ need[r] \in Nat
               /\ left[r] \in Nat
               /\ left[r] <= need[r]
               /\ TimeoutGuard /\ pc = "draining"
                      => need[r] - left[r] >= DrainTimeout - timer
               /\ program = "gateway" /\ pc \in {"draining", "metrics"}
                      => need[r] - left[r] >= HttpTimeout - timer

\* The listener is open until the drain begins, and stopped is closed only
\* when nothing runs any more. The gateway's metrics server is shut down
\* after that or after the deadline.
DrainOK ==
    /\ pc \in {"draining", "flushing", "exited", "killed"} => ~listening
    /\ pc = "metrics" /\ program = "gateway" =>
           /\ ~listening
           /\ stopped \/ timer = 0
    /\ pc = "serving" \/ (pc = "metrics" /\ TimeoutGuard)
           => listening /\ ~stopped
    /\ pc \in {"serving", "metrics", "draining"}
           => \A r \in Rpc : status[r] # "severed"
    /\ stopped => Quiet
    /\ program = "lesson" => /\ pc \in {"serving", "draining", "exited"}
                             /\ \A r \in Rpc : status[r] # "severed"

Inv == TypeOK /\ TimersOK /\ HandlersOK /\ DrainOK /\ ZeroDropped /\ StoppedIsClean

\* The phases before the flush add up to less than the grace period.
LEMMA OnlyInFlush == Inv => KilledOnlyInFlush
  BY TimeAssumption, GraceAssumption
     DEF Inv, TypeOK, TimersOK, KilledOnlyInFlush, Overdue, Limited,
         Terminating, TimeoutGuard

\* Every step preserves the invariant.
LEMMA StepPreserves == Inv /\ [Next]_vars => Inv'
<1> SUFFICES ASSUME Inv, [Next]_vars
             PROVE  Inv'
  OBVIOUS
<1> USE TimeAssumption DEF Inv, TypeOK, TimersOK, HandlersOK, DrainOK,
        ZeroDropped, StoppedIsClean, Running, Quiet, Terminating, Limited,
        Patience, TimeoutGuard, Flush, Overdue
<1>1. ASSUME NEW r \in Rpc, Start(r)
      PROVE  Inv'
  <2>1. PICK d \in Durations : /\ need' = [need EXCEPT ![r] = d]
                               /\ left' = [left EXCEPT ![r] = d]
    BY <1>1 DEF Start
  <2>d. d \in Nat \/ (d = Forever /\ program # "lesson")
    BY DEF Durations
  <2>2. /\ listening
        /\ pc = "serving" \/ (pc = "metrics" /\ TimeoutGuard)
        /\ status' = [status EXCEPT ![r] = "running"]
        /\ UNCHANGED <<program, pc, listening, routed, stopped, timer, elapsed>>
    BY <1>1 DEF Start
  <2>3. TypeOK'
    BY <2>1, <2>2 DEF Durations
  <2>4. HandlersOK'
    BY <2>1, <2>d, <2>2
  <2>5. TimersOK'
    BY <2>2
  <2>6. DrainOK' /\ ZeroDropped' /\ StoppedIsClean'
    BY <2>1, <2>2
  <2> QED
    BY <2>3, <2>4, <2>5, <2>6
<1>2. ASSUME NEW r \in Rpc, Refuse(r) \/ Finish(r) \/ Cancel(r)
      PROVE  Inv'
  <2>1. PICK s \in {"refused", "done", "cancelled"} :
            status' = [status EXCEPT ![r] = s]
    BY <1>2 DEF Refuse, Finish, Cancel
  <2>2. UNCHANGED <<program, pc, listening, routed, need, left, stopped, timer, elapsed>>
    BY <1>2 DEF Refuse, Finish, Cancel
  <2>3. \A q \in Rpc : /\ status'[q] = "running" => status[q] = "running"
                       /\ status'[q] = "severed" => status[q] = "severed"
    BY <2>1
  <2>4. TypeOK'
    BY <2>1, <2>2, <2>3
  <2>5. TimersOK' /\ HandlersOK' /\ DrainOK' /\ ZeroDropped' /\ StoppedIsClean'
    BY <2>2, <2>3
  <2> QED
    BY <2>4, <2>5
<1>3. CASE Signal
  <2>1. /\ pc = "serving"
        /\ pc' = IF TimeoutGuard THEN "metrics" ELSE "draining"
        /\ listening' = TimeoutGuard
        /\ UNCHANGED <<program, routed, status, need, left, stopped>>
        /\ program = "service" => timer' = MetricsTimeout
        /\ program = "gateway" => timer' = HttpTimeout
        /\ program \in {"guarded", "lesson"} => timer' = 0
        /\ timer' \in Nat
        /\ elapsed' = 0
    BY <1>3 DEF Signal
  <2>t. listening' \in BOOLEAN
    BY <2>1
  <2>2. TypeOK'
    BY <2>1, <2>t
  <2>5. TimersOK'
    <3>1. CASE program = "service"
      BY <2>1, <3>1
    <3>2. CASE program = "gateway"
      BY <2>1, <3>2
    <3>3. CASE program = "lesson"
      BY <2>1, <3>3
    <3>4. CASE program = "guarded"
      BY <2>1, <3>4
    <3> QED
      BY <3>1, <3>2, <3>3, <3>4
  <2>3. HandlersOK'
    BY <2>1
  <2>4. DrainOK' /\ ZeroDropped' /\ StoppedIsClean'
    BY <2>1
  <2> QED
    BY <2>2, <2>3, <2>4, <2>5
<1>4. CASE BeginDrain
  <2>1. TypeOK' /\ TimersOK'
    <3>1. TypeOK'
      BY <1>4 DEF BeginDrain
    <3>2. TimersOK'
      BY <1>4 DEF BeginDrain
    <3> QED
      BY <3>1, <3>2
  <2>4. HandlersOK'
    <3> SUFFICES ASSUME NEW r \in Rpc, Running(r), need[r] # Forever
                 PROVE  /\ need[r] \in Nat
                        /\ left[r] \in Nat
                        /\ left[r] <= need[r]
                        /\ need[r] - left[r] >= DrainTimeout - timer'
      BY <1>4 DEF BeginDrain
    <3>1. need[r] \in Nat /\ left[r] \in Nat /\ left[r] <= need[r]
      OBVIOUS
    <3> QED
      BY <1>4, <3>1 DEF BeginDrain
  <2>2. DrainOK'
    BY <1>4 DEF BeginDrain
  <2>3. ZeroDropped' /\ StoppedIsClean'
    BY <1>4 DEF BeginDrain
  <2> QED
    BY <2>1, <2>2, <2>3, <2>4
<1>5. CASE StoppedClosed
  BY <1>5 DEF StoppedClosed
<1>6. CASE SelectStopped
  <2>1. \A r \in Rpc : status'[r] = status[r]
    BY <1>6 DEF SelectStopped, Sever
  <2>2. status' \in [Rpc -> {"new", "running", "done", "cancelled", "refused", "severed"}]
    BY <1>6 DEF SelectStopped, Sever
  <2> QED
    BY <1>6, <2>1, <2>2 DEF SelectStopped
<1>7. CASE SelectTimeout
  <2>1. \A r \in Rpc : /\ status'[r] # "running"
                       /\ status'[r] = "severed" => Running(r) \/ status[r] = "severed"
    BY <1>7 DEF SelectTimeout, Sever
  <2>2. status' \in [Rpc -> {"new", "running", "done", "cancelled", "refused", "severed"}]
    BY <1>7 DEF SelectTimeout, Sever
  <2>3. ZeroDropped'
    BY <1>7, <2>1 DEF SelectTimeout
  <2>4. StoppedIsClean'
    BY <1>7, <2>1 DEF SelectTimeout
  <2>5. TypeOK' /\ TimersOK' /\ HandlersOK' /\ DrainOK'
    BY <1>7, <2>1, <2>2 DEF SelectTimeout
  <2> QED
    BY <2>3, <2>4, <2>5
<1>8. CASE Exit
  <2>1. \A r \in Rpc : status'[r] = status[r]
    BY <1>8 DEF Exit, Sever
  <2>2. status' = status
    BY <1>8, <2>1 DEF Exit, Sever
  <2> QED
    BY <1>8, <2>2 DEF Exit
<1>9. CASE Withdraw
  BY <1>9 DEF Withdraw
<1>10. CASE Tick
  <2>1. /\ UNCHANGED <<program, pc, listening, routed, status, need, stopped>>
        /\ pc \notin {"exited", "killed"}
        /\ Limited => timer > 0
        /\ timer' = IF Limited THEN timer - 1 ELSE timer
        /\ elapsed' = IF Terminating THEN elapsed + 1 ELSE 0
    BY <1>10 DEF Tick, Alive
  <2>2. \A r \in Rpc : /\ Running(r) => left[r] # 0
                       /\ left'[r] = IF Running(r) /\ left[r] # Forever
                                     THEN left[r] - 1 ELSE left[r]
    BY <1>10 DEF Tick
  <2>3. left' \in [Rpc -> Nat \cup {Forever}]
    BY <1>10 DEF Tick
  <2>4. TypeOK'
    BY <2>1, <2>3
  <2>5. TimersOK'
    <3>1. CASE program = "service"
      BY <2>1, <3>1
    <3>2. CASE program = "gateway"
      BY <2>1, <3>2
    <3>3. CASE program = "lesson"
      BY <2>1, <3>3
    <3>4. CASE program = "guarded"
      BY <2>1, <3>4
    <3> QED
      BY <3>1, <3>2, <3>3, <3>4
  <2>6. HandlersOK'
    BY <2>1, <2>2
  <2>7. DrainOK' /\ ZeroDropped' /\ StoppedIsClean'
    BY <2>1
  <2> QED
    BY <2>4, <2>5, <2>6, <2>7
<1>11. CASE UNCHANGED vars
  BY <1>11 DEF vars
<1>12. CASE HttpShutdown
  BY <1>12 DEF HttpShutdown
<1>13. CASE CloseGateway
  <2>1. /\ program = "gateway"
        /\ pc = "metrics"
        /\ pc' = "flushing"
        /\ timer' = Flush
        /\ UNCHANGED <<program, listening, routed, need, left, stopped, elapsed>>
    BY <1>13 DEF CloseGateway
  <2>2. \A r \in Rpc : /\ status'[r] # "running"
                       /\ status'[r] = "severed" => Running(r) \/ status[r] = "severed"
    BY <1>13 DEF CloseGateway, Sever
  <2>3. status' \in [Rpc -> {"new", "running", "done", "cancelled", "refused", "severed"}]
    BY <1>13 DEF CloseGateway, Sever
  <2>4. ZeroDropped'
    <3> SUFFICES ASSUME NEW r \in Rpc, Running(r), need[r] # Forever
                 PROVE  need[r] >= HttpTimeout
      BY <2>1, <2>2
    <3>1. timer = 0
      BY <2>1
    <3> QED
      BY <2>1, <3>1
  <2>5. TypeOK' /\ TimersOK'
    BY <2>1, <2>2, <2>3
  <2>6. HandlersOK' /\ DrainOK' /\ StoppedIsClean'
    BY <2>1, <2>2
  <2> QED
    BY <2>4, <2>5, <2>6
<1>14. CASE ReturnStopped
  BY <1>14 DEF ReturnStopped
<1>15. CASE Kill
  <2>1. /\ pc = "flushing"
        /\ pc' = "killed"
        /\ listening' = FALSE
        /\ UNCHANGED <<program, routed, need, left, stopped, timer, elapsed>>
    BY <1>15, OnlyInFlush DEF Kill, KilledOnlyInFlush
  <2>2. \A r \in Rpc : status'[r] = status[r]
    BY <1>15, <2>1 DEF Kill, Sever
  <2>3. status' = status
    BY <1>15, <2>2 DEF Kill, Sever
  <2> QED
    BY <2>1, <2>3
<1> QED
  BY <1>1, <1>2, <1>3, <1>4, <1>5, <1>6, <1>7, <1>8, <1>9, <1>10, <1>11, <1>12,
     <1>13, <1>14, <1>15 DEF Next

\* The invariant holds in every reachable state.
THEOREM Invariance == Spec => []Inv
<1>1. Init => Inv
  <2> SUFFICES ASSUME Init
               PROVE  Inv
    OBVIOUS
  <2>1. TypeOK
    BY DEF Init, TypeOK
  <2>2. TimersOK /\ HandlersOK /\ DrainOK /\ ZeroDropped /\ StoppedIsClean
    BY DEF Init, TimersOK, HandlersOK, DrainOK, ZeroDropped, StoppedIsClean,
           Running, Quiet
  <2> QED
    BY <2>1, <2>2 DEF Inv
<1> QED
  BY <1>1, StepPreserves, PTL DEF Spec

\* Type correctness.
THEOREM TypeCorrect == Spec => []TypeOK
<1>1. Inv => TypeOK
  BY DEF Inv
<1> QED
  BY <1>1, Invariance, PTL

\* The end of the grace period never finds main() waiting for RPCs, whatever
\* the clients do and however long the flush may take; and it never finds
\* 26's server. The limits of the phases before add up to less.
THEOREM ExitsInTime == Spec => []KilledOnlyInFlush
  BY OnlyInFlush, Invariance, PTL

\* Only RPCs that need the whole time of the server's wait or more are cut.
THEOREM NothingShortIsDropped == Spec => []ZeroDropped
<1>1. Inv => ZeroDropped
  BY DEF Inv
<1> QED
  BY <1>1, Invariance, PTL

\* When the select can take <-stopped nothing was cut and nothing can be.
THEOREM StoppedMeansClean == Spec => []StoppedIsClean
<1>1. Inv => StoppedIsClean
  BY DEF Inv
<1> QED
  BY <1>1, Invariance, PTL
=============================================================================
