--------------------------- MODULE SitterWorkerProofs ---------------------------
(***************************************************************************)
(* Proofs about SitterWorker, for every MaxTicks.                          *)
(*                                                                         *)
(* The safety properties are not inductive one by one.  What makes them    *)
(* so is where the two threads can be relative to each other: which steps  *)
(* of server::stop() imply that the thread's flag is up, that wakeup() has *)
(* been called, and that the thread is over.                               *)
(***************************************************************************)
EXTENDS SitterWorker, TLAPS

\* wakeup() has been called: f_ticks no longer counts ticks.
Woken == stopping /\ mpc # "wakeup"

\* Where server::stop() is tells what the worker can still do.
StopOrder ==
    /\ mpc \in {"wakeup", "join"} => stopping
    /\ mpc = "stop_thread" => ~stopping
    /\ stopping /\ mpc \notin {"wakeup", "join"} => wpc = "ended"
    /\ mpc \in {"remove", "exited"} => wpc = "ended"
    /\ ~hasWorker => wpc = "ended"
    /\ connections = {} => wpc = "ended"

\* The pointers are only reset on the way to removing every connection.
WorkerKept == hasWorker \/ mpc = "remove" \/ connections = {}

\* Ticks, served ticks and runs, before and after wakeup() spoils f_ticks.
TickCount ==
    /\ ~Woken => fired = served + fTicks
    /\ served <= fired
    /\ runs <= served
    /\ wpc = "got" => runs < served /\ serverTicks > 0
    /\ wpc = "none" => stopping

\* The worker does not wait past a tick or past wakeup().
Waiting ==
    /\ wpc = "waiting" => fTicks = 0
    /\ Woken => wpc \notin {"take", "waiting"}

IInv == TypeOK /\ StopOrder /\ WorkerKept /\ TickCount /\ Waiting

-----------------------------------------------------------------------------
\* The invariant holds before the first step.
LEMMA InitInvariant == Init => IInv
<1> SUFFICES ASSUME Init PROVE IInv
  OBVIOUS
<1>1. connections # {}
  BY DEF Init, Connections
<1>2. TypeOK
  BY DEF Init, TypeOK, MainPCs, WorkerPCs
<1>3. QED
  BY <1>1, <1>2 DEF Init, IInv, StopOrder, WorkerKept, TickCount, Waiting, Woken

\* Every step of either thread preserves the invariant.
LEMMA StepKeepsInvariant == IInv /\ [Next]_vars => IInv'
<1> SUFFICES ASSUME IInv, [Next]_vars PROVE IInv'
  OBVIOUS
<1> USE DEF IInv, TypeOK, StopOrder, WorkerKept, TickCount, Waiting, Woken,
            mainVars, vars, MainPCs, WorkerPCs, Connections
<1>1. CASE FluidReady
  BY <1>1 DEF FluidReady, Dispatch
<1>2. CASE ProcessTimeout
  BY <1>2 DEF ProcessTimeout, Dispatch, Signalled, WorkerHoldsMutex
<1>3. CASE ProcessStop
  BY <1>3 DEF ProcessStop, BeginStop, Dispatch, IsRunning
<1>4. CASE ProcessWorkerDone
  BY <1>4 DEF ProcessWorkerDone, BeginStop, Dispatch, IsRunning
<1>5. CASE StopThread
  BY <1>5 DEF StopThread
<1>6. CASE Wakeup
  BY <1>6 DEF Wakeup, Signalled, WorkerHoldsMutex
<1>7. CASE Join
  BY <1>7 DEF Join, IsRunning
<1>8. CASE RemoveConnections
  BY <1>8 DEF RemoveConnections
<1>9. CASE LoopEnds
  BY <1>9 DEF LoopEnds
<1>10. CASE LoadPlugins
  <2>1. CASE Goto("enter", "top")
    BY <2>1 DEF Goto
  <2>2. CASE Goto("enter", "leave")
    BY <2>2 DEF Goto
  <2>3. QED
    BY <1>10, <2>1, <2>2 DEF LoadPlugins
<1>11. CASE TestLoop
  BY <1>11 DEF TestLoop, Goto, ContinueRunning
<1>12. CASE LockMutex
  <2>1. CASE Goto("acquire", "test")
    BY <2>1 DEF Goto
  <2>2. CASE Goto("woken", "test")
    BY <2>2 DEF Goto
  <2>3. QED
    BY <1>12, <2>1, <2>2 DEF LockMutex
<1>13. CASE TestWait
  BY <1>13 DEF TestWait, Goto, ContinueRunning
<1>14. CASE TakeTicks
  BY <1>14 DEF TakeTicks
<1>15. CASE WaitForTick
  BY <1>15 DEF WaitForTick, Goto
<1>16. CASE StartRun
  BY <1>16 DEF StartRun, ContinueRunning
<1>17. CASE SkipRun
  <2>1. CASE stopping /\ Goto("got", "leave")
    BY <2>1 DEF Goto
  <2>2. CASE stopping /\ Goto("none", "leave")
    BY <2>2 DEF Goto
  <2>3. QED
    BY <1>17, <2>1, <2>2 DEF SkipRun, ContinueRunning
<1>18. CASE EndRun
  BY <1>18 DEF EndRun, Goto
<1>19. CASE PluginThrows
  BY <1>19 DEF PluginThrows, Goto
<1>20. CASE Leave
  BY <1>20 DEF Leave
<1>21. CASE ThreadEnds
  BY <1>21 DEF ThreadEnds, Goto
<1>22. CASE SpuriousWakeup
  BY <1>22 DEF SpuriousWakeup, Goto
<1>23. CASE UNCHANGED vars
  BY <1>23
<1>24. QED
  BY <1>1, <1>2, <1>3, <1>4, <1>5, <1>6, <1>7, <1>8, <1>9, <1>10, <1>11, <1>12, <1>13, <1>14, <1>15, <1>16, <1>17, <1>18, <1>19, <1>20, <1>21, <1>22, <1>23
     DEF Next, StopStep, WorkerStep, Terminated

\* The invariant of the two threads, for any number of ticks.
THEOREM InvariantHolds == Spec => []IInv
  BY InitInvariant, StepKeepsInvariant, PTL DEF Spec

-----------------------------------------------------------------------------
(* What follows from it *)

\* Every variable has its type in every reachable state.
THEOREM TypeCorrect == Spec => []TypeOK
<1>1. IInv => TypeOK
  BY DEF IInv
<1>2. QED
  BY <1>1, InvariantHolds, PTL

\* sitter_worker::tick() and wait_next_tick() lose no tick and count none twice.
THEOREM TicksConserved == Spec => []TickConservation
<1>1. IInv => TickConservation
  BY DEF IInv, TickCount, Woken, TickConservation
<1>2. QED
  BY <1>1, InvariantHolds, PTL

\* Runs never outnumber the ticks that fired, shutdown included.
THEOREM RunsNeedTicks == Spec => []NoRunWithoutTick
<1>1. IInv => NoRunWithoutTick
  BY DEF IInv, TickCount, NoRunWithoutTick
<1>2. QED
  BY <1>1, InvariantHolds, PTL

\* A tick or a stop never finds the worker asleep for good.
THEOREM WakeupsNotLost == Spec => []NoLostWakeup
<1>1. IInv => NoLostWakeup
  BY DEF IInv, StopOrder, Waiting, Woken, NoLostWakeup
<1>2. QED
  BY <1>1, InvariantHolds, PTL

\* The timer's callback never meets a null f_worker.
THEOREM TimerNeverOrphaned == Spec => []TimerHasWorker
<1>1. IInv => TimerHasWorker
  <2> SUFFICES ASSUME IInv, mpc = "loop", "tick_timer" \in connections
               PROVE  hasWorker
    BY DEF TimerHasWorker, Dispatch
  <2>1. connections # {}
    OBVIOUS
  <2>2. QED
    BY <2>1 DEF IInv, WorkerKept
<1>2. QED
  BY <1>1, InvariantHolds, PTL

\* The worker object and the daemon are not torn down under a live thread.
THEOREM ThreadOutlived == Spec => []WorkerOutlived
<1>1. IInv => WorkerOutlived
  BY DEF IInv, StopOrder, WorkerOutlived
<1>2. QED
  BY <1>1, InvariantHolds, PTL

\* No gathering starts once the thread was told to stop.
THEOREM NoLateRun == Spec => NoNewRunOnceStopping
<1>1. IInv /\ [Next]_vars => [stopping /\ wpc # "run" => wpc' # "run"]_vars
  <2> SUFFICES ASSUME IInv, Next, stopping, wpc # "run", wpc' = "run"
               PROVE  FALSE
    OBVIOUS
  <2> USE DEF IInv, TypeOK, WorkerPCs, mainVars, vars, Goto
  <2>1. CASE WorkerStep
    <3>1. ~LoadPlugins /\ ~LockMutex
      BY DEF LoadPlugins, LockMutex
    <3>2. ~TestLoop /\ ~TestWait /\ ~StartRun /\ ~SkipRun
      BY DEF TestLoop, TestWait, StartRun, SkipRun, ContinueRunning
    <3>3. ~TakeTicks /\ ~WaitForTick /\ ~Leave /\ ~ThreadEnds
      BY DEF TakeTicks, WaitForTick, Leave, ThreadEnds
    <3>4. ~EndRun /\ ~PluginThrows
      BY DEF EndRun, PluginThrows
    <3>5. QED
      BY <2>1, <3>1, <3>2, <3>3, <3>4 DEF WorkerStep
  <2>2. CASE StopStep
    BY <2>2 DEF StopStep, ProcessWorkerDone, BeginStop, StopThread, Wakeup,
                Signalled, Join, RemoveConnections, LoopEnds
  <2>3. CASE FluidReady \/ ProcessTimeout \/ ProcessStop
    BY <2>3 DEF FluidReady, ProcessTimeout, ProcessStop, BeginStop, Signalled
  <2>4. CASE SpuriousWakeup \/ Terminated
    BY <2>4 DEF SpuriousWakeup, Terminated
  <2>5. QED
    BY <2>1, <2>2, <2>3, <2>4 DEF Next
<1>2. QED
  BY <1>1, InvariantHolds, PTL DEF Spec, NoNewRunOnceStopping

-----------------------------------------------------------------------------
(* The daemon implements TickService *)

\* Before the first step the service is up with nothing pending.
LEMMA InitMaps == Init => TS!Init
  BY DEF Init, TS!Init, Closing, InHand

\* The main thread's steps tick, close or halt the service, or stutter.
LEMMA MainStepMaps ==
  ASSUME IInv, FluidReady \/ ProcessTimeout \/ ProcessStop \/ StopStep
  PROVE  [TS!Next]_(TS!vars)
<1> USE DEF IInv, TypeOK, StopOrder, MainPCs, mainVars, Closing, InHand
<1>1. CASE FluidReady
  BY <1>1 DEF FluidReady, Dispatch, TS!vars
<1>2. CASE ProcessTimeout
  <2>1. CASE Closing
    BY <1>2, <2>1 DEF ProcessTimeout, Dispatch, Signalled, TS!vars
  <2>2. CASE ~Closing
    BY <1>2, <2>2 DEF ProcessTimeout, Dispatch, Signalled, TS!Next, TS!Tick
  <2>3. QED
    BY <2>1, <2>2
<1>3. CASE ProcessStop
  BY <1>3 DEF ProcessStop, BeginStop, Dispatch, TS!vars
<1>4. CASE ProcessWorkerDone
  BY <1>4 DEF ProcessWorkerDone, BeginStop, Dispatch, TS!vars
<1>5. CASE StopThread
  <2>1. CASE Closing
    BY <1>5, <2>1 DEF StopThread, TS!vars
  <2>2. CASE ~Closing
    BY <1>5, <2>2 DEF StopThread, TS!Next, TS!Close
  <2>3. QED
    BY <2>1, <2>2
<1>6. CASE Wakeup
  BY <1>6 DEF Wakeup, Signalled, TS!vars
<1>7. CASE Join
  BY <1>7 DEF Join, TS!vars
<1>8. CASE RemoveConnections
  BY <1>8 DEF RemoveConnections, TS!vars
<1>9. CASE LoopEnds
  BY <1>9 DEF LoopEnds, TS!Next, TS!Halt
<1>10. QED
  BY <1>1, <1>2, <1>3, <1>4, <1>5, <1>6, <1>7, <1>8, <1>9 DEF StopStep

\* The worker's steps begin, end or cut short a run, or stutter.
LEMMA WorkerStepMaps ==
  ASSUME IInv, WorkerStep \/ SpuriousWakeup
  PROVE  [TS!Next]_(TS!vars)
<1> USE DEF IInv, TypeOK, StopOrder, TickCount, MainPCs, WorkerPCs, mainVars,
            Closing, InHand, Goto, ContinueRunning
<1>1. CASE LoadPlugins
  <2>1. CASE stopping \/ Goto("enter", "top")
    BY <1>1, <2>1 DEF LoadPlugins, TS!vars
  <2>2. CASE ~stopping /\ Goto("enter", "leave")
    BY <2>2 DEF TS!Next, TS!Close
  <2>3. QED
    BY <1>1, <2>1, <2>2 DEF LoadPlugins
<1>2. CASE TestLoop
  BY <1>2 DEF TestLoop, TS!vars
<1>3. CASE LockMutex
  BY <1>3 DEF LockMutex, TS!vars
<1>4. CASE TestWait
  BY <1>4 DEF TestWait, TS!vars
<1>5. CASE TakeTicks
  BY <1>5 DEF TakeTicks, TS!vars
<1>6. CASE WaitForTick
  BY <1>6 DEF WaitForTick, TS!vars
<1>7. CASE StartRun
  <2>1. wpc = "got" /\ ~stopping /\ serverTicks > 0
    BY <1>7 DEF StartRun
  <2>2. QED
    BY <1>7, <2>1 DEF StartRun, TS!Next, TS!Begin
<1>8. CASE SkipRun
  BY <1>8 DEF SkipRun, TS!vars
<1>9. CASE EndRun
  BY <1>9 DEF EndRun, TS!Next, TS!End
<1>10. CASE PluginThrows
  <2>1. CASE stopping
    BY <1>10, <2>1 DEF PluginThrows, TS!Next, TS!End
  <2>2. CASE ~stopping
    BY <1>10, <2>2 DEF PluginThrows, TS!Next, TS!Close
  <2>3. QED
    BY <2>1, <2>2
<1>11. CASE Leave
  BY <1>11 DEF Leave, TS!vars
<1>12. CASE ThreadEnds
  BY <1>12 DEF ThreadEnds, TS!vars
<1>13. CASE SpuriousWakeup
  BY <1>13 DEF SpuriousWakeup, TS!vars
<1>14. QED
  BY <1>1, <1>2, <1>3, <1>4, <1>5, <1>6, <1>7, <1>8, <1>9, <1>10, <1>11,
     <1>12, <1>13 DEF WorkerStep

\* A step of the daemon is one of TickService, or leaves it alone.
LEMMA StepMaps == IInv /\ [Next]_vars => [TS!Next]_(TS!vars)
<1>1. ASSUME IInv, UNCHANGED vars PROVE UNCHANGED TS!vars
  BY <1>1 DEF vars, mainVars, TS!vars, Closing, InHand
<1>2. QED
  BY <1>1, MainStepMaps, WorkerStepMaps DEF Next, Terminated

\* The safety part of the refinement, for any number of ticks: what the two
\* threads do is what TickService allows.
THEOREM ImplementsSafely == Spec => TS!SafeSpec
  BY StepMaps, InitMaps, InvariantHolds, PTL DEF Spec, TS!SafeSpec

=============================================================================
