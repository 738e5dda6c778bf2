----------------------------- MODULE SitterWorker -----------------------------
(***************************************************************************)
(* The two threads of the sitter daemon.                                   *)
(*                                                                         *)
(* The main thread runs the event loop: the tick timer counts a tick for   *)
(* the worker, and an interrupt, a STOP message or the death of the worker *)
(* makes it call server::stop(), which stops and joins the worker, drops   *)
(* it and removes the connections, after which the loop ends.              *)
(*                                                                         *)
(* The worker thread loads the plugins, then waits for ticks on a mutex    *)
(* with a condition (f_mutex), and runs the plugins once per wakeup.       *)
(*                                                                         *)
(* server::stop() blocks the event loop, so it is several steps with mpc   *)
(* between them; the other handlers are one step each.  The main thread's  *)
(* critical sections are one step that needs the mutex free; the worker's  *)
(* is several, because the flag it reads there is not under that mutex.    *)
(***************************************************************************)
EXTENDS Integers

CONSTANT MaxTicks  \* bound: how often the tick timer fires

ASSUME MaxTicksAssumption == MaxTicks \in Nat

VARIABLES
    mpc,            \* where the main thread is
    connections,    \* what the communicator listens to
    timerEnabled,   \* f_tick_timer->is_enabled()
    hasWorker,      \* f_worker != nullptr
    stopRequested,  \* server::f_stopping
    stopping,       \* the flag of cppthread::thread behind continue_running()
    wpc,            \* where the worker thread is
    fTicks,         \* sitter_worker::f_ticks
    serverTicks,    \* server::f_ticks, what set_ticks() was last given
    donePending,    \* thread_done() was called and its event is not read yet
    fired,          \* history: number of tick()
    served,         \* history: sum of what set_ticks() was given
    runs            \* history: number of run_plugins()

mainVars == <<mpc, connections, timerEnabled, hasWorker, stopRequested>>
vars == <<mainVars, stopping, wpc, fTicks, serverTicks, donePending,
          fired, served, runs>>

Connections == {"interrupt", "messenger", "tick_timer", "worker_done"}
MainPCs == {"loop", "stop_thread", "wakeup", "join", "remove", "exited"}
WorkerPCs == {"enter", "top", "acquire", "test", "take", "waiting", "woken",
              "got", "none", "run", "leave", "left", "ended"}

\* The worker is inside the scope of its guard on f_mutex.
WorkerHoldsMutex == wpc \in {"test", "take"}

ContinueRunning == ~stopping

\* thread::is_running(): true until the thread function is entirely over.
IsRunning == wpc # "ended"

\* f_mutex.signal(): the worker, if it waits, contends for the mutex again.
Signalled == IF wpc = "waiting" THEN "woken" ELSE wpc

\* Faulty: f_ticks starts at the -1 the server's cached settings use.
InitUnset ==
    /\ mpc = "loop"
    /\ connections = Connections
    /\ timerEnabled = FALSE
    /\ hasWorker = TRUE
    /\ stopRequested = FALSE
    /\ stopping = FALSE
    /\ wpc = "enter"
    /\ fTicks = -1
    /\ serverTicks = 0
    /\ donePending = FALSE
    /\ fired = 0
    /\ served = 0
    /\ runs = 0

\* server::run() up to f_communicator->run().
Init ==
    /\ mpc = "loop"
    /\ connections = Connections
    /\ timerEnabled = FALSE
    /\ hasWorker = TRUE
    /\ stopRequested = FALSE
    /\ stopping = FALSE
    /\ wpc = "enter"
    /\ fTicks = 0
    /\ serverTicks = 0
    /\ donePending = FALSE
    /\ fired = 0
    /\ served = 0
    /\ runs = 0

-----------------------------------------------------------------------------
(* The main thread *)

\* The event loop only calls back connections it still has.
Dispatch(c) == mpc = "loop" /\ c \in connections

\* FLUID_SETTINGS_STATUS_READY: the timer may fire from now on.
FluidReady ==
    /\ Dispatch("messenger")
    /\ ~timerEnabled
    /\ timerEnabled' = TRUE
    /\ UNCHANGED <<mpc, connections, hasWorker, stopRequested, stopping, wpc,
                   fTicks, serverTicks, donePending, fired, served, runs>>

\* tick_timer::process_timeout() through process_tick() to tick().
ProcessTimeout ==
    /\ Dispatch("tick_timer")
    /\ timerEnabled
    /\ fired < MaxTicks
    /\ ~WorkerHoldsMutex
    /\ fTicks' = fTicks + 1
    /\ wpc' = Signalled
    /\ fired' = fired + 1
    /\ UNCHANGED <<mainVars, stopping, serverTicks, donePending, served, runs>>

\* The first lines of server::stop(), up to the is_running() test.
BeginStop ==
    /\ stopRequested' = TRUE
    /\ mpc' = IF hasWorker /\ IsRunning THEN "stop_thread" ELSE "remove"
    /\ UNCHANGED <<connections, timerEnabled, hasWorker, stopping, wpc, fTicks,
                   serverTicks, fired, served, runs>>

\* interrupt::process_signal(), or a STOP or QUITTING message.
ProcessStop ==
    /\ Dispatch("interrupt") \/ Dispatch("messenger")
    /\ BeginStop
    /\ UNCHANGED donePending

\* worker_done::process_read(): the base class reads the event first.
ProcessWorkerDone ==
    /\ Dispatch("worker_done")
    /\ donePending
    /\ donePending' = FALSE
    /\ BeginStop

\* Faulty: the thread is stopped without the callback that wakes it up.
StopThreadSilently ==
    /\ mpc = "stop_thread"
    /\ stopping' = TRUE
    /\ mpc' = "join"
    /\ UNCHANGED <<connections, timerEnabled, hasWorker, stopRequested, wpc,
                   fTicks, serverTicks, donePending, fired, served, runs>>

\* f_worker_thread->stop(): the flag is raised before the callback is called.
StopThread ==
    /\ mpc = "stop_thread"
    /\ stopping' = TRUE
    /\ mpc' = "wakeup"
    /\ UNCHANGED <<connections, timerEnabled, hasWorker, stopRequested, wpc,
                   fTicks, serverTicks, donePending, fired, served, runs>>

\* The callback given to thread::stop() is sitter_worker::wakeup().
Wakeup ==
    /\ mpc = "wakeup"
    /\ ~WorkerHoldsMutex
    /\ fTicks' = 1
    /\ wpc' = Signalled
    /\ mpc' = "join"
    /\ UNCHANGED <<connections, timerEnabled, hasWorker, stopRequested, stopping,
                   serverTicks, donePending, fired, served, runs>>

\* Faulty: the pointers are reset without waiting for the thread.
DetachInsteadOfJoin ==
    /\ mpc = "join"
    /\ hasWorker' = FALSE
    /\ mpc' = "remove"
    /\ UNCHANGED <<connections, timerEnabled, stopRequested, stopping, wpc,
                   fTicks, serverTicks, donePending, fired, served, runs>>

\* thread::stop() joins the thread, then stop() resets both pointers.
Join ==
    /\ mpc = "join"
    /\ ~IsRunning
    /\ hasWorker' = FALSE
    /\ mpc' = "remove"
    /\ UNCHANGED <<connections, timerEnabled, stopRequested, stopping, wpc,
                   fTicks, serverTicks, donePending, fired, served, runs>>

\* Faulty: the timer is forgotten.
RemoveAllButTimer ==
    /\ mpc = "remove"
    /\ connections' = connections \ {"messenger", "interrupt", "worker_done"}
    /\ mpc' = "loop"
    /\ UNCHANGED <<timerEnabled, hasWorker, stopRequested, stopping, wpc, fTicks,
                   serverTicks, donePending, fired, served, runs>>

\* The rest of server::stop(): the messenger and the other three go.
RemoveConnections ==
    /\ mpc = "remove"
    /\ connections' = connections \ {"messenger", "interrupt", "tick_timer", "worker_done"}
    /\ mpc' = "loop"
    /\ UNCHANGED <<timerEnabled, hasWorker, stopRequested, stopping, wpc, fTicks,
                   serverTicks, donePending, fired, served, runs>>

\* f_communicator->run() returns when it has no connection left.
LoopEnds ==
    /\ mpc = "loop"
    /\ connections = {}
    /\ mpc' = "exited"
    /\ UNCHANGED <<connections, timerEnabled, hasWorker, stopRequested, stopping,
                   wpc, fTicks, serverTicks, donePending, fired, served, runs>>

-----------------------------------------------------------------------------
(* The worker thread *)

\* A worker step that only moves on.
Goto(from, to) ==
    /\ wpc = from
    /\ wpc' = to
    /\ UNCHANGED <<mainVars, stopping, fTicks, serverTicks, donePending,
                   fired, served, runs>>

\* enter(): load_plugins(), which throws when a plugin cannot be loaded.
LoadPlugins ==
    \/ Goto("enter", "top")
    \/ Goto("enter", "leave")

\* The condition of the while of loop().
TestLoop == Goto("top", IF ContinueRunning THEN "acquire" ELSE "leave")

\* The guard of wait_next_tick(), or f_mutex.wait() taking the mutex again.
LockMutex ==
    \/ Goto("acquire", "test")
    \/ Goto("woken", "test")

\* Faulty: the inner loop does not test continue_running() again.
TestWaitNever == Goto("test", "take")

\* The condition of the while of wait_next_tick(), under the mutex.
TestWait == Goto("test", IF ContinueRunning THEN "take" ELSE "none")

\* Faulty: f_ticks is not reset.
TakeTicksAndKeep ==
    /\ wpc = "take"
    /\ fTicks # 0
    /\ serverTicks' = fTicks
    /\ served' = served + fTicks
    /\ wpc' = "got"
    /\ UNCHANGED <<mainVars, stopping, fTicks, donePending, fired, runs>>

\* f_ticks != 0: hand the count to the server and return, unlocking.
TakeTicks ==
    /\ wpc = "take"
    /\ fTicks # 0
    /\ serverTicks' = fTicks
    /\ served' = served + fTicks
    /\ fTicks' = 0
    /\ wpc' = "got"
    /\ UNCHANGED <<mainVars, stopping, donePending, fired, runs>>

\* Faulty: waits without looking at f_ticks under the mutex.
WaitUnconditionally == Goto("take", "waiting")

\* f_mutex.wait(): unlock and wait, in one step.
WaitForTick ==
    /\ fTicks = 0
    /\ Goto("take", "waiting")

\* A condition wait may end without any signal.
SpuriousWakeup == Goto("waiting", "woken")

\* Faulty: loop() does not test again after wait_next_tick().
StartRunUntested ==
    /\ wpc \in {"got", "none"}
    /\ wpc' = "run"
    /\ runs' = runs + 1
    /\ UNCHANGED <<mainVars, stopping, fTicks, serverTicks, donePending,
                   fired, served>>

\* loop() tests again after wait_next_tick(), then calls run_plugins().
StartRun ==
    /\ wpc \in {"got", "none"}
    /\ ContinueRunning
    /\ wpc' = "run"
    /\ runs' = runs + 1
    /\ UNCHANGED <<mainVars, stopping, fTicks, serverTicks, donePending,
                   fired, served>>

SkipRun ==
    /\ ~ContinueRunning
    /\ Goto("got", "leave") \/ Goto("none", "leave")

\* run_plugins() returns, or an exception of a plugin ends run().
EndRun == Goto("run", "top")
PluginThrows == Goto("run", "leave")

\* Faulty: the thread does not tell that it is done.
LeaveSilently == Goto("leave", "left")

\* leave(): f_worker_done->thread_done(), still in the thread.
Leave ==
    /\ wpc = "leave"
    /\ donePending' = TRUE
    /\ wpc' = "left"
    /\ UNCHANGED <<mainVars, stopping, fTicks, serverTicks, fired, served, runs>>

ThreadEnds == Goto("left", "ended")

-----------------------------------------------------------------------------
(* The specification *)

WorkerStep ==
    \/ LoadPlugins \/ TestLoop \/ LockMutex \/ TestWait \/ TakeTicks
    \/ WaitForTick \/ StartRun \/ SkipRun \/ EndRun \/ PluginThrows
    \/ Leave \/ ThreadEnds

\* What the main thread does without waiting for anything outside the daemon.
StopStep ==
    \/ ProcessWorkerDone \/ StopThread \/ Wakeup \/ Join
    \/ RemoveConnections \/ LoopEnds

\* The process is over.
Terminated == mpc = "exited" /\ UNCHANGED vars

Next ==
    \/ FluidReady \/ ProcessTimeout \/ ProcessStop \/ StopStep
    \/ WorkerStep \/ SpuriousWakeup
    \/ Terminated

Spec == Init /\ [][Next]_vars

\* Both threads are scheduled and the plugins return; nobody has to interrupt
\* the daemon, the timer does not have to fire and fluid-settings may be absent.
FairSpec == Spec /\ WF_vars(WorkerStep) /\ WF_vars(StopStep)

-----------------------------------------------------------------------------
(* Correctness *)

\* The type of every variable.
TypeOK ==
    /\ mpc \in MainPCs
    /\ connections \subseteq Connections
    /\ timerEnabled \in BOOLEAN
    /\ hasWorker \in BOOLEAN
    /\ stopRequested \in BOOLEAN
    /\ stopping \in BOOLEAN
    /\ wpc \in WorkerPCs
    /\ fTicks \in Nat
    /\ serverTicks \in Nat
    /\ donePending \in BOOLEAN
    /\ fired \in Nat
    /\ served \in Nat
    /\ runs \in Nat

\* Until the thread is told to stop, every tick the timer gave is either still
\* in f_ticks or was handed to the server exactly once: the lock, the wait and
\* the reset of f_ticks lose none and count none twice.
TickConservation == stopping \/ fired = served + fTicks

\* A run is started only for ticks that fired: never because of a spurious
\* wakeup or of the f_ticks = 1 that wakeup() leaves behind at shutdown.
NoRunWithoutTick == runs <= served /\ served <= fired

\* The worker never sleeps on a tick, nor on the wakeup of a stop.
NoLostWakeup == wpc = "waiting" => fTicks = 0 /\ mpc # "join"

\* The timer's callback dereferences f_worker: whenever the event loop may call
\* it, the worker is still there.
TimerHasWorker == Dispatch("tick_timer") => hasWorker

\* The worker object and the daemon outlive the thread that uses them.
WorkerOutlived == ~hasWorker \/ mpc = "exited" => wpc = "ended"

\* A stop can overtake a worker that has just decided to run, but once the
\* thread's flag is up no other gathering starts.
NoNewRunOnceStopping ==
    [][stopping /\ wpc # "run" => wpc' # "run"]_vars

\* A stop request, and the death of the worker at any point (plugins that do not
\* load, an exception in a run), end the daemon.
StopCompletes == (stopRequested \/ wpc = "leave") ~> mpc = "exited"

\* When no service is given any more: the thread was told to stop, or is dying.
Closing == stopping \/ wpc \in {"leave", "left", "ended"}

\* Ticks taken from f_ticks by a worker that has not started its run yet.
InHand == IF wpc = "got" THEN serverTicks ELSE 0

TS == INSTANCE TickService WITH
        phase <- IF ~Closing THEN "up"
                 ELSE IF mpc = "exited" THEN "down" ELSE "closing",
        pending <- IF Closing THEN 0 ELSE fTicks + InHand,
        busy <- wpc = "run"

\* The two threads implement the promise of TickService, its liveness included.
ImplementsTickService == TS!Spec

=============================================================================
