------------------------------- MODULE Daemon -------------------------------
(***************************************************************************)
(* The daemon as a process: the two threads of SitterWorker around the     *)
(* report of ErrorReport, and systemd, which starts the process again.     *)
(*                                                                         *)
(* A run of the plugins, its report included, is one position, "run", of   *)
(* the worker of SitterWorker, and several of ErrorReport: while the       *)
(* worker is in there the main thread may stop the server, which waits for *)
(* the worker, or the process may be killed.  Each action below is one of  *)
(* the two modules, or one of both at the same time.                       *)
(***************************************************************************)
EXTENDS ErrorReport

CONSTANT MaxTicks  \* bound: how often the timer fires in a life of the daemon

ASSUME DaemonAssumption == MaxTicks \in Nat

VARIABLES
    mpc, connections, timerEnabled, hasWorker, stopRequested, stopping,
    tpc,        \* where the worker thread is, wpc being where its report is
    fTicks, serverTicks, donePending, fired, served, runs,  \* see SitterWorker
    ending      \* history: where the report was when the process
                \* ended, "killed", or "none" while it runs

Threads == INSTANCE SitterWorker WITH wpc <- tpc

threadVars == <<mpc, connections, timerEnabled, hasWorker, stopRequested, stopping,
                tpc, fTicks, serverTicks, donePending, fired, served, runs>>
daemonVars == <<vars, threadVars, ending>>

DaemonInit == Init /\ Threads!Init /\ ending = "none"

-----------------------------------------------------------------------------
(* A life of the daemon *)

\* What the threads do while no run of the plugins starts, fails or ends.
ThreadsStep ==
    /\ \/ Threads!FluidReady \/ Threads!ProcessTimeout \/ Threads!ProcessStop
       \/ Threads!ProcessWorkerDone \/ Threads!StopThread \/ Threads!Wakeup
       \/ Threads!Join \/ Threads!RemoveConnections
       \/ Threads!LoadPlugins \/ Threads!TestLoop \/ Threads!LockMutex
       \/ Threads!TestWait \/ Threads!TakeTicks \/ Threads!WaitForTick
       \/ Threads!SkipRun \/ Threads!Leave \/ Threads!ThreadEnds
       \/ Threads!SpuriousWakeup
    /\ UNCHANGED <<vars, ending>>

\* loop() calls run_plugins(), which starts with clear_errors().
BeginPlugins ==
    /\ Threads!StartRun
    /\ BeginRun
    /\ UNCHANGED ending

\* The steps of run_plugins() and report_error(), up to the return to loop(); an error
\* with an invalid priority is an exception, which ends the thread.
PluginsStep ==
    /\ tpc = "run"
    /\ \/ EndRun \/ Decide \/ Save \/ SaveFails \/ Send
       \/ \E priority \in Priorities : AppendError(priority)
    /\ \/ wpc' = "idle" /\ Threads!EndRun
       \/ wpc' = "down" /\ Threads!PluginThrows
       \/ wpc' \notin {"idle", "down"} /\ UNCHANGED threadVars
    /\ UNCHANGED ending

\* Any other exception: of a plugin, of a getter, or of the email, which is made and
\* given to the mailer after its date was saved.
Throw ==
    /\ tpc = "run"
    /\ Crash
    /\ Threads!PluginThrows
    /\ UNCHANGED ending

\* main() returns: what the worker is doing then is gone with the process.
Exit ==
    /\ Threads!LoopEnds
    /\ ending' = wpc
    /\ wpc' = "down"
    /\ UNCHANGED <<now, startDate, errorCount, maxPriority, mailDate, mailFile,
                   lastMail, lastTry, lost, appended>>

\* The process is killed, or the machine goes down.
Kill ==
    /\ mpc # "exited"
    /\ mpc' = "exited" /\ tpc' = "ended"
    /\ ending' = "killed"
    /\ wpc' = "down"
    /\ UNCHANGED <<now, startDate, errorCount, maxPriority, mailDate, mailFile,
                   lastMail, lastTry, lost, appended>>
    /\ UNCHANGED <<connections, timerEnabled, hasWorker, stopRequested, stopping,
                   fTicks, serverTicks, donePending, fired, served, runs>>

\* A new process, which has nothing of the last one but the files.
StartDaemon ==
    /\ mpc = "exited"
    /\ Restart
    /\ mpc' = "loop"
    /\ connections' = Threads!Connections
    /\ timerEnabled' = FALSE /\ hasWorker' = TRUE
    /\ stopRequested' = FALSE /\ stopping' = FALSE
    /\ tpc' = "enter"
    /\ fTicks' = 0 /\ serverTicks' = 0 /\ donePending' = FALSE
    /\ fired' = 0 /\ served' = 0 /\ runs' = 0
    /\ ending' = "none"

Outside ==
    /\ Advance \/ CleanCache
    /\ UNCHANGED <<threadVars, ending>>

DaemonNext ==
    \/ ThreadsStep \/ BeginPlugins \/ PluginsStep \/ Throw
    \/ Exit \/ Kill \/ StartDaemon \/ Outside

DaemonSpec == DaemonInit /\ [][DaemonNext]_daemonVars

-----------------------------------------------------------------------------
(* Correctness *)

\* A process that is stopped, by a signal or a message, at whatever moment of a run,
\* lets the report it is in come to its end: no email is left behind whose date was
\* written.  What cuts a report is an exception in it, after which the worker is
\* "down" long before the process ends, or the kill of the process.
ReportNotCut == ending \in {"none", "killed", "idle", "down"}

=============================================================================
