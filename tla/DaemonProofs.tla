---------------------------- MODULE DaemonProofs ----------------------------
(***************************************************************************)
(* Proofs about the report and about the daemon it is part of, for any     *)
(* priorities, spans, settle time, retention and number of ticks.          *)
(*                                                                         *)
(* The report first, by itself.  The date in the file stands for every     *)
(* email sent: as long as the last write succeeded, the file is at least   *)
(* as recent as the last email, or that email is so old that tmpfiles may  *)
(* have removed the file, and then the retention has elapsed.              *)
(*                                                                         *)
(* Then the composition with the two threads.  Each step of the daemon is  *)
(* one of ErrorReport, so what is proved of emails is true of the daemon;  *)
(* and, unless it kills or starts the process, one of SitterWorker, where  *)
(* the worker is over before the main thread leaves, so that a report is   *)
(* too.  What SitterWorkerProofs shows of the threads is then true of each *)
(* life of the daemon, and so is that they implement TickService.          *)
(***************************************************************************)
EXTENDS Daemon, TLAPS

-----------------------------------------------------------------------------
(* The invariant of the report *)

\* The file vouches for an email of that date.  Where there is no path for the file,
\* no date was written.
Vouches(date) == mailFile >= date \/ now - date >= Retention

Recorded ==
    /\ lastMail # None /\ ~lost => Vouches(lastMail)
    /\ wpc = "send" /\ ~lost => Vouches(mailDate)
    /\ MkdirSuccess = 0 /\ (lastMail # None \/ wpc = "send") => lost

\* A report that was let through is later than the last email.
Later == wpc \in {"save", "send"} => lastMail <= mailDate

\* The date in the file, and the one about to be written, are of a report that was
\* let through.
Tried ==
    /\ mailFile >= 0 => mailFile <= lastTry
    /\ wpc = "save" => mailDate <= lastTry

\* Before an error is appended the priority is null, and a priority that was
\* refused took the daemon down.
Appended ==
    /\ appended = {} => errorCount = 0 /\ maxPriority = 0
    /\ maxPriority = 0 \/ maxPriority \in appended
    /\ \A priority \in appended : priority <= maxPriority
    /\ wpc # "down" => appended \subseteq 0..100
    /\ wpc \in {"report", "save", "send"} => errorCount > 0

IInv == TypeOK /\ Recorded /\ Later /\ Tried /\ Appended /\ EmailSpan

\* Every span is a positive duration, of which the file vouches for what is not longer
\* than the retention.
LEMMA SpanBounds ==
    ASSUME NEW priority \in Int
    PROVE  /\ SpanOf(priority) \in Nat \ {0} /\ LeastTime(priority) \in Nat
           /\ LeastTime(priority) <= SpanOf(priority) /\ LeastTime(priority) <= Retention
BY LevelsAssumption DEF SpanOf, LeastTime

\* The type of the variables, restated where the provers need plain integers.
LEMMA Numbers ==
    ASSUME TypeOK
    PROVE  /\ now \in Nat /\ startDate \in Int /\ mailDate \in Nat
           /\ mailFile \in Int /\ lastMail \in Int /\ lastTry \in Int
           /\ maxPriority \in Int
           /\ errorCount \in Nat /\ Retention \in Nat
           /\ mailDate <= now /\ lastMail <= now /\ mailFile <= now
BY LevelsAssumption DEF TypeOK, None, Garbage

LEMMA InitInvariant == Init => IInv
<1> SUFFICES ASSUME Init PROVE IInv
    OBVIOUS
<1>1. TypeOK
    <2>1. lost \in BOOLEAN
        BY Zenon DEF Init
    <2> QED BY <2>1, LevelsAssumption DEF Init, TypeOK, None
<1>2. Recorded /\ Later /\ Tried /\ EmailSpan
    BY DEF Init, Recorded, Later, Tried, EmailSpan, None
<1>3. Appended
    BY DEF Init, Appended
<1> QED BY <1>1, <1>2, <1>3 DEF IInv

\* The steps of run_plugins() touch neither the file nor the dates.
LEMMA RunStepKeepsInvariant ==
    ASSUME IInv,
           \/ BeginRun \/ EndRun
           \/ \E priority \in Priorities : AppendError(priority)
    PROVE  IInv'
<1> USE LevelsAssumption, Numbers DEF IInv
<1>1. CASE BeginRun
    BY <1>1 DEF BeginRun, TypeOK, Recorded, Later, Tried, Appended, EmailSpan, Vouches
<1>2. CASE EndRun
    <2>1. TypeOK'
        BY <1>2 DEF EndRun, TypeOK
    <2>2. (Recorded /\ Later /\ Tried /\ Appended /\ EmailSpan)'
        BY <1>2 DEF EndRun, Recorded, Later, Tried, Appended, EmailSpan, Vouches
    <2> QED BY <2>1, <2>2
<1>3. ASSUME NEW priority \in Priorities, AppendError(priority)
      PROVE  IInv'
    <2>1. TypeOK'
        BY <1>3 DEF AppendError, TypeOK
    <2>2. Appended'
        BY <1>3 DEF AppendError, Appended, TypeOK
    <2>3. (Recorded /\ Later /\ Tried /\ EmailSpan)'
        BY <1>3 DEF AppendError, Recorded, Later, Tried, EmailSpan, Vouches
    <2> QED BY <2>1, <2>2, <2>3
<1> QED BY <1>1, <1>2, <1>3

\* What report_error() lets through is a span later than the last email, and saved
\* before it is sent.  Without a path no date is saved, and nothing is vouched for.
LEMMA ReportStepKeepsInvariant ==
    ASSUME IInv, Decide \/ Save \/ SaveFails \/ Send
    PROVE  IInv'
<1> USE LevelsAssumption, Numbers DEF IInv
<1>1. CASE Decide
    <2>1. (TypeOK /\ Recorded /\ Later /\ Tried /\ Appended)'
        BY <1>1 DEF Decide, TypeOK, Recorded, Later, Tried, Appended, Vouches
    <2>2. EmailSpan'
        <3>1. SUFFICES ASSUME wpc' = "save", lastMail # None, ~lost
                       PROVE  now - lastMail >= LeastTime(maxPriority)
            BY <1>1 DEF Decide, EmailSpan, LeastTime, SpanOf
        <3>2. ~NotDue
            BY <1>1, <3>1 DEF Decide
        <3>3. Vouches(lastMail) /\ lastMail >= 0
            BY <3>1 DEF Recorded, TypeOK, None
        <3>4. /\ SpanOf(maxPriority) \in Nat /\ LeastTime(maxPriority) \in Nat
              /\ LeastTime(maxPriority) <= SpanOf(maxPriority)
              /\ LeastTime(maxPriority) <= Retention
            BY SpanBounds
        <3>5. CASE CachePathUsable
            BY <3>2, <3>3, <3>4, <3>5 DEF NotDue, Vouches
        <3>6. CASE ~CachePathUsable
            BY <3>1, <3>3, <3>4, <3>6 DEF Recorded, CachePathUsable
        <3> QED BY <3>5, <3>6
    <2> QED BY <2>1, <2>2
<1>2. CASE Save
    <2>1. TypeOK'
        BY <1>2 DEF Save, AfterSave, TypeOK
    <2>2. Appended'
        BY <1>2 DEF Save, AfterSave, Appended
    <2>3. Recorded'
        BY <1>2 DEF Save, AfterSave, CachePathUsable, Recorded, Later, Vouches, TypeOK
    <2>4. (Later /\ Tried /\ EmailSpan)'
        BY <1>2 DEF Save, AfterSave, Later, Tried, EmailSpan
    <2> QED BY <2>1, <2>2, <2>3, <2>4
<1>3. CASE SaveFails
    <2>1. /\ wpc = "save" /\ wpc' \in {"send", "idle"} /\ lost' = TRUE
          /\ mailFile' \in {mailFile, Garbage}
          /\ UNCHANGED <<now, startDate, errorCount, maxPriority, mailDate, lastMail,
                         lastTry, appended>>
        BY <1>3 DEF SaveFails, AfterSave
    <2>2. TypeOK'
        BY <2>1 DEF TypeOK, Garbage
    <2>3. Recorded' /\ EmailSpan'
        <3>1. lost' /\ wpc' # "save"
            BY <2>1
        <3> QED BY <3>1, Zenon DEF Recorded, EmailSpan
    <2>4. Later' /\ Tried'
        BY <2>1 DEF Later, Tried, Garbage
    <2>5. Appended'
        BY <2>1 DEF Appended
    <2> QED BY <2>2, <2>3, <2>4, <2>5
<1>4. CASE Send
    <2>1. (TypeOK /\ Later /\ Tried /\ Appended)'
        BY <1>4 DEF Send, TypeOK, Later, Tried, Appended
    <2>2. Recorded'
        <3>1. CASE lost
            BY <1>4, <3>1, Zenon DEF Send, Recorded
        <3>2. CASE ~lost
            BY <1>4, <3>2 DEF Send, Recorded, Vouches
        <3> QED BY <3>1, <3>2
    <2>3. EmailSpan'
        BY <1>4 DEF Send, EmailSpan
    <2> QED BY <2>1, <2>2, <2>3
<1> QED BY <1>1, <1>2, <1>3, <1>4

\* Time, crashes and tmpfiles.
LEMMA OutsideStepKeepsInvariant ==
    ASSUME IInv, Advance \/ Crash \/ Restart \/ CleanCache
    PROVE  IInv'
<1> USE LevelsAssumption, Numbers DEF IInv
<1>1. CASE Advance
    BY <1>1 DEF Advance, TypeOK, Recorded, Later, Tried, Appended, EmailSpan, LeastTime,
        SpanOf, Vouches
<1>2. CASE Crash
    BY <1>2 DEF Crash, TypeOK, Recorded, Later, Tried, Appended, EmailSpan, Vouches
<1>3. CASE Restart
    BY <1>3 DEF Restart, TypeOK, Recorded, Later, Tried, Appended, EmailSpan, Vouches
<1>4. CASE CleanCache
    BY <1>4
    DEF CleanCache, TypeOK, Recorded, Later, Tried, Appended, EmailSpan, LeastTime,
        SpanOf, Vouches, None
<1> QED BY <1>1, <1>2, <1>3, <1>4

\* The invariant holds in every state, whatever mkdir_p() returns.
THEOREM InvariantHolds == Spec => []IInv
<1>1. IInv /\ [Next]_vars => IInv'
    <2>1. CASE UNCHANGED vars
        BY <2>1
        DEF vars, IInv, TypeOK, Recorded, Later, Tried, Appended, EmailSpan, LeastTime,
            SpanOf, Vouches
    <2>2. CASE Next
        BY <2>2, RunStepKeepsInvariant, ReportStepKeepsInvariant,
           OutsideStepKeepsInvariant
        DEF Next
    <2> QED BY <2>1, <2>2
<1> QED BY <1>1, InitInvariant, PTL DEF Spec

\* The emails are at least a span apart, or the retention of the cache when the span is
\* longer, across crashes and restarts, as long as their dates could be written: for
\* any spans, and whatever mkdir_p() returns.
THEOREM EmailsSpaced == Spec => []EmailSpan
<1>1. IInv => EmailSpan
    BY DEF IInv
<1> QED BY <1>1, InvariantHolds, PTL

\* What is reported is what the run at hand appended.
THEOREM OwnErrorsReported == Spec => []ReportsThisRun
<1>1. IInv => ReportsThisRun
    BY DEF IInv, Appended, ReportsThisRun
<1> QED BY <1>1, InvariantHolds, PTL

\* Errors that a run drops, whatever their level, were of a short run, or follow a report
\* that was let through less than the span of that level ago.
THEOREM ErrorsDroppedForAReason == Spec => DroppedForAReason
<1>1. ASSUME IInv, [Next]_vars,
             wpc = "plugins" \/ wpc = "report", wpc' = "idle",
             errorCount > 0, maxPriority >= Low
      PROVE  now - startDate < Settle \/ TriedWithinSpan
    <2>1. Decide \/ EndRun
        BY <1>1
        DEF Next, vars, BeginRun, AppendError, EndRun, Save, SaveFails, Send,
            Advance, Crash, Restart, CleanCache
    <2>2. CASE EndRun
        BY <1>1, <2>2, LevelsAssumption, Numbers DEF EndRun, IInv
    <2>3. CASE Decide
        <3>1. NotDue
            BY <1>1, <2>3 DEF Decide
        <3>2. mailFile >= 0 /\ now - mailFile < SpanOf(maxPriority)
            BY <1>1, <3>1, LevelsAssumption, Numbers DEF NotDue, IInv
        <3>3. mailFile <= lastTry
            BY <1>1, <3>2 DEF IInv, Tried
        <3>4. SpanOf(maxPriority) \in Nat
            BY <1>1, Numbers, SpanBounds DEF IInv
        <3>5. lastTry # None /\ now - lastTry < SpanOf(maxPriority)
            BY <1>1, <3>2, <3>3, <3>4, Numbers DEF IInv, None
        <3> QED BY <1>1, <3>5, LevelsAssumption, Numbers DEF SpanOf, IInv, TriedWithinSpan
    <2> QED BY <2>1, <2>2, <2>3
<1>2. IInv /\ [Next]_vars
      => [(wpc = "plugins" \/ wpc = "report") /\ wpc' = "idle"
              /\ errorCount > 0 /\ maxPriority >= Low
            => now - startDate < Settle \/ TriedWithinSpan]_vars
    BY <1>1, Zenon
<1> QED BY <1>2, InvariantHolds, PTL DEF Spec, DroppedForAReason

\* The variables keep their types; dates are never in the future.
THEOREM TypeCorrect == Spec => []TypeOK
<1>1. IInv => TypeOK
    BY DEF IInv
<1> QED BY <1>1, InvariantHolds, PTL

-----------------------------------------------------------------------------
(* The invariant of the daemon *)

\* A run of the plugins is under way, its report included.
Reporting == wpc \in {"plugins", "report", "save", "send"}

\* The worker is over when the main thread has left stop(), in whatever way.
Over ==
    /\ mpc \in {"remove", "exited"} => tpc = "ended"
    /\ ~hasWorker => tpc = "ended"
    /\ connections = {} => tpc = "ended"

\* A report is under way exactly while the worker is in a run.
DInv ==
    /\ Reporting \/ wpc \in {"idle", "down"}
    /\ Reporting <=> tpc = "run"
    /\ Over
    /\ ReportNotCut

-----------------------------------------------------------------------------
(* The report *)

\* A step of the daemon is a step of ErrorReport or leaves it alone.
LEMMA StepImplementsErrorReport == [DaemonNext]_daemonVars => [Next]_vars
<1> SUFFICES ASSUME [DaemonNext]_daemonVars PROVE [Next]_vars
    OBVIOUS
<1>1. CASE ThreadsStep
    BY <1>1 DEF ThreadsStep
<1>2. CASE BeginPlugins
    BY <1>2 DEF BeginPlugins, Next
<1>3. CASE PluginsStep
    BY <1>3 DEF PluginsStep, Next
<1>9. CASE Throw
    BY <1>9 DEF Throw, Next
<1>4. CASE Exit
    BY <1>4 DEF Exit, Next, Crash, vars
<1>5. CASE Kill
    BY <1>5 DEF Kill, Next, Crash, vars
<1>6. CASE StartDaemon
    BY <1>6 DEF StartDaemon, Next
<1>7. CASE Outside
    BY <1>7 DEF Outside, Next
<1>8. CASE UNCHANGED daemonVars
    BY <1>8 DEF daemonVars
<1> QED BY <1>1, <1>2, <1>3, <1>4, <1>5, <1>6, <1>7, <1>8, <1>9 DEF DaemonNext

\* The daemon, with its threads, its signals and its deaths, implements ErrorReport.
THEOREM ImplementsErrorReport == DaemonSpec => Spec
<1>1. DaemonInit => Init
    BY DEF DaemonInit
<1> QED BY <1>1, StepImplementsErrorReport, PTL DEF DaemonSpec, Spec

\* The emails of the daemon are as far apart, whoever stops it, and when.
THEOREM DaemonEmailsSpaced == DaemonSpec => []EmailSpan
BY ImplementsErrorReport, EmailsSpaced, PTL

\* What the daemon reports is what the run at hand found.
THEOREM DaemonReportsItsRun == DaemonSpec => []ReportsThisRun
BY ImplementsErrorReport, OwnErrorsReported, PTL

\* The daemon drops the errors of a run because the run took less than the settle time,
\* or because of a report within the span of their level, and for nothing else.
THEOREM DaemonDropsForAReason == DaemonSpec => DroppedForAReason
BY ImplementsErrorReport, ErrorsDroppedForAReason, PTL

-----------------------------------------------------------------------------
(* The threads *)

\* A step of a life of the daemon is a step of its two threads, or leaves them alone.
LEMMA StepOfThreads ==
    ThreadsStep \/ BeginPlugins \/ PluginsStep \/ Throw \/ Exit \/ Outside
    => [Threads!Next]_threadVars
<1>1. CASE ThreadsStep
    BY <1>1 DEF ThreadsStep, Threads!Next, Threads!StopStep, Threads!WorkerStep
<1>2. CASE BeginPlugins
    BY <1>2 DEF BeginPlugins, Threads!Next, Threads!WorkerStep
<1>3. CASE PluginsStep
    BY <1>3 DEF PluginsStep, Threads!Next, Threads!WorkerStep
<1>6. CASE Throw
    BY <1>6 DEF Throw, Threads!Next, Threads!WorkerStep
<1>4. CASE Exit
    BY <1>4 DEF Exit, Threads!Next, Threads!StopStep
<1>5. CASE Outside
    BY <1>5 DEF Outside
<1> QED BY <1>1, <1>2, <1>3, <1>4, <1>5, <1>6

\* Whatever either thread does, the worker is over before the main thread is past
\* stop(), and it never comes back.
LEMMA ThreadsKeepOver == Over /\ [Threads!Next]_threadVars => Over'
<1> SUFFICES ASSUME Over, [Threads!Next]_threadVars PROVE Over'
    OBVIOUS
<1> USE DEF Over, Threads!mainVars, Threads!Goto, Threads!Dispatch
<1>1. CASE Threads!FluidReady
    BY <1>1 DEF Threads!FluidReady
<1>2. CASE Threads!ProcessTimeout
    BY <1>2 DEF Threads!ProcessTimeout, Threads!Signalled
<1>3. CASE Threads!ProcessStop \/ Threads!ProcessWorkerDone
    BY <1>3 DEF Threads!ProcessStop, Threads!ProcessWorkerDone,
                Threads!BeginStop, Threads!IsRunning
<1>4. CASE Threads!StopThread
    BY <1>4 DEF Threads!StopThread
<1>5. CASE Threads!Wakeup
    BY <1>5 DEF Threads!Wakeup, Threads!Signalled
<1>6. CASE Threads!Join
    BY <1>6 DEF Threads!Join, Threads!IsRunning
<1>7. CASE Threads!RemoveConnections
    BY <1>7 DEF Threads!RemoveConnections
<1>8. CASE Threads!LoopEnds
    BY <1>8 DEF Threads!LoopEnds
<1>9. CASE Threads!WorkerStep
    <2>1. CASE Threads!LoadPlugins \/ Threads!TestLoop \/ Threads!LockMutex
        BY <2>1 DEF Threads!LoadPlugins, Threads!TestLoop, Threads!LockMutex
    <2>2. CASE Threads!TestWait \/ Threads!WaitForTick \/ Threads!SkipRun
        BY <2>2 DEF Threads!TestWait, Threads!WaitForTick, Threads!SkipRun
    <2>3. CASE Threads!TakeTicks \/ Threads!StartRun
        BY <2>3 DEF Threads!TakeTicks, Threads!StartRun
    <2>4. CASE Threads!EndRun \/ Threads!PluginThrows
        BY <2>4 DEF Threads!EndRun, Threads!PluginThrows
    <2>5. CASE Threads!Leave \/ Threads!ThreadEnds
        BY <2>5 DEF Threads!Leave, Threads!ThreadEnds
    <2> QED BY <1>9, <2>1, <2>2, <2>3, <2>4, <2>5 DEF Threads!WorkerStep
<1>10. CASE Threads!SpuriousWakeup
    BY <1>10 DEF Threads!SpuriousWakeup
<1>11. CASE Threads!Terminated \/ UNCHANGED threadVars
    BY <1>11 DEF Threads!Terminated, Threads!vars, threadVars
<1> QED BY <1>1, <1>2, <1>3, <1>4, <1>5, <1>6, <1>7, <1>8, <1>9, <1>10, <1>11
        DEF Threads!Next, Threads!StopStep

\* No step of the threads alone begins or ends a run.
LEMMA ThreadsStepKeepsRun == ThreadsStep => (tpc' = "run" <=> tpc = "run")
<1> SUFFICES ASSUME ThreadsStep PROVE tpc' = "run" <=> tpc = "run"
    OBVIOUS
<1> USE DEF Threads!mainVars, Threads!Goto
<1>1. CASE \/ Threads!FluidReady \/ Threads!ProcessTimeout
           \/ Threads!ProcessStop \/ Threads!ProcessWorkerDone
    BY <1>1 DEF Threads!FluidReady, Threads!ProcessTimeout, Threads!Signalled,
                Threads!ProcessStop, Threads!ProcessWorkerDone, Threads!BeginStop
<1>2. CASE \/ Threads!StopThread \/ Threads!Wakeup
           \/ Threads!Join \/ Threads!RemoveConnections
    BY <1>2 DEF Threads!StopThread, Threads!Wakeup, Threads!Signalled,
                Threads!Join, Threads!RemoveConnections
<1>3. CASE Threads!LoadPlugins \/ Threads!TestLoop \/ Threads!LockMutex
    BY <1>3 DEF Threads!LoadPlugins, Threads!TestLoop, Threads!LockMutex
<1>4. CASE \/ Threads!TestWait \/ Threads!TakeTicks \/ Threads!WaitForTick
           \/ Threads!SpuriousWakeup
    BY <1>4 DEF Threads!TestWait, Threads!TakeTicks, Threads!WaitForTick,
                Threads!SpuriousWakeup
<1>5. CASE Threads!SkipRun \/ Threads!Leave \/ Threads!ThreadEnds
    BY <1>5 DEF Threads!SkipRun, Threads!Leave, Threads!ThreadEnds
<1> QED BY <1>1, <1>2, <1>3, <1>4, <1>5 DEF ThreadsStep

LEMMA DaemonInitInvariant == DaemonInit => DInv
<1> SUFFICES ASSUME DaemonInit PROVE DInv
    OBVIOUS
<1>1. connections # {}
    BY DEF DaemonInit, Threads!Init, Threads!Connections
<1> QED BY <1>1 DEF DaemonInit, Threads!Init, Init, DInv, Over, Reporting, ReportNotCut

LEMMA DaemonStepKeepsInvariant == DInv /\ [DaemonNext]_daemonVars => DInv'
<1> SUFFICES ASSUME DInv, [DaemonNext]_daemonVars PROVE DInv'
    OBVIOUS
<1>1. CASE ThreadsStep
    <2>1. Over'
        BY <1>1, StepOfThreads, ThreadsKeepOver DEF DInv
    <2> QED BY <1>1, <2>1, ThreadsStepKeepsRun
            DEF ThreadsStep, DInv, Reporting, ReportNotCut, vars
<1>2. CASE BeginPlugins
    <2>1. Over'
        BY <1>2, StepOfThreads, ThreadsKeepOver DEF DInv
    <2> QED BY <1>2, <2>1
            DEF BeginPlugins, Threads!StartRun, BeginRun, DInv, Reporting, ReportNotCut
<1>3. CASE PluginsStep
    <2>1. Over'
        BY <1>3, StepOfThreads, ThreadsKeepOver DEF DInv
    <2>2. wpc' \in {"idle", "plugins", "report", "save", "send", "down"}
        BY <1>3 DEF PluginsStep, EndRun, Decide, Save, SaveFails, Send, AfterSave,
                    AppendError, Crash, DInv, Reporting
    <2>3. Reporting' <=> tpc' = "run"
        BY <1>3, <2>2 DEF PluginsStep, Threads!EndRun, Threads!PluginThrows,
                          Threads!Goto, threadVars, Reporting
    <2>4. Reporting' \/ wpc' \in {"idle", "down"}
        BY <2>2 DEF Reporting
    <2>5. ReportNotCut'
        BY <1>3 DEF PluginsStep, DInv, ReportNotCut
    <2> QED BY <2>1, <2>3, <2>4, <2>5 DEF DInv
<1>9. CASE Throw
    <2>1. Over'
        BY <1>9, StepOfThreads, ThreadsKeepOver DEF DInv
    <2> QED BY <1>9, <2>1 DEF Throw, Crash, Threads!PluginThrows, Threads!Goto, DInv,
                              Reporting, ReportNotCut
<1>4. CASE Exit
    <2>1. Over' /\ tpc' = "ended"
        BY <1>4, StepOfThreads, ThreadsKeepOver
        DEF DInv, Over, Exit, Threads!LoopEnds
    <2> QED BY <1>4, <2>1
            DEF Exit, Threads!LoopEnds, DInv, Over, Reporting, ReportNotCut
<1>5. CASE Kill
    BY <1>5 DEF Kill, DInv, Over, Reporting, ReportNotCut
<1>6. CASE StartDaemon
    <2>1. connections' # {}
        BY <1>6 DEF StartDaemon, Threads!Connections
    <2> QED BY <1>6, <2>1
            DEF StartDaemon, Restart, DInv, Over, Reporting, ReportNotCut
<1>7. CASE Outside
    BY <1>7 DEF Outside, Advance, CleanCache, threadVars, DInv, Over, Reporting,
                ReportNotCut
<1>8. CASE UNCHANGED daemonVars
    BY <1>8 DEF daemonVars, vars, threadVars, DInv, Over, Reporting, ReportNotCut
<1> QED BY <1>1, <1>2, <1>3, <1>4, <1>5, <1>6, <1>7, <1>8, <1>9 DEF DaemonNext

\* Whenever the daemon is stopped, no report is left half done by the process that ends,
\* unless it is killed: stop() joins the worker before it lets the loop end.
THEOREM ReportsFinish == DaemonSpec => []ReportNotCut
<1>1. DInv => ReportNotCut
    BY DEF DInv
<1> QED BY <1>1, DaemonInitInvariant, DaemonStepKeepsInvariant, PTL DEF DaemonSpec

-----------------------------------------------------------------------------
(* The ticks, in each life of the daemon *)

\* What is proved of the two threads by themselves.
Live == INSTANCE SitterWorkerProofs WITH wpc <- tpc

\* They are the threads of the daemon.
LEMMA SameThreads ==
    /\ Threads!Init => Live!Init
    /\ [Threads!Next]_threadVars => [Live!Next]_(Live!vars)
<1>1. Threads!Init => Live!Init
    BY DEF Live!Init, Threads!Init, Live!Connections, Threads!Connections
<1>2. /\ Live!FluidReady <=> Threads!FluidReady
      /\ Live!ProcessTimeout <=> Threads!ProcessTimeout
      /\ Live!ProcessStop <=> Threads!ProcessStop
      /\ Live!ProcessWorkerDone <=> Threads!ProcessWorkerDone
    BY Zenon DEF Live!FluidReady, Live!ProcessTimeout, Live!ProcessStop,
                 Live!ProcessWorkerDone, Live!BeginStop, Live!Dispatch,
                 Live!IsRunning, Live!Signalled, Live!WorkerHoldsMutex, Live!mainVars,
                 Threads!FluidReady, Threads!ProcessTimeout, Threads!ProcessStop,
                 Threads!ProcessWorkerDone, Threads!BeginStop, Threads!Dispatch,
                 Threads!IsRunning, Threads!Signalled, Threads!WorkerHoldsMutex,
                 Threads!mainVars
<1>3. /\ Live!StopThread <=> Threads!StopThread
      /\ Live!Wakeup <=> Threads!Wakeup
      /\ Live!Join <=> Threads!Join
      /\ Live!RemoveConnections <=> Threads!RemoveConnections
      /\ Live!LoopEnds <=> Threads!LoopEnds
    BY Zenon DEF Live!StopThread, Live!Wakeup, Live!Join, Live!RemoveConnections,
                 Live!LoopEnds, Live!IsRunning, Live!Signalled,
                 Live!WorkerHoldsMutex,
                 Threads!StopThread, Threads!Wakeup, Threads!Join,
                 Threads!RemoveConnections, Threads!LoopEnds, Threads!IsRunning,
                 Threads!Signalled, Threads!WorkerHoldsMutex
<1>4. /\ Live!LoadPlugins <=> Threads!LoadPlugins
      /\ Live!TestLoop <=> Threads!TestLoop
      /\ Live!LockMutex <=> Threads!LockMutex
      /\ Live!TestWait <=> Threads!TestWait
      /\ Live!TakeTicks <=> Threads!TakeTicks
      /\ Live!WaitForTick <=> Threads!WaitForTick
    BY Zenon DEF Live!LoadPlugins, Live!TestLoop, Live!LockMutex, Live!TestWait,
                 Live!TakeTicks, Live!WaitForTick, Live!ContinueRunning,
                 Live!WorkerHoldsMutex, Live!Goto, Live!mainVars,
                 Threads!LoadPlugins, Threads!TestLoop, Threads!LockMutex,
                 Threads!TestWait, Threads!TakeTicks, Threads!WaitForTick,
                 Threads!ContinueRunning, Threads!WorkerHoldsMutex, Threads!Goto,
                 Threads!mainVars
<1>5. /\ Live!SpuriousWakeup <=> Threads!SpuriousWakeup
      /\ Live!StartRun <=> Threads!StartRun
      /\ Live!SkipRun <=> Threads!SkipRun
      /\ Live!EndRun <=> Threads!EndRun
      /\ Live!PluginThrows <=> Threads!PluginThrows
      /\ Live!Leave <=> Threads!Leave
      /\ Live!ThreadEnds <=> Threads!ThreadEnds
    BY Zenon DEF Live!SpuriousWakeup, Live!StartRun, Live!SkipRun, Live!EndRun,
                 Live!PluginThrows, Live!Leave, Live!ThreadEnds,
                 Live!ContinueRunning, Live!Goto, Live!mainVars,
                 Threads!SpuriousWakeup, Threads!StartRun, Threads!SkipRun,
                 Threads!EndRun, Threads!PluginThrows, Threads!Leave,
                 Threads!ThreadEnds, Threads!ContinueRunning, Threads!Goto,
                 Threads!mainVars
<1>6. UNCHANGED threadVars => UNCHANGED Live!vars
    BY DEF Live!vars, Live!mainVars, threadVars
<1>7. Live!Terminated <=> Threads!Terminated
    BY DEF Live!Terminated, Live!vars, Live!mainVars,
           Threads!Terminated, Threads!vars, Threads!mainVars
<1>8. Live!Next <=> Threads!Next
    BY <1>2, <1>3, <1>4, <1>5, <1>7, Zenon
       DEF Live!Next, Live!StopStep, Live!WorkerStep,
           Threads!Next, Threads!StopStep, Threads!WorkerStep
<1> QED BY <1>1, <1>6, <1>8

\* A process that was killed is over; in any other the threads are as they should be.
LivesInv ==
    /\ ending = "killed" => mpc = "exited"
    /\ ending # "killed" => Live!IInv

LEMMA StartIsInitial == StartDaemon => Live!Init'
<1> SUFFICES ASSUME StartDaemon PROVE Live!Init'
    OBVIOUS
<1> QED BY DEF StartDaemon, Live!Init, Threads!Connections, Live!Connections

\* In a process that is over neither thread takes a step.
LEMMA ThreadsOver ==
    ASSUME mpc = "exited", tpc = "ended", [Threads!Next]_threadVars
    PROVE  UNCHANGED threadVars
<1> USE DEF Threads!mainVars, Threads!Goto, Threads!Dispatch
<1>1. ~ \/ Threads!FluidReady \/ Threads!ProcessTimeout
        \/ Threads!ProcessStop \/ Threads!ProcessWorkerDone
    BY DEF Threads!FluidReady, Threads!ProcessTimeout, Threads!ProcessStop,
           Threads!ProcessWorkerDone
<1>2. ~ \/ Threads!StopThread \/ Threads!Wakeup \/ Threads!Join
        \/ Threads!RemoveConnections \/ Threads!LoopEnds
    BY DEF Threads!StopThread, Threads!Wakeup, Threads!Join,
           Threads!RemoveConnections, Threads!LoopEnds
<1>3. ~(Threads!WorkerStep \/ Threads!SpuriousWakeup)
    BY DEF Threads!WorkerStep, Threads!SpuriousWakeup, Threads!LoadPlugins,
           Threads!TestLoop, Threads!LockMutex, Threads!TestWait,
           Threads!TakeTicks, Threads!WaitForTick, Threads!StartRun,
           Threads!SkipRun, Threads!EndRun, Threads!PluginThrows,
           Threads!Leave, Threads!ThreadEnds
<1>4. Threads!Terminated => UNCHANGED threadVars
    BY DEF Threads!Terminated, Threads!vars, threadVars
<1> QED BY <1>1, <1>2, <1>3, <1>4 DEF Threads!Next, Threads!StopStep

\* A life that is not cut by a kill keeps the invariant, and the next one starts with it.
LEMMA StepKeepsLives == DInv /\ LivesInv /\ [DaemonNext]_daemonVars => LivesInv'
<1> SUFFICES ASSUME DInv, LivesInv, [DaemonNext]_daemonVars PROVE LivesInv'
    OBVIOUS
<1>1. CASE ThreadsStep \/ BeginPlugins \/ PluginsStep \/ Throw \/ Exit \/ Outside
    <2>1. [Live!Next]_(Live!vars)
        BY <1>1, StepOfThreads, SameThreads
    <2>2. Live!IInv => Live!IInv'
        BY <2>1, Live!StepKeepsInvariant, DaemonAssumption
    <2>3. CASE Exit
        <3>1. mpc = "loop" /\ ending' # "killed"
            BY <2>3 DEF Exit, Threads!LoopEnds, DInv, Reporting
        <3> QED BY <2>2, <3>1 DEF LivesInv
    <2>4. CASE ThreadsStep \/ BeginPlugins \/ PluginsStep \/ Throw \/ Outside
        <3>1. ending' = ending
            BY <2>4 DEF ThreadsStep, BeginPlugins, PluginsStep, Throw, Outside
        <3>2. CASE ending = "killed"
            <4>1. mpc = "exited" /\ tpc = "ended"
                BY <3>2 DEF LivesInv, DInv, Over
            <4>2. mpc' = mpc
                BY <1>1, <4>1, StepOfThreads, ThreadsOver DEF threadVars
            <4> QED BY <3>1, <3>2, <4>1, <4>2 DEF LivesInv
        <3> QED BY <2>2, <3>1, <3>2 DEF LivesInv
    <2> QED BY <1>1, <2>3, <2>4
<1>2. CASE Kill
    BY <1>2 DEF Kill, LivesInv
<1>3. CASE StartDaemon
    <2>1. Live!IInv'
        BY <1>3, StartIsInitial, Live!InitInvariant, DaemonAssumption, PTL
    <2> QED BY <1>3, <2>1 DEF StartDaemon, LivesInv
<1>4. CASE UNCHANGED daemonVars
    <2>1. UNCHANGED threadVars /\ ending' = ending /\ mpc' = mpc
        BY <1>4 DEF daemonVars, threadVars
    <2>2. Live!IInv => Live!IInv'
        BY <2>1, SameThreads, Live!StepKeepsInvariant, DaemonAssumption
    <2> QED BY <2>1, <2>2 DEF LivesInv
<1> QED BY <1>1, <1>2, <1>3, <1>4 DEF DaemonNext

\* In every life of the daemon, unless it was killed, the two threads keep the invariant
\* of SitterWorker, with runs of many steps, reports and the restarts of systemd.
THEOREM LivesKeepInvariant == DaemonSpec => []LivesInv
<1>1. DaemonInit => LivesInv
    <2>1. Live!Init => Live!IInv
        BY Live!InitInvariant, DaemonAssumption
    <2> QED BY <2>1, SameThreads DEF DaemonInit, LivesInv
<1> QED BY <1>1, DaemonInitInvariant, DaemonStepKeepsInvariant, StepKeepsLives, PTL
    DEF DaemonSpec

\* A process that runs, whichever life it is in, has lost none of its ticks and started no
\* run without one, does not sleep on a tick or on a stop, and never calls a worker
\* that is gone (tick_timer::process_timeout(), sitter_worker::tick()).
THEOREM TicksOfEachLife ==
    DaemonSpec => [](mpc # "exited" => /\ Live!TickConservation /\ Live!NoRunWithoutTick
                                       /\ Live!NoLostWakeup /\ Live!TimerHasWorker
                                       /\ Live!WorkerOutlived)
<1>1. LivesInv => (mpc # "exited" => /\ Live!TickConservation /\ Live!NoRunWithoutTick
                                     /\ Live!NoLostWakeup /\ Live!TimerHasWorker
                                     /\ Live!WorkerOutlived)
    BY DEF LivesInv, Live!IInv, Live!TypeOK, Live!StopOrder, Live!WorkerKept,
           Live!TickCount, Live!Waiting, Live!Woken, Live!TickConservation,
           Live!NoRunWithoutTick, Live!NoLostWakeup, Live!TimerHasWorker,
           Live!WorkerOutlived, Live!Dispatch
<1> QED BY <1>1, LivesKeepInvariant, PTL

\* Each life implements TickService: it starts with nothing pending, and each step until
\* it is killed is one that TickService allows, through reports and exceptions.
THEOREM EachLifeServesTicks ==
    DaemonSpec => [][\/ Kill
                     \/ mpc = "exited" /\ StartDaemon /\ Live!TS!Init'
                     \/ [Live!TS!Next]_(Live!TS!vars)]_daemonVars
<1>1. ASSUME DInv, LivesInv, [DaemonNext]_daemonVars
      PROVE  \/ Kill
             \/ mpc = "exited" /\ StartDaemon /\ Live!TS!Init'
             \/ [Live!TS!Next]_(Live!TS!vars)
    <2>1. UNCHANGED threadVars => UNCHANGED Live!TS!vars
        BY DEF threadVars, Live!TS!vars, Live!Closing, Live!InHand
    <2>2. CASE ThreadsStep \/ BeginPlugins \/ PluginsStep \/ Throw \/ Exit \/ Outside
        <3>1. [Threads!Next]_threadVars
            BY <2>2, StepOfThreads
        <3>2. CASE ending = "killed"
            <4>1. mpc = "exited" /\ tpc = "ended"
                BY <1>1, <3>2 DEF LivesInv, DInv, Over
            <4> QED BY <2>1, <3>1, <4>1, ThreadsOver
        <3>3. CASE ending # "killed"
            <4>1. Live!IInv /\ [Live!Next]_(Live!vars)
                BY <1>1, <3>1, <3>3, SameThreads DEF LivesInv
            <4> QED BY <4>1, Live!StepMaps, DaemonAssumption
        <3> QED BY <3>2, <3>3
    <2>3. CASE StartDaemon
        <3>1. Live!Init'
            BY <2>3, StartIsInitial
        <3>2. Live!TS!Init'
            BY <3>1, Live!InitMaps, DaemonAssumption, PTL
        <3> QED BY <2>3, <3>2 DEF StartDaemon
    <2>4. CASE UNCHANGED daemonVars
        BY <2>1, <2>4 DEF daemonVars
    <2> QED BY <1>1, <2>2, <2>3, <2>4 DEF DaemonNext
<1> QED BY <1>1, DaemonInitInvariant, DaemonStepKeepsInvariant, LivesKeepInvariant, PTL
    DEF DaemonSpec

=============================================================================
