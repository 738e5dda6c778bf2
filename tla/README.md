# A verification of sitter

`sitter` is a daemon that wakes up about once a minute, runs a set of plugins
that look at the machine it runs on, saves what they found, and sends an email
when something is wrong. This directory holds TLA+ models of it, the TLC
configurations that check them and proofs, checked by TLAPS, of some of their
properties. Source paths below are relative to the root of the repository.

## The system

| component | state it keeps | operations | talks to |
|---|---|---|---|
| event loop (`sitter/sitter.cpp`, `tick_timer`, `interrupt`, `worker_done`) | connections, timer, `f_stopping`, the two pointers to the worker | timer, SIGINT, STOP, end of the worker, `server::stop()` | the worker thread: ticks, wakeup, join |
| worker thread (`sitter/sitter_worker.cpp`) | `f_ticks` under `f_mutex`, the loaded plugins | `tick`, `wakeup`, `wait_next_tick`, `run_plugins`, `enter`, `leave` | the server: ticks, errors, settings |
| settings (getters of `sitter.cpp`, `clear_cache`) | options, cached values | getters (worker), clear (main thread, when fluid-settings changes a value) | both threads, without a lock |
| error report (`append_error`, `report_error`, `get_cache_path`) | error count, highest priority, `last_email_time.txt` | append, decide, save the date, send | every plugin; the mailer; tmpfiles |
| statistics files (`run_plugins`) | `<minute modulo period>.json` | one write per run | nobody in this repository reads them |
| reboot, cpu, certificate, network plugins | a date in a cache file, a map in memory, dates of the connection | one `on_process_watch` per run | `append_error`; tmpfiles removes files |
| packages plugin | definitions, answers in memory and in a file | load, query, check, save | dpkg; a cron job removes the file |
| processes plugin | definitions, backends read once | load, list, match, report | systemd, configuration files |
| log plugin | definitions, `f_found` | load, glob, stat, report | logrotate and whoever writes logs |
| disk plugin | the handler of SIGALRM, an alarm | `statvfs_try` per mount | the kernel |
| scripts plugin | two logs, the script at hand | glob, start, wait, two logs, two errors, one script after the other | any executable of a directory; `append_error` |
| flags, apt, memory, firewall plugins | nothing | one reading and its errors per run | files of `/proc` and of cron; `append_error` |
| `sys_stats` | the values of four files of `/proc`, which it has read | one getter per value | the cpu plugin |
| daemon entry point (`daemon/sitter.cpp`) | the process | `run()`; systemd starts it again | everything above ends with it |
| `record_usage`, find-process tool, version, log searches | nothing | | see *Not modelled* |

What is hard in it:

* **Two threads.** `server::stop()` may be called by a signal, a message or the
  death of the worker, and it blocks the event loop until the worker has ended.
  The settings are shared without a lock.
* **Time.** Late timers, long runs, durations measured across restarts.
* **Files that outlive the process**, written without a lock by a daemon that
  may die between two steps, and removed by cron and tmpfiles.
* **A machine that changes during a run**: packages, processes, logs, mounts.
* **Configurations** that plugins reduce to something smaller: modes, levels,
  overlapping definitions.

What makes each component correct is stated in the *Correctness* section at the
end of its module. `PROJECT.json` lists the hazards by source line, with the
properties that cover each.

## The modules

| module | models |
|---|---|
| `TickService` | abstract: what the daemon promises about its ticks |
| `SitterWorker` | the two threads; implements `TickService` |
| `SitterWorkerProofs` | theorems about it |
| `Settings` | what each getter makes of a text: bounds and defaults |
| `SettingsCache` | the cached settings, read by one thread and cleared by the other; extends `Settings` |
| `SettingsCacheProofs` | theorems about it |
| `ErrorReport` | from errors to emails: what the report promises, whoever runs it |
| `Daemon`, `DaemonProofs` | the process: `SitterWorker` and `ErrorReport` together, killed, stopped and started again; implements `ErrorReport`; theorems about both |
| `StatisticsFiles`, `StatisticsFilesProofs` | the files of the data directory |
| `PluginAlarms` | the alarms that grow with time, of four plugins (the certificate plugin has two) |
| `RunErrors` | `clear_errors()`, `append_error()`, `output_process()` and the document of a run |
| `Readings` | the apt, memory, flags and firewall plugins; extends `RunErrors` |
| `Scripts` | the scripts plugin; extends `RunErrors` |
| `SysStats` | `sys_stats`, as the cpu plugin asks it |
| `PluginRun` | runs of these plugins; composes the four modules above |
| `PluginProofs` | theorems about `PluginRun` and about `PluginAlarms` |
| `Packages`, `PackagesProofs` | the packages plugin |
| `Processes`, `ProcessesProofs` | the processes plugin |
| `LogMode`, `LogFiles` | the modes of log files; the log plugin, which extends it |
| `DiskWatch` | the disk plugin |
| `WatchProofs` | theorems about `DiskWatch` and about `LogFiles` |

The `MC...` modules give constants their values. A definition named as one of
the mutants of `PROJECT.json` (its comment says *Mutant* or *Faulty*) is a
plausible bug in a definition that follows it, and is used by no specification:
each property is violated when its mutant takes the place of the original.

### SitterWorker

`mpc` is where the main thread is: `"loop"`, a step of `server::stop()`, or
`"exited"`. `wpc` is where the worker is: loading plugins, at a test of
`continue_running()`, at the mutex, waiting, running, leaving. A handler of the
event loop is one step, except `stop()`. A critical section of the main thread
is one step that needs the mutex to be free. The worker's is several, because
the flag it tests there is not protected by that mutex. `SpuriousWakeup` is a
wait that ends by itself; `PluginThrows` is an exception that leaves
`run_plugins()`.

Assumed of the libraries: a connection that was removed is not called back,
`thread::stop()` raises the flag, calls the callback and joins; `is_running()` is
true until the thread is over. Whether `thread::stop()` throws the exception of
the worker again decides on the exit status only, thus on a restart by systemd,
and is left out.

`TickService` knows of pending ticks, of a run and of three phases. The mapping
counts the ticks the worker has taken but not yet started a run for as pending.

### Settings, SettingsCache

A text is the number of its fields and what the conversion makes of the first
two. A getter of the worker is one step for each access to what the threads share:
the test of the cache, the two defaults, the read of the text, the number as it is
converted into the member and then clamped there, the span likewise, the return. The
getter of the TTL calls the one of the period, which goes through steps of its own
(`StartPeriod` to `ReturnPeriod`). `clear_cache()` is a step for each member. These are
data races in the code; each access is taken to be of one whole value, and a member
that is read again may have the value at hand or the one of now. The names
`clear_cache()` compares have no `sitter::` prefix, and the model takes them to be those
fluid-settings sends.

The bounds are the constants of the code. `conf/sitter.conf` also bounds the priority
and the span of a level by those of the other levels; no getter looks at another level,
so neither does the model (a finding).

### ErrorReport

`BeginRun`, `AppendError`, `EndRun`, `Decide`, `Save` or `SaveFails`, `Send`
follow `run_plugins()` and `report_error()`; `Crash` may come between any two.
The file holds a date, nothing, or something that is no date. `MkdirSuccess` is
what `mkdir_p()` returns when the directory exists: `get_cache_path()` takes 0
for a failure and `record_usage()` takes 0 for the success, so one of them is
wrong. The run takes the side of `get_cache_path()`; the theorems hold for either, as a
path that is empty makes the date one that could not be written (`lost`). The settings
are constant here.

### Daemon

`ErrorReport` alone may be cut anywhere and restarted at will. `Daemon` says by
whom. It INSTANCEs `SitterWorker` for the threads (its `wpc` is `tpc` here) and
EXTENDS `ErrorReport`: the position `"run"` of the worker of the one is the four
positions of a run of the other. Each action is one of the two modules or one of
both at once. `BeginPlugins` is a `StartRun` and a `BeginRun`; a step of
`PluginsStep` after which the report is over is also the end of the run, or the
exception, of the worker. `Throw` is an exception at any other step: of a plugin, of
the file of statistics, or of the email once the date was saved, as nothing between
`run()` of the worker and the email catches one. `Exit` is `main()` that returns after
`stop()`, and takes what the worker is doing with it; `Kill` ends the process at any
step; `StartDaemon` keeps the files only. `ending` records where the report was, so
that `ReportNotCut` can say that only an exception in it or a kill leaves it between
the date and the email: SIGINT, STOP and fluid-settings do not.

### StatisticsFiles

The first wait of a process is a minute, whatever the frequency (the constructor of
`tick_timer`). `Tick` is the timer, perhaps late, and arms itself with the frequency
from then on. `Restart` waits a minute again; `begun` is when the process started. `StartRun`
takes the ticks that wait, `SaveRun` writes the file of the minute the run
*started* in, modulo the period. `SaveNothing` is a run without results, without
a data path, or whose write failed, which nobody checks. The period is constant.

### PluginAlarms

The plugins share nothing but the clock, so a behaviour is about one of those
`Explored`, `plugin`, in the unit of its dates. `holds` is what it watches for: a file, a
load, a certificate that cannot be loaded or whose date cannot be read, a connection.
`expiry` is the certificate that was loaded, whose `notAfter` may be unreadable, which
is an error of 90 on its own; `access` the domain that could not be reached. `date` is what the plugin
remembers of it. `WriteDate` may fail, `Restart` loses what is in memory,
`CleanCache` removes old files. The network plugin is taken to find the process
of the communicatord, without which it reports 99 and looks no further. Nothing
ever records that a connection was lost, so `holds` changes once there. A streak is one
of calls: when a requirement is dropped and raised again between two calls, the plugins
cannot tell, and neither can `AlarmOfStreak`.

`OutageNotSilent` says what the five hours of the certificate plugin are for: whatever
lies between, a call that finds the domain out of reach is never more than five hours
after the last error about it. `lastError` is that error, a history that a restart does
not lose while it loses the map.

`parse_delays()` validates each delay and does not sort them, although its
documentation expects them sorted: `AlarmRises` says of a certificate that its alarm
does not become less urgent when they are (`DelaysSorted`). Without that condition it
is false: a delay of 3 days at 10 and one of 9 days at 90 lower the alarm as the end
comes closer. `Delays` are the keys of a map, so no two have the same number of days.

### PluginRun

A run is `BeginRun`, one turn for each plugin of `loaded` in any order, as nothing
fixes the order of the listeners, and `EndRun`, which mails the document or not: never
without an error, otherwise as the settle time, the levels and the span may have it,
which are in `ErrorReport`. `sent` are the runs that were mailed.
The four plugins of `Readings` read one thing at one moment and take one step. `cpu` takes
one for each of its fifteen questions, with `Work`, the machine, in between;
`scripts` takes one to start a script, one for its end, and one for each log and
each error. `Crash` ends the process at any step. An error whose priority is
out of bounds is counted, then thrown, and ends the run.

What a file of `/proc` says is the `moment` it was read at, `Unread` when nothing
was: what matters is which reading a value is from. A file that can be opened
has all its values. `HighMemoryUsage` compares as floating point does when the
total is 0. What a script did is any of the eight combinations of failing, writing
and writing errors. A log holds whose output of which run it is from;
`LogsAreMailed` is about the runs in `sent`.

### Packages, Processes, LogFiles, DiskWatch

One step for each query, process, file or system call, with the machine changing
in between; `errors` is what the run reported.

* `Packages`: `memory` and `file` are the two caches, of which each entry is
  `Unknown` or an answer; `ever` is, as history, what was installed once. dpkg-query
  may say that an installed package is not (it fails, or its answer is quoted).
  `SaveCut` is a write that is cut in a line.
* `Processes`: `newline` says whether the untrimmed output of systemctl ends in
  one, `reads` whether `contents()` reads the file of the maintenance. Both
  answers are explored, as both are about libraries.
* `LogFiles`: `LogMode` reduces the text of a mode as the code does, and states
  what the README of the definitions says. A mode is the set of its bits, a
  mask is intersected with it; the product of the letters is done on numbers, as
  in the code, and then taken apart. `Documented` are the texts for which the code
  does what that README says: numbers, and the letters `s` and `t`, unless the mode
  is null, which the code never tests (a finding). A path is the sequence of its
  parts, and a file is matched by one directory and one pattern.
* `DiskWatch`: the steps of `statvfs_try()`, with an alarm that may fire at each
  of them and be given to any thread. Nothing else sets an alarm, so the part that
  puts back somebody else's is never reached. `Ignored` are the mounts whose whole
  directory a pattern matches; `BadPatterns` says whether `disk_ignore` may have a
  pattern that `std::regex` refuses, which ends the worker when a mount is nearly full.

advgetopt keeps the files it has read, so definitions change with a restart.

## The runs

| run | question | bounds |
|---|---|---|
| `worker` | Is a tick or a wakeup lost? Is anything used after it is gone? Do stops end? Is `TickService` implemented, liveness included? | four ticks: one during a run, two coalesced, one after a wait |
| `settings` | When is a setting stale? Only after a getter that overlapped a change of it. What may a getter return, overlapped or not? | one setting of each kind, with texts in and out of bounds |
| `settings_span` | *Violated:* the span of a level has a minimum | one level, a text with a span and one without |
| `report` | In a daemon of two threads that is stopped, killed and started again: are emails a span apart and about their own run, for which reasons are errors dropped, does a stop let a report finish? | six instants, spans of 4, 2 and 1, a retention of 3, a settle time of 1, two errors a run, two ticks a life, a priority of each level and an invalid one |
| `statistics` | What is overwritten, and when? | a period of three minutes of two instants each, a frequency of two minutes and a half, eighteen instants: almost three periods |
| `alarms` | Do alarms follow what was seen, and only rise? | 34 units of time: past the last step of every priority |
| `packages` | Does a run see one state? Is anything made up? | three packages, six configurations: pairs in conflict, and one package between two others |
| `plugins` | Is what is mailed what the plugins said? Is each script judged by itself? Are values that are compared of one moment? Is silence justified? | two runs, two scripts and the README, three lists of plugins, three moments, readings on each side of each limit |
| `processes` | Is a process counted once? Is what is missing missing? | three processes, one service, four configurations |
| `logs` | Is each definition judged by its own files? Are modes those of the text? | three files, two stats, six configurations |
| `disk` | Does SIGALRM ever find its default action? Does one drive hide another? Do runs end? | two mounts, one of them ignored, a usage on each side of each level, a list of patterns that may have a bad one |
| `disk_hang` | *Violated:* `statvfs_try()` times out | one mount |

The bounds are small because the hazards are about order, not about number: two
actors and one item more than they contend for. The bounds on the clock and on the
ticks are guards of actions, which the theorems do not depend on. Two runs are
what it takes for something of a run to be left in the next one; two ticks for a
tick to come during a run; three packages for one that has a conflict on each
side. `report` has spans of one to four units, so that each level's span ends
within six instants while a longer one goes on, and a retention between the longest span
and the others, so that the file may be gone before its span is over. `statistics` has a
frequency that is more than the first wait and no multiple of it, so that restarts bring
runs closer to each other than ticks do.

Deadlock is checked in every run. The end of the daemon is a step that changes
nothing in `SitterWorker`, as is the end of the last run of the bound in `PluginRun`;
elsewhere a service that is down is started again.

### Fairness

* `SitterWorker`: `WF(WorkerStep)` and `WF(StopStep)`. Both threads are
  scheduled, and plugins return. There is none on the timer, on messages or on
  signals. A plugin that hangs is outside of it, and then a stop does hang.
* `DiskWatch`: the worker is scheduled, an alarm fires, and a call returns if its
  drive answers again and again (strong fairness: the drive may hang in between).
  No drive has to recover.

The other modules state safety only. That a stop ends is shown in `SitterWorker`,
where a run of the plugins is one step; `Daemon`, where it is many and a kill may
come at any time, states no fairness.

### What the violations show

* `settings_span`: the main thread clears the priority of a level; the worker finds it
  unknown and stores both defaults; the main thread clears the span. The new text has no
  span, so nothing sets it again: the priority is known from then on, and every getter
  returns the span -1, although `conf/sitter.conf` gives it a minimum of a day. With it,
  a report is sent at each run, until the setting changes again.
* `disk_hang`: `alarm()` sends a signal to the process. If another thread gets
  it, or if it fires before the call is entered, the worker stays in the call.

`PROJECT.json` lists other disagreements met while reading, which no run is spent
on: among them, that the status of a package is asked once in the life of the daemon
and not once a day, as cron removes the file but not the answers in memory. The
properties of the passing runs are stated so as to leave them out by name: `Refused`
the third field of a critical priority and an invalid settle time, `overlap` the settings
a getter and a change touched at once, `Documented` the modes of letters and of zero, `DelaysSorted` the delays that
are not, `lost` the dates that could not be written.

## The proofs

TLAPS checks these for every value of the constants that satisfies the
assumptions of the modules.

**SitterWorker** (`MaxTicks` any number). `IInv` adds to the types: where the
main thread is in `stop()` decides which flags are up and which connections are
left (`StopOrder`); the worker object is there until `Join` (`WorkerKept`); the
ticks that fired are those served and those in `f_ticks`, until the wakeup of a
stop overwrites it (`TickCount`); a waiting worker has nothing to wait for
(`Waiting`). The properties alone are not inductive: that the timer has a worker
depends on the order of `Join` and `RemoveConnections` through `mpc`. From it
follow `TickConservation`, `NoRunWithoutTick`, `NoLostWakeup`, `TimerHasWorker`,
`WorkerOutlived`, `NoNewRunOnceStopping`, and, step by step under the mapping,
that `SitterWorker` implements the safety part of `TickService`.

**ErrorReport** (any priorities, levels, spans, settle time and retention, and either
answer of `mkdir_p()`). `EmailSpan` looks at a decision about to be carried out, while
the date that justifies it may be in the file, gone with the file, or in a variable of
the worker. `Recorded` relates them: the file is as recent as the last email, or that
email is older than the retention, or the date could not be written, which `lost` says.
So two emails are apart by `LeastTime`: the span, or the retention when it is shorter,
as `conf/sitter.conf` sets no maximum for a span while `tmpfiles` removes the file.
`EmailSpan` and `ReportsThisRun` follow, and the action property `DroppedForAReason`: a
run that ends without a report, although its errors are of a level that is reported, is
one that took less than the settle time, or comes within the span of its own level after
a report that was let through, whatever became of that one. The first of the two reasons
has no end: such a run is dropped each time (a finding about the settle time).

**Daemon** (what `ErrorReport` assumes, and any number of ticks).
`ImplementsErrorReport` shows, action by action, that each step of the daemon is a
step of `ErrorReport` or leaves it alone; the theorems above are then those of the
daemon. For `ReportNotCut`, `StepOfThreads` shows that a step which neither kills nor
starts the process is one of `SitterWorker`, and `Over` that the worker is over
wherever the main thread is past the join; as the report is under way exactly while
the worker is in a run (`DInv`), it is over too. `ReportNotCut` by itself says
nothing about a process that runs, so it is not inductive.
In the other direction, what is proved of the threads alone is true of each life of
the daemon: `SameThreads` identifies the two, `LivesInv` says that `IInv` of
`SitterWorker` holds unless the process was killed, and a process that is over takes no
step (`ThreadsOver`), so that a kill is forgotten at the next start. From it follow
`TicksOfEachLife`, and `EachLifeServesTicks`: a start is the initial state of
`TickService`, and each step until a kill is one of its steps or a stutter.

**SettingsCache** (any settings in use, any texts). That the cache is coherent
when nobody touches it is brought about by a getter step by step. `Progress` says
what the members of a setting are at each step of its getter, `Cleared` what they
are between the two stores of a change, `GetterRight` that a getter which met
no change of its setting works on the current text, and `PeriodRight` the same of the
getter of the period inside the one of the TTL. `CoherentUnlessOverlap`
follows, and `ArmedWithCurrentFrequency`, for which the frequency is only read and
cleared by one thread. That a fresh value depends on the text of its own setting,
and of the period for the TTL, is `FreshLocal`.

**StatisticsFiles** (any minute, any period that is a number of minutes, any
frequency of a minute or more). `TypeCorrect`: every file has a name of the period.
`Named` says that a reading is under its own name, `Apart` that the timer and the last
three starts are a minute apart over any restarts, and `ApartInALife` that they are a
frequency apart when the process has not been restarted since. The arithmetic, that
equal names are equal minutes or a period apart, is in `Congruent` and
`SameName`. `KeptUnlessSameMinute` and `NoThirdRunSoon` follow.

**Packages** (any packages and configurations). `InventsNothing` needs that a
package that is installed was (`Honest`). `ConflictsAgree` is about the end of a
run: `Judged` says of each definition already looked at what was asked and what was
reported, in terms of the answers in memory, and `JudgedKept` that later questions
do not change it, as an answer once given is the one every question of the run
gets. `Current` says the same of the conflicts of the definition at hand, as far
as they were looked at.

**Processes** (any definition files, processes and services). What is reported
missing depends on three histories of the run, and the invariant follows each in the
entries that are left in the list. `FromFiles` says that they are what the first
file with their name says, in the order of those files; `Mandatory` that no later
file was forgotten; `Taken` that a process already seen which matches an entry was
taken for an earlier one; `Reported`, with `AskConfFacts`, that what was said of a
backend is what the one reading of the configuration says. `EachTakenOnce`,
`MissingJustified`, `MandatoryKept` and `BackendsAgree` follow.

**SettingsCache, the values.** `GettersStayInBounds` is about the end of every getter,
also of one whose members are cleared under it. It needs a second invariant, `InRange`,
about getters at any step: what is stored is within its bounds, or -1, or a number on
its way to be clamped by this getter, and what is at hand is within them once it was
clamped. A getter that met no change has neither been cleared nor overtaken (`Progress`,
`GivenFresh`). `PriorityBounds`, `DurationBounds` and `PeriodAsTtl` say what each
conversion may give. That the value of a getter which was overlapped is *current* is not
claimed: it need not be.

**PluginRun** (any lists of plugins, readings and scripts, in any order, any number of
runs; `RunAssumption`: a size or a count is unsigned, the priority of a flag is any
int, a glob gives a file once). Five properties, one invariant in parts:
`ProgressInv` says where the lists and turns are; `CountsInv` that the count and the
worst priority are those of the document, which an invalid error leaves without one
before it ends the process; `JudgedInv` what is in the document of each script of
the list, seen or not, and of the one at hand up to its step; `LogsInv` whose output
each log holds, and that it is in the document of this run or, if that run was mailed, in
its email;
`SilentInv` that an object without errors was read as fine; `StatsInv` that members and
answers are of one moment. That the worst of several priorities is a priority, and the
one of the document, needs the greatest element of a finite set (`GreatestInt`).
Induction over finite sets is out of reach, as the library's theorem has an operator
for a parameter; a least counterexample under the strict subset ordering is
not, so `GreatestInt` rests on well-founded induction in its form about sets.
`CountsAreOfDocument`, `ScriptsAreJudged`, `LogsWereMailed`, `SilenceIsFine` and
`StatsAreOfOneMoment` follow.

**PluginAlarms** (any delays with one priority for a number of days, retention and
length of time; `AlarmsAssumption`). `StreakInv` says that the date that
is kept is the first call that agreed (`since`), unless it was lost, and that the alarm is
that of the time between it and the last call: `StreaksAreCounted`. `AlarmsRise` adds
that each priority grows with time (`PrioritiesRise`), and for certificates
`CertificatePriorityRises`, where the shortest delay that is left gives the priority.
`AlarmsType` has as its content that no text of the delays makes a
priority out of range. `OutagesAreReported` joins the date in memory with the last error:
the date, when it is known, is that of the last error, and when a restart has lost it the
next failure is an error at once.

**DiskWatch** (any mounts, ignored mounts and usages). `Guarded` bounds the
positions of the worker in which the alarm is set and the handler is ours, from
which `HandlerWhileArmed` follows. For `SteadyMountsReported`, `Judged` says that
a mount that has been steady is still to be judged or was reported as its usage
requires, `Once` that nothing is reported before that, and `Answered` that a call
that was interrupted, or a wrong answer, is not about a steady mount.

**LogFiles** (any definitions, files, stats and names; `LogsAssumption`: a
configuration and a path are sequences, a mode is none, a number or letters).
`ModeAsDocumented` is about the pure part: for every text that is `Documented` and every
mode of a file, the test of `check_log()` fails exactly when the README's condition does.
It needs that `s` and `t` alone make no bit of a digit (`UpperBitsAlone`), and not
what the digits add up to. In `LogsInv`, `SoFar` says that nothing was seen or reported of a
definition that is still to come, `FoundOwn` that `f_found` is about the one at hand, and
`PresentLooked` that a file which stays is seen or in the queue once its pattern was
looked for. `NoLogsIsMeant`, `SteadyFilesAreChecked` and `ModesAreReported` follow; none
is inductive alone, as each speaks of definitions that are over or of what was seen, and
what is in the queue or in `f_found` decides on both.

Every invariant and action property of the runs that pass is stated by a theorem. Only
checked by TLC, on the instances of the runs, are:

* liveness, which is beyond the prover: `StopCompletes`, `RunsEnd`, and the fairness of
  `TickService` in `ImplementsTickService`, whose safety part is proved;
* what the operators that fold over data compute for each input: `Octal`, the number a
  sequence of digits makes. The theorems hold whatever it is.

## Not modelled

* The parsing of the files of `/proc` and of the definitions: which values it finds is
  in the models, how it finds them is not. Interrupts and context switches, which
  `sys_stats` reads and nothing asks for.
* What the scripts plugin adds to the document besides errors, which is in
  one entry that each script overwrites (a finding).
* The certificates of each domain: one domain stands for all, as they share nothing.
* `record_usage`: one file per message, nothing shared, nothing read back.
* The protocol of the communicatord and of fluid-settings, the mailer, advgetopt:
  other repositories; only their effects here are modelled.
* The searches of the log plugin: the code loads and never uses them.
* The command line of the daemon, the find-process tool, which prints a list, and the
  version, which the build generates.
* Wording, JSON and log messages.

## The plan

Done: the two threads and their abstract service, settings, reports and files, the
plugins with state or races, runs of the other plugins, the process as a whole, and
a theorem for each safety property of the runs.

Next, in this order:

1. The runs of `PluginRun` as those of `ErrorReport`: an error that is appended by a
   plugin is one that the report counts. Several errors in one step of a plugin are
   several steps of the report, so it takes an abstract report in between that counts
   them at once.
2. An abstract specification of a run of a plugin ("each item once, each error
   justified") implemented by `Packages`, `Processes` and `LogFiles`.
3. `SettingsCache` within `Daemon`: a change of a span or of the settle time during a
   report.
