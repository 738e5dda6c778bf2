--------------------------- MODULE StatisticsFiles ---------------------------
(***************************************************************************)
(* The files of the data directory.  Every run of the plugins saves its    *)
(* readings in a file named after the minute the run started in, modulo    *)
(* the statistics period, so the files of one period are reused by the     *)
(* next one.  A run starts at a tick of the timer or, when the tick came   *)
(* during the run before, after that run; ticks that wait together start   *)
(* one run.  A daemon waits one minute for its first tick and the frequency *)
(* of the statistics for each one after it.                                *)
(*                                                                         *)
(* The length of a minute is a parameter, so that a model needs only a few *)
(* instants.  The variables after `files` are history.                     *)
(***************************************************************************)
EXTENDS Integers

CONSTANTS
    Minute,     \* 60 seconds
    Period,     \* get_statistics_period(): whole hours, thus whole minutes
    Frequency,  \* get_statistics_frequency(): at least a minute
    MaxTime     \* bound of the clock

ASSUME TimesAssumption ==
    /\ Minute \in Nat \ {0}
    /\ Period \in Nat \ {0} /\ Period % Minute = 0
    /\ Frequency \in Nat /\ Frequency >= Minute
    /\ MaxTime \in Nat

VARIABLES
    now,       \* the clock
    begun,     \* when this daemon started
    nextTick,  \* when the timer is due
    pending,   \* ticks wait for the worker
    wpc,       \* the worker: "idle", "running" or "down"
    startDate, \* when the current or last run started
    files,     \* the start of the run saved under each name, or None
    starts,    \* history: the starts of the last three runs, the last one first
    ages       \* history: the ages, in minutes, of the readings overwritten

vars == <<now, begun, nextTick, pending, wpc, startDate, files, starts, ages>>

None == -1
Names == 0..(Period - 1)
MinuteOf(date) == date \div Minute

\* Mutant: the last minute of the period is left out.
NameOfShortPeriod(date) == ((date \div Minute) * Minute) % (Period - Minute)

\* run_plugins(): the name of the file.
Name(date) == ((date \div Minute) * Minute) % Period

\* The timer is made to go off after a minute, whatever the frequency.
Init ==
    /\ now = 0
    /\ begun = 0
    /\ nextTick = Minute
    /\ pending = FALSE
    /\ wpc = "idle"
    /\ startDate = 0
    /\ files = [name \in Names |-> None]
    /\ starts = <<None, None, None>>
    /\ ages = {}

\* The timer goes off, perhaps late, and is armed again from then on.
Tick ==
    /\ wpc # "down"
    /\ now >= nextTick
    /\ pending' = TRUE
    /\ nextTick' = now + Frequency
    /\ UNCHANGED <<now, begun, wpc, startDate, files, starts, ages>>

\* Mutant: the run takes one tick, and leaves the others for the next run.
StartRunForOne ==
    /\ wpc = "idle"
    /\ pending
    /\ pending' \in BOOLEAN
    /\ wpc' = "running"
    /\ startDate' = now
    /\ starts' = <<now, starts[1], starts[2]>>
    /\ UNCHANGED <<now, begun, nextTick, files, ages>>

\* The worker takes all the ticks there are.
StartRun ==
    /\ wpc = "idle"
    /\ pending
    /\ pending' = FALSE
    /\ wpc' = "running"
    /\ startDate' = now
    /\ starts' = <<now, starts[1], starts[2]>>
    /\ UNCHANGED <<now, begun, nextTick, files, ages>>

\* The readings are saved under the name of the start of the run.
SaveRun ==
    /\ wpc = "running"
    /\ wpc' = "idle"
    /\ files' = [files EXCEPT ![Name(startDate)] = startDate]
    /\ ages' = IF files[Name(startDate)] = None THEN ages
               ELSE ages \cup {MinuteOf(startDate) - MinuteOf(files[Name(startDate)])}
    /\ UNCHANGED <<now, begun, nextTick, pending, startDate, starts>>

\* No plugin has a result, no data path is configured, or the file cannot be
\* written, which nobody checks and which may leave it empty.
SaveNothing ==
    /\ wpc = "running"
    /\ wpc' = "idle"
    /\ files' \in {files, [files EXCEPT ![Name(startDate)] = None]}
    /\ UNCHANGED <<now, begun, nextTick, pending, startDate, starts, ages>>

Advance ==
    /\ now < MaxTime
    /\ now' = now + 1
    /\ UNCHANGED <<begun, nextTick, pending, wpc, startDate, files, starts, ages>>

Crash ==
    /\ wpc # "down"
    /\ wpc' = "down"
    /\ UNCHANGED <<now, begun, nextTick, pending, startDate, files, starts, ages>>

\* A new daemon finds the files and makes its timer; no tick waits.
Restart ==
    /\ wpc = "down"
    /\ wpc' = "idle"
    /\ pending' = FALSE
    /\ begun' = now
    /\ nextTick' = now + Minute
    /\ UNCHANGED <<now, startDate, files, starts, ages>>

Next ==
    \/ Tick \/ StartRun \/ SaveRun \/ SaveNothing
    \/ Advance \/ Crash \/ Restart

Spec == Init /\ [][Next]_vars

-----------------------------------------------------------------------------
(* Correctness *)

\* The type of every variable: in particular every name is one of the period.
TypeOK ==
    /\ now \in 0..MaxTime
    /\ begun \in 0..now
    /\ nextTick \in Nat
    /\ pending \in BOOLEAN
    /\ wpc \in {"idle", "running", "down"}
    /\ startDate \in 0..now
    /\ files \in [Names -> (0..now) \cup {None}]
    /\ starts \in Int \X Int \X Int
    /\ ages \subseteq Nat

\* A reading is only overwritten when it is a whole period old, or by a run that
\* started in the same minute.
KeptUnlessSameMinute == \A age \in ages : age = 0 \/ age * Minute >= Period

\* Two runs may start in the same minute, when the first one had to wait for the
\* run before it; three never do, however often the daemon is restarted, because
\* ticks that wait together start one run and a new daemon waits a minute for its
\* first tick.  So at most one reading of a minute is lost.  The frequency holds
\* between the first and the last of three runs of one daemon; a restart between
\* them leaves only the minute.
NoThirdRunSoon ==
    /\ starts[3] # None => starts[1] - starts[3] >= Minute
    /\ starts[3] > begun => starts[1] - starts[3] >= Frequency

=============================================================================
