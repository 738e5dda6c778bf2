----------------------------- MODULE ErrorReport -----------------------------
(***************************************************************************)
(* From the errors a run of the plugins appends to the email sent to the   *)
(* administrator: run_plugins() counts the errors and remembers the worst  *)
(* priority, and report_error() sends at most one email per span, a        *)
(* duration that depends on that priority.  The time of the last attempt   *)
(* is in a file of the cache, so it outlives the daemon; the daemon may    *)
(* crash between any two steps, and systemd-tmpfiles removes old files.    *)
(*                                                                         *)
(* Time is a clock that advances while plugins run and between any two     *)
(* steps; its unit is left open.  Variables named after history record     *)
(* what happened and are read by no action.                                *)
(***************************************************************************)
EXTENDS Integers

CONSTANTS
    Priorities,     \* the priorities plugins call append_error() with
    Low, Medium, Critical,  \* the priorities at which the levels start
    Spans,          \* the least time between two emails, for each level
    Settle,         \* error_report_settle_time
    Retention,      \* the age at which tmpfiles removes a file of the cache
    MkdirSuccess,   \* what snapdev::mkdir_p() returns when the path exists
    MaxTime, MaxErrors  \* bounds of the clock and of the errors of one run

ASSUME LevelsAssumption ==
    /\ Priorities \subseteq Int
    /\ Low \in Int /\ Medium \in Int /\ Critical \in Int
    /\ Spans \in [{"low", "medium", "critical"} -> Nat \ {0}]
    /\ Settle \in Nat \ {0}
    /\ Retention \in Nat
    /\ MkdirSuccess \in Int
    /\ MaxTime \in Nat /\ MaxErrors \in Nat

VARIABLES
    now,          \* the clock
    wpc,          \* where the worker is
    startDate,    \* when the current run began
    errorCount,   \* f_error_count
    maxPriority,  \* f_max_error_priority
    mailDate,     \* `now` in report_error()
    mailFile,     \* last_email_time.txt: a date, None or Garbage
    lastMail,     \* history: when the last email was sent
    lastTry,      \* history: the date of the last report that was let through
    lost,         \* history: the date of the last report could not be written
    appended      \* history: the priorities the current run appended

vars == <<now, wpc, startDate, errorCount, maxPriority, mailDate, mailFile,
          lastMail, lastTry, lost, appended>>

\* What the file or the history holds when it is no date.
None == -1
Garbage == -2

\* get_cache_path() takes a null result of mkdir_p() for a failure and returns an
\* empty path, which can be neither read nor written.
CachePathUsable == MkdirSuccess # 0

\* Mutant: the lesser level is tested first.
SpanOfMediumFirst(priority) ==
    IF priority >= Medium THEN Spans["medium"]
    ELSE IF priority >= Critical THEN Spans["critical"]
    ELSE Spans["low"]

\* The span of a report.
SpanOf(priority) ==
    IF priority >= Critical THEN Spans["critical"]
    ELSE IF priority >= Medium THEN Spans["medium"]
    ELSE Spans["low"]

Init ==
    /\ now = 0
    /\ wpc = "idle"
    /\ startDate = 0 /\ errorCount = 0 /\ maxPriority = 0
    /\ mailDate = 0 /\ mailFile = None
    /\ lastMail = None /\ lastTry = None /\ lost = FALSE /\ appended = {}

-----------------------------------------------------------------------------
(* run_plugins() *)

\* Mutant: clear_errors() forgets the worst priority.
BeginRunWithOldPriority ==
    /\ wpc = "idle"
    /\ wpc' = "plugins"
    /\ startDate' = now
    /\ errorCount' = 0
    /\ appended' = {}
    /\ UNCHANGED <<now, maxPriority, mailDate, mailFile, lastMail, lastTry,
                   lost>>

BeginRun ==
    /\ wpc = "idle"
    /\ wpc' = "plugins"
    /\ startDate' = now
    /\ errorCount' = 0 /\ maxPriority' = 0  \* clear_errors()
    /\ appended' = {}
    /\ UNCHANGED <<now, mailDate, mailFile, lastMail, lastTry, lost>>

\* append_error() counts the error before it refuses the priority: the exception
\* ends the worker, and with it the daemon.
AppendError(priority) ==
    /\ wpc = "plugins"
    /\ errorCount < MaxErrors
    /\ errorCount' = errorCount + 1
    /\ maxPriority' = IF priority > maxPriority THEN priority ELSE maxPriority
    /\ appended' = appended \cup {priority}
    /\ wpc' = IF priority \in 0..100 THEN wpc ELSE "down"
    /\ UNCHANGED <<now, startDate, mailDate, mailFile, lastMail, lastTry, lost>>

\* Errors are reported when the run took at least the settle time; a run that has some
\* has a result, so the return for an empty one is among those without errors.
EndRun ==
    /\ wpc = "plugins"
    /\ wpc' = IF errorCount > 0 /\ now - startDate >= Settle THEN "report" ELSE "idle"
    /\ UNCHANGED <<now, startDate, errorCount, maxPriority, mailDate, mailFile,
                   lastMail, lastTry, lost, appended>>

-----------------------------------------------------------------------------
(* report_error() *)

\* No report: the priority is too low, or the span has not elapsed.  What cannot be
\* read, or is not a date, lets the report through.
NotDue ==
    \/ maxPriority < Low
    \/ CachePathUsable /\ mailFile >= 0 /\ now - mailFile < SpanOf(maxPriority)

\* Mutant: the date of the next email instead of the current one.
DecideDueDate ==
    /\ wpc = "report"
    /\ mailDate' = now + SpanOf(maxPriority)
    /\ wpc' = IF NotDue THEN "idle" ELSE "save"
    /\ lastTry' = IF NotDue THEN lastTry ELSE now
    /\ UNCHANGED <<now, startDate, errorCount, maxPriority, mailFile, lastMail,
                   lost, appended>>

Decide ==
    /\ wpc = "report"
    /\ mailDate' = now
    /\ wpc' = IF NotDue THEN "idle" ELSE "save"
    /\ lastTry' = IF NotDue THEN lastTry ELSE now
    /\ UNCHANGED <<now, startDate, errorCount, maxPriority, mailFile, lastMail,
                   lost, appended>>

\* The date is saved first.  Then the report ends when an address is missing.
AfterSave == wpc' \in {"send", "idle"}

\* Mutant: a file that exists is kept.
SaveOnce ==
    /\ wpc = "save"
    /\ CachePathUsable
    /\ mailFile' = IF mailFile = None THEN mailDate ELSE mailFile
    /\ lost' = FALSE
    /\ AfterSave
    /\ UNCHANGED <<now, startDate, errorCount, maxPriority, mailDate, lastMail,
                   lastTry, appended>>

Save ==
    /\ wpc = "save"
    /\ CachePathUsable
    /\ mailFile' = mailDate
    /\ lost' = FALSE
    /\ AfterSave
    /\ UNCHANGED <<now, startDate, errorCount, maxPriority, mailDate, lastMail,
                   lastTry, appended>>

\* A write that fails is logged: it leaves the file as it was, or empty.  Without a
\* path there is nothing to write to.
SaveFails ==
    /\ wpc = "save"
    /\ mailFile' \in IF CachePathUsable THEN {mailFile, Garbage} ELSE {mailFile}
    /\ lost' = TRUE
    /\ AfterSave
    /\ UNCHANGED <<now, startDate, errorCount, maxPriority, mailDate, lastMail,
                   lastTry, appended>>

\* The email is sent, or lost on its way: nobody looks at the result.
Send ==
    /\ wpc = "send"
    /\ wpc' = "idle"
    /\ lastMail' \in {lastMail, mailDate}
    /\ UNCHANGED <<now, startDate, errorCount, maxPriority, mailDate, mailFile,
                   lastTry, lost, appended>>

-----------------------------------------------------------------------------
(* The environment *)

Advance ==
    /\ now < MaxTime
    /\ now' = now + 1
    /\ UNCHANGED <<wpc, startDate, errorCount, maxPriority, mailDate, mailFile,
                   lastMail, lastTry, lost, appended>>

\* The daemon may die at any time, also because of an exception of a plugin or of
\* what makes and sends the email.
Crash ==
    /\ wpc # "down"
    /\ wpc' = "down"
    /\ UNCHANGED <<now, startDate, errorCount, maxPriority, mailDate, mailFile,
                   lastMail, lastTry, lost, appended>>

\* Everything but the file starts again.
Restart ==
    /\ wpc = "down"
    /\ wpc' = "idle"
    /\ startDate' = 0 /\ errorCount' = 0 /\ maxPriority' = 0 /\ mailDate' = 0
    /\ appended' = {}
    /\ UNCHANGED <<now, mailFile, lastMail, lastTry, lost>>

\* systemd-tmpfiles removes a file that was not written for long.
CleanCache ==
    /\ mailFile >= 0 /\ now - mailFile >= Retention
    /\ mailFile' = None
    /\ UNCHANGED <<now, wpc, startDate, errorCount, maxPriority, mailDate,
                   lastMail, lastTry, lost, appended>>

Next ==
    \/ BeginRun \/ EndRun
    \/ \E priority \in Priorities : AppendError(priority)
    \/ Decide \/ Save \/ SaveFails \/ Send
    \/ Advance \/ Crash \/ Restart \/ CleanCache

Spec == Init /\ [][Next]_vars

-----------------------------------------------------------------------------
(* Correctness *)

\* The type of every variable, and dates that are not in the future.
TypeOK ==
    /\ now \in 0..MaxTime
    /\ wpc \in {"idle", "plugins", "report", "save", "send", "down"}
    /\ startDate \in 0..now /\ mailDate \in 0..now
    /\ errorCount \in 0..MaxErrors
    /\ maxPriority \in Priorities \cup {0}
    /\ mailFile \in (0..now) \cup {None, Garbage}
    /\ lastMail \in (0..now) \cup {None} /\ lastTry \in (0..now) \cup {None}
    /\ lost \in BOOLEAN
    /\ appended \subseteq Priorities

\* The time between two emails that the file can vouch for: the span, or the time
\* after which tmpfiles removes the file when the span is longer than that.
LeastTime(priority) ==
    IF SpanOf(priority) <= Retention THEN SpanOf(priority) ELSE Retention

\* report_error() says its span lasts across restarts: an email it is about to
\* send comes at least a span after the last one, or at least the retention when
\* that is less, whatever crashed, was sent in vain or was cleaned up in between.
\* A date that could not be written, which is only logged, is the one exception:
\* nothing then says when the last email was sent.
EmailSpan ==
    wpc = "save" /\ lastMail # None /\ ~lost
        => mailDate - lastMail >= LeastTime(maxPriority)

\* What is reported is what this run appended: errors of the run before, or of
\* before a restart, neither trigger a report nor set its level.
ReportsThisRun ==
    wpc \in {"report", "save", "send"}
        => /\ appended # {}
           /\ maxPriority = 0 \/ maxPriority \in appended
           /\ \A priority \in appended : priority <= maxPriority
                /\ priority \in 0..100

\* A report was let through less than the span of the level of these errors ago.
TriedWithinSpan ==
    /\ lastTry # None
    /\ maxPriority >= Critical => now - lastTry < Spans["critical"]
    /\ maxPriority < Critical /\ maxPriority >= Medium => now - lastTry < Spans["medium"]
    /\ maxPriority < Critical /\ maxPriority < Medium => now - lastTry < Spans["low"]

\* A run drops errors of the low level or above for one of two reasons only.  It took
\* less than the settle time, which drops them all, in every run, however long they
\* have been there.  Or a report was let through, by this process or another, less
\* than the span of their own level ago: however that one ended, lost on its way,
\* without an address or cut by a crash, a lesser level, an older report or a file
\* that cannot be read holds nothing back.
DroppedForAReason ==
    [][(wpc = "plugins" \/ wpc = "report") /\ wpc' = "idle"
            /\ errorCount > 0 /\ maxPriority >= Low
         => now - startDate < Settle \/ TriedWithinSpan]_vars

=============================================================================
