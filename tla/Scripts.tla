------------------------------- MODULE Scripts -------------------------------
(***************************************************************************)
(* The scripts plugin: it starts the scripts of a directory one after the  *)
(* other, waits for each to end, and reports a script that failed and said *)
(* something, and one that wrote to its standard error.  What it reports   *)
(* it also writes to one of two logs, which live on.  The name, exit code  *)
(* and output it adds to the document, in one entry for all the scripts,   *)
(* are left out.                                                           *)
(*                                                                         *)
(* A script that never ends is one that EndScript does not happen to.      *)
(***************************************************************************)
EXTENDS RunErrors

CONSTANT ScriptFiles  \* what the directory may hold; one is the README

VARIABLES
    queue,      \* the files that are left of the glob
    script,     \* f_script_filename
    step,       \* what process_script() does next
    result,     \* history: what each script of this run did
    outputLog,  \* sitter-scripts.log: whose output of which run, or NoLog
    errorLog    \* sitter-scripts-errors.log

scriptVars == <<queue, script, step, result, outputLog, errorLog>>

NoScript == "none"
NoLog == <<NoScript, 0>>

\* What the plugin sees of a script: its exit code, what start() returned if it
\* could not start it, and what it wrote.
Results == [failed : BOOLEAN, output : BOOLEAN, error : BOOLEAN]
NotRun == [failed |-> FALSE, output |-> FALSE, error |-> FALSE]

\* Whoever calls the plugin starts here; a list object that is new is also empty.
InitScripts ==
    /\ queue = <<>> /\ script = NoScript /\ step = "off"
    /\ result = [s \in ScriptFiles |-> NotRun]
    /\ outputLog = NoLog /\ errorLog = NoLog

\* on_process_watch(): the glob, in the order of the directory.
GlobScripts(files) ==
    /\ step = "off"
    /\ step' = "next"
    /\ queue' = files
    /\ result' = [s \in ScriptFiles |-> NotRun]
    /\ UNCHANGED <<script, outputLog, errorLog>>

\* process_script() up to start(), for a file that is no README.
StartScript ==
    /\ step = "next"
    /\ queue # <<>>
    /\ queue' = Tail(queue)
    /\ IF Head(queue) = "README"
       THEN UNCHANGED <<script, step>>
       ELSE script' = Head(queue) /\ step' = "wait"
    /\ UNCHANGED <<result, outputLog, errorLog>>

\* wait() returns.
EndScript ==
    /\ step = "wait"
    /\ \E r \in Results : result' = [result EXCEPT ![script] = r]
    /\ step' = "output"
    /\ UNCHANGED <<queue, script, outputLog, errorLog>>

\* write_all(), whose failure, with the old contents or none left, nobody looks at.
WriteLog(log, run) == {<<script, run>>, log, NoLog}

\* The output of a script that succeeds is dropped.
SkipOutput ==
    /\ step = "output"
    /\ ~(result[script].failed /\ result[script].output)
    /\ step' = "error"
    /\ UNCHANGED <<queue, script, result, outputLog, errorLog>>

WriteOutput(run) ==
    /\ step = "output"
    /\ result[script].failed /\ result[script].output
    /\ outputLog' \in WriteLog(outputLog, run)
    /\ step' = "report_output"
    /\ UNCHANGED <<queue, script, result, errorLog>>

\* Mutant: a script whose output was reported is done with.
ReportOutputOnly ==
    /\ step = "report_output"
    /\ AppendErrors(<<ScriptError("output", script, 65)>>)
    /\ step' = "next"
    /\ UNCHANGED <<queue, script, result, outputLog, errorLog>>

ReportOutput ==
    /\ step = "report_output"
    /\ AppendErrors(<<ScriptError("output", script, 65)>>)
    /\ step' = "error"
    /\ UNCHANGED <<queue, script, result, outputLog, errorLog>>

SkipError ==
    /\ step = "error"
    /\ ~result[script].error
    /\ step' = "next"
    /\ UNCHANGED <<queue, script, result, outputLog, errorLog>>

\* Whatever the exit code is.
WriteError(run) ==
    /\ step = "error"
    /\ result[script].error
    /\ errorLog' \in WriteLog(errorLog, run)
    /\ step' = "report_error"
    /\ UNCHANGED <<queue, script, result, outputLog>>

\* Mutant: what a script that succeeds writes there is not reported.
ReportErrorOfFailure ==
    /\ step = "report_error"
    /\ AppendErrors(
            IF result[script].failed THEN <<ScriptError("error", script, 90)>> ELSE <<>>)
    /\ step' = "next"
    /\ UNCHANGED <<queue, script, result, outputLog, errorLog>>

ReportError ==
    /\ step = "report_error"
    /\ AppendErrors(<<ScriptError("error", script, 90)>>)
    /\ step' = "next"
    /\ UNCHANGED <<queue, script, result, outputLog, errorLog>>

\* The list is done: on_process_watch() returns.
EndScripts ==
    /\ step = "next"
    /\ queue = <<>>
    /\ step' = "off"
    /\ UNCHANGED <<queue, script, result, outputLog, errorLog>>

=============================================================================
