------------------------------ MODULE PluginRun ------------------------------
(***************************************************************************)
(* Runs of the plugins, as run_plugins() makes them: a new document, one   *)
(* turn for each plugin that is loaded, in the order of the listeners,     *)
(* which nothing fixes, and the document saved at the end, and mailed when *)
(* there are errors and report_error() lets them through, which is for     *)
(* ErrorReport to say and left open here.  An error with an invalid        *)
(* priority is an exception that ends the run and the daemon.              *)
(*                                                                         *)
(* apt, firewall, flags and memory (Readings) take one step, as each reads *)
(* one thing at one moment; cpu (SysStats) and scripts (Scripts) take one  *)
(* for each thing they read, write or wait for.                            *)
(***************************************************************************)
EXTENDS Readings, Scripts, SysStats

CONSTANTS
    Loaded,      \* the lists of plugins that installations load
    Listings,    \* what the glob of the scripts may give
    AptFiles, MemInfos, FlagLists,  \* what apt, memory and flags may read
    MaxRuns      \* bound

Plugins == {"apt", "cpu", "firewall", "flags", "memory", "scripts"}

\* The sizes and counts are unsigned in the code, an age may be in the future, the
\* priority of a flag is any int, and a glob gives a file once.
ASSUME RunAssumption ==
    /\ \A plugins \in Loaded : plugins \subseteq Plugins
    /\ \A list \in Listings :
          /\ list \in Seq(ScriptFiles)
          /\ \A i, j \in DOMAIN list : list[i] = list[j] => i = j
    /\ \A file \in AptFiles :
          \/ file \in {NoFile, Unchecked, Garbled}
          \/ file \in [kind : {"counts"}, age : Int, updates : BOOLEAN, security : BOOLEAN]
    /\ \A info \in MemInfos :
          info \in [total : Nat, available : Nat, swapTotal : Nat, swapFree : Nat]
    /\ \A list \in FlagLists : list \in SUBSET Int /\ IsFiniteSet(list)
    /\ MaxRuns \in Nat

VARIABLES
    loaded,  \* the plugins of this installation
    todo,    \* the listeners of process_watch() still to be called
    turn,    \* the plugin that is called, "server" in between, "none" out of a run
    run,     \* history: the number of the run
    seen,    \* history: what apt, firewall, flags and memory have read in this run
    sent,    \* history: the runs whose document was mailed
    mailed   \* history: the errors of scripts in the documents that were mailed

runVars == <<loaded, todo, turn, run, seen, sent, mailed>>
vars == <<runVars, errorVars, scriptVars, statVars>>

NothingSeen == [p \in Plugins |-> {}]

Init ==
    /\ loaded \in Loaded
    /\ todo = {} /\ turn = "none" /\ run = 0
    /\ seen = NothingSeen /\ sent = {} /\ mailed = {}
    /\ document = <<>> /\ errorCount = 0 /\ maxPriority = 0
    /\ InitScripts
    /\ InitStats

-----------------------------------------------------------------------------
(* A run *)

BeginRun ==
    /\ turn = "none"
    /\ run < MaxRuns
    /\ run' = run + 1
    /\ ClearErrors
    /\ todo' = loaded /\ turn' = "server"
    /\ seen' = NothingSeen
    /\ UNCHANGED <<loaded, sent, mailed, scriptVars, statVars>>

\* The plugin is called next.
Call(plugin) ==
    /\ turn = "server"
    /\ plugin \in todo
    /\ todo' = todo \ {plugin}
    /\ UNCHANGED <<loaded, run, sent, mailed>>

\* A plugin that reads `what` and appends `errors` for it.  When one is refused the
\* exception goes through run_plugins(), and the process ends.
Reading(plugin, what, errors) ==
    /\ Call(plugin)
    /\ seen' = [seen EXCEPT ![plugin] = {what}]
    /\ AppendErrors(errors)
    /\ turn' = IF AllValid(errors) THEN "server" ELSE "none"
    /\ UNCHANGED <<scriptVars, statVars>>

Apt == \E file \in AptFiles : Reading("apt", file, AptErrors(file))
Memory == \E info \in MemInfos : Reading("memory", info, MemoryErrors(info))
Flags == \E list \in FlagLists : Reading("flags", list, FlagsErrors(list))
Firewall == \E found \in BOOLEAN : Reading("firewall", found, FirewallErrors(found))

BeginCpu ==
    /\ Call("cpu")
    /\ turn' = "cpu"
    /\ NewStats
    /\ UNCHANGED <<seen, errorVars, scriptVars>>

\* After the second look at the load of a minute comes the alarm; see PluginAlarms.
CpuStep ==
    /\ turn = "cpu"
    /\ AskNext
    /\ IF asked' = 6
       THEN \E errors \in {<<>>, <<Error("cpu", "load", 100)>>} : AppendErrors(errors)
       ELSE UNCHANGED errorVars
    /\ UNCHANGED <<runVars, scriptVars>>

EndCpu ==
    /\ turn = "cpu"
    /\ AllAsked
    /\ turn' = "server"
    /\ UNCHANGED <<loaded, todo, run, seen, sent, mailed, errorVars, scriptVars, statVars>>

BeginScripts ==
    /\ Call("scripts")
    /\ turn' = "scripts"
    /\ \E files \in Listings : GlobScripts(files)
    /\ UNCHANGED <<seen, errorVars, statVars>>

ScriptStep ==
    /\ turn = "scripts"
    /\ \/ /\ \/ StartScript \/ EndScript
             \/ SkipOutput \/ WriteOutput(run) \/ SkipError \/ WriteError(run)
          /\ UNCHANGED errorVars
       \/ ReportOutput \/ ReportError
    /\ UNCHANGED <<runVars, statVars>>

ScriptsReturn ==
    /\ turn = "scripts"
    /\ EndScripts
    /\ turn' = "server"
    /\ UNCHANGED <<loaded, todo, run, seen, sent, mailed, errorVars, statVars>>

\* The errors of the scripts in the document, with the run they are of.
ScriptErrors ==
    {<<document[i].about, document[i].subject, run>> : i \in ErrorsOf("scripts")}

\* The document is mailed if it counts an error, and the settle time, the priority and
\* the span allow it.
EndRun ==
    /\ turn = "server"
    /\ todo = {}
    /\ turn' = "none"
    /\ \/ UNCHANGED <<sent, mailed>>
       \/ /\ errorCount > 0
          /\ sent' = sent \cup {run}
          /\ mailed' = mailed \cup ScriptErrors
    /\ UNCHANGED <<loaded, todo, run, seen, errorVars, scriptVars, statVars>>

\* The process ends in a run, at any step, and starts again: the logs are left, and the
\* next run has its own lists and objects.
Crash ==
    /\ turn # "none"
    /\ turn' = "none"
    /\ queue' = <<>> /\ script' = NoScript /\ step' = "off"
    /\ UNCHANGED <<loaded, todo, run, seen, sent, mailed, errorVars, result,
                   outputLog, errorLog, statVars>>

MachineStep == Work /\ UNCHANGED <<runVars, errorVars, scriptVars>>

\* All the runs of the bound are made.
Finished == turn = "none" /\ run = MaxRuns /\ UNCHANGED vars

Next ==
    \/ BeginRun \/ Apt \/ Memory \/ Flags \/ Firewall
    \/ BeginCpu \/ CpuStep \/ EndCpu
    \/ BeginScripts \/ ScriptStep \/ ScriptsReturn
    \/ EndRun \/ Crash \/ Finished
    \/ MachineStep

Spec == Init /\ [][Next]_vars

-----------------------------------------------------------------------------
(* Correctness *)

\* Between two plugins, and when the run ends, the count and the priority that decide
\* on an email are those of the document that is mailed, whatever the plugins and their
\* order: none of another run, none that is not in the document.
CountsOfDocument ==
    turn = "server" =>
        /\ errorCount = Len(document)
        /\ maxPriority = Max({0} \cup {document[i].priority : i \in DOMAIN document})

\* The places of the errors about what a script did.
Reported(about, s) ==
    {i \in ErrorsOf("scripts") : document[i].about = about /\ document[i].subject = s}

\* Each script is judged by what it did itself, whatever its neighbours did: one that
\* wrote to its standard error is reported for that, and one that failed and had
\* something to say is reported for that.  A script is reported for nothing else, once.
EachScriptJudged ==
    turn = "server" /\ "scripts" \in loaded \ todo =>
        \A s \in ScriptFiles :
            /\ Cardinality(Reported("output", s)) =
                    IF result[s].failed /\ result[s].output THEN 1 ELSE 0
            /\ Cardinality(Reported("error", s)) = IF result[s].error THEN 1 ELSE 0

\* README.md: "the content of those logs is also what we send".  When the run a log comes
\* from was mailed, what is in the log was in that email, whichever script, run or crash
\* wrote to the logs since.  That the run is mailed is not promised: see ErrorReport.
LogsAreMailed ==
    /\ outputLog[2] \in sent => <<"output", outputLog[1], outputLog[2]>> \in mailed
    /\ errorLog[2] \in sent => <<"error", errorLog[1], errorLog[2]>> \in mailed

\* A plugin that appends nothing has seen nothing to append: an update is only kept
\* silent by a count of 0 in a file of the last day, memory by enough of it or by a
\* total that is not known; a flag or a missing firewall never is.
SilentWhenFine ==
    turn = "server" =>
        /\ ErrorsOf("apt") = {} =>
                \A file \in seen["apt"] :
                    file.kind = "counts" /\ ~file.updates /\ file.age <= 25
        /\ ErrorsOf("memory") = {} =>
                \A info \in seen["memory"] :
                    \/ info.available > 512
                    \/ 5 * info.available >= info.total
        /\ ErrorsOf("flags") = {} => seen["flags"] \subseteq {{}}
        /\ ErrorsOf("firewall") = {} => seen["firewall"] \subseteq {TRUE}

=============================================================================
