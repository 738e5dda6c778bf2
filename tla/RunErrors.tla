------------------------------ MODULE RunErrors ------------------------------
(***************************************************************************)
(* What the plugins tell the server during a run: append_error() counts an *)
(* error, keeps the worst priority, and adds the error to the object the   *)
(* plugin has in the document that is saved and mailed.                    *)
(***************************************************************************)
EXTENDS Integers, Sequences, FiniteSetsExt

VARIABLES
    document,    \* the errors in the document, in the order they were appended
    errorCount,  \* f_error_count
    maxPriority  \* f_max_error_priority

errorVars == <<document, errorCount, maxPriority>>

\* The message of an error says what it is about, and for a script, which one.
Error(plugin, about, priority) ==
    [plugin |-> plugin, about |-> about, subject |-> "none", priority |-> priority]
ScriptError(about, script, priority) ==
    [plugin |-> "scripts", about |-> about, subject |-> script, priority |-> priority]

\* append_error() throws any other priority back.
Valid(error) == error.priority \in 0..100
AllValid(errors) == \A i \in DOMAIN errors : Valid(errors[i])

\* Mutant: the errors of the last run are still counted.
ClearErrorsOfDocument ==
    /\ document' = <<>>
    /\ UNCHANGED <<errorCount, maxPriority>>

\* A new document, and clear_errors().
ClearErrors ==
    /\ document' = <<>>
    /\ errorCount' = 0 /\ maxPriority' = 0

\* One call of append_error() for each error: it is counted before its priority is
\* looked at, and only a valid one gets into the document.  One that is refused is
\* always the only one of its plugin.
AppendErrors(errors) ==
    /\ errorCount' = errorCount + Len(errors)
    /\ maxPriority' = Max({maxPriority} \cup {errors[i].priority : i \in DOMAIN errors})
    /\ document' = IF AllValid(errors) THEN document \o errors ELSE document

\* The places of the errors of a plugin in the document.
ErrorsOf(plugin) == {i \in DOMAIN document : document[i].plugin = plugin}

\* server::output_process(): a mandatory process that is not in the list.
MissingProcess(plugin, found, process, priority) ==
    IF found THEN <<>> ELSE <<Error(plugin, process, priority)>>

=============================================================================
