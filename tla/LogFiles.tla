------------------------------- MODULE LogFiles -------------------------------
(***************************************************************************)
(* The log plugin: each run loads the definitions and checks the size, the *)
(* owner, the group and the mode of the files each of them names.  Logs    *)
(* are written, rotated and removed while it looks.                        *)
(*                                                                         *)
(* A path is the sequence of its parts between colons.  The place of a     *)
(* file is the only directory and pattern that match it.                   *)
(***************************************************************************)
EXTENDS LogMode

CONSTANTS
    Configurations, \* what the definition files may say: sequences of definitions
    Files,          \* the log files there may be
    Place,          \* for each file, where it is: <<path, pattern>>
    Stats,          \* what stat() may say of a file: size, uid, gid and mode
    Users,          \* the accounts of the machine: the uid of each name
    Groups          \* and the gid of each group

NoFile == "none"

ASSUME LogsAssumption ==
    /\ NoFile \notin Files
    /\ \A c \in Configurations :
        /\ Len(c) \in Nat /\ DOMAIN c = 1..Len(c)
        /\ \A i \in DOMAIN c :
            /\ Len(c[i].path) \in Nat /\ DOMAIN c[i].path = 1..Len(c[i].path)
            /\ c[i].mode.kind \in {"none", "numeric", "letters"}

VARIABLES
    definitions, \* the definition files, cached by advgetopt
    disk,        \* what there is on disk: for each file a stat, or Gone
    at,          \* the worker: "idle", "glob", "check" or "down"
    idx,         \* the definition at hand
    next,        \* the pattern to look for
    queue,       \* the files the glob found, to be checked
    found,       \* f_found
    reported,    \* history: what was reported, [def, file, priority]
    seen,        \* history: what was checked, [def, file, stat]
    present      \* history: the files that were there since the run began

logVars == <<definitions, disk, at, idx, next, queue, found, reported, seen, present>>

Gone == [size |-> -1, uid |-> -1, gid |-> -1, mode |-> {}]
AnyOne == -1

Existing == {f \in Files : disk[f] # Gone}

LogsInit ==
    /\ definitions \in Configurations
    /\ disk \in [Files -> Stats \cup {Gone}]
    /\ at = "idle" /\ idx = 0 /\ next = 0 /\ queue = {} /\ found = FALSE
    /\ reported = {} /\ seen = {} /\ present = {}

-----------------------------------------------------------------------------
(* load_config() *)

\* It throws, and with that ends the daemon.
Invalid(i) ==
    \/ definitions[i].name = ""
    \/ \E j \in 1..(i - 1) : definitions[j].name = definitions[i].name
    \/ definitions[i].maxSize < 0
    \/ Refused(definitions[i].mode)
    \/ "" \in definitions[i].regexes

\* The path is also what is split into patterns; "*.log" is left when there is none.
PathOf(d) == IF d.path = <<>> THEN <<"/var/log">> ELSE d.path
PatternsOf(d) == IF d.path = <<>> THEN <<"*.log">> ELSE d.path

\* A name that is not given, or that the machine does not know, is not checked.
UidOf(d) == IF d.user_name \in DOMAIN Users THEN Users[d.user_name] ELSE AnyOne
GidOf(d) == IF d.group_name \in DOMAIN Groups THEN Groups[d.group_name] ELSE AnyOne

-----------------------------------------------------------------------------
(* on_process_watch() *)

LoadDefinitions ==
    /\ at = "idle"
    /\ at' = IF \E i \in DOMAIN definitions : Invalid(i) THEN "down"
             ELSE IF definitions = <<>> THEN "idle" ELSE "glob"
    /\ idx' = 1 /\ next' = 1 /\ queue' = {} /\ found' = FALSE
    /\ reported' = {} /\ seen' = {} /\ present' = Existing
    /\ UNCHANGED <<definitions, disk>>

Definition == definitions[idx]

Glob ==
    /\ at = "glob" /\ next <= Len(PatternsOf(Definition))
    /\ at' = "check"
    /\ queue' = {f \in Existing : Place[f] = <<PathOf(Definition), PatternsOf(Definition)[next]>>}
    /\ next' = next + 1
    /\ UNCHANGED <<definitions, disk, idx, found, reported, seen, present>>

\* The priorities of the errors about a file.
ErrorsOf(d, st) ==
    (IF st.size > d.maxSize THEN {IF st.size > d.maxSize * 2 THEN 73 ELSE 58} ELSE {})
    \cup (IF UidOf(d) \notin {AnyOne, st.uid} THEN {63} ELSE {})
    \cup (IF GidOf(d) \notin {AnyOne, st.gid} THEN {59} ELSE {})
    \cup (IF ModeWrong(ParseMode(d.mode), st.mode) THEN {64} ELSE {})

\* Mutant: a file that is gone ends the search.
CheckLogUntilGone ==
    /\ at = "check" /\ queue # {}
    /\ \E f \in queue :
        IF disk[f] = Gone
        THEN queue' = {} /\ UNCHANGED <<found, reported, seen>>
        ELSE /\ queue' = queue \ {f}
             /\ found' = TRUE
             /\ seen' = seen \cup {[def |-> idx, file |-> f, stat |-> disk[f]]}
             /\ reported' = reported \cup {[def |-> idx, file |-> f, priority |-> p]
                                          : p \in ErrorsOf(Definition, disk[f])}
    /\ UNCHANGED <<definitions, disk, at, idx, next, present>>

\* check_log(), for another file; one that vanished meanwhile is ignored.
CheckLog ==
    /\ at = "check" /\ queue # {}
    /\ \E f \in queue :
        /\ queue' = queue \ {f}
        /\ IF disk[f] = Gone THEN UNCHANGED <<found, reported, seen>>
           ELSE /\ found' = TRUE
                /\ seen' = seen \cup {[def |-> idx, file |-> f, stat |-> disk[f]]}
                /\ reported' = reported \cup {[def |-> idx, file |-> f, priority |-> p]
                                             : p \in ErrorsOf(Definition, disk[f])}
    /\ UNCHANGED <<definitions, disk, at, idx, next, present>>

EndPattern ==
    /\ at = "check" /\ queue = {}
    /\ at' = "glob"
    /\ UNCHANGED <<definitions, disk, idx, next, queue, found, reported, seen, present>>

\* Mutant: f_found is reset once per run.
EndDefinitionStillFound ==
    /\ at = "glob" /\ next > Len(PatternsOf(Definition))
    /\ reported' = IF found THEN reported
                   ELSE reported \cup {[def |-> idx, file |-> NoFile, priority |-> 85]}
    /\ at' = IF idx < Len(definitions) THEN "glob" ELSE "idle"
    /\ idx' = idx + 1 /\ next' = 1 /\ UNCHANGED found
    /\ UNCHANGED <<definitions, disk, queue, seen, present>>

\* Without a log there is an error, whether the definition is mandatory or not.
EndDefinition ==
    /\ at = "glob" /\ next > Len(PatternsOf(Definition))
    /\ reported' = IF found THEN reported
                   ELSE reported \cup {[def |-> idx, file |-> NoFile, priority |-> 85]}
    /\ at' = IF idx < Len(definitions) THEN "glob" ELSE "idle"
    /\ idx' = idx + 1 /\ next' = 1 /\ found' = FALSE
    /\ UNCHANGED <<definitions, disk, queue, seen, present>>

-----------------------------------------------------------------------------
(* The environment *)

\* A log is created, grows, changes hands or is removed.
ChangeFile(f) ==
    /\ disk' \in {[disk EXCEPT ![f] = st] : st \in Stats \cup {Gone}}
    /\ present' = present \cap {g \in Files : disk'[g] # Gone}
    /\ UNCHANGED <<definitions, at, idx, next, queue, found, reported, seen>>

\* The daemon ends and starts again, perhaps with other definitions.
RestartLogs ==
    /\ at' = "idle"
    /\ definitions' \in Configurations
    /\ idx' = 0 /\ next' = 0 /\ queue' = {} /\ found' = FALSE
    /\ reported' = {} /\ seen' = {} /\ present' = {}
    /\ UNCHANGED disk

LogsNext ==
    \/ LoadDefinitions \/ Glob \/ CheckLog \/ EndPattern \/ EndDefinition
    \/ \E f \in Files : ChangeFile(f)
    \/ RestartLogs

LogsSpec == LogsInit /\ [][LogsNext]_logVars

-----------------------------------------------------------------------------
(* Correctness *)

Done(i) == at # "down" /\ idx > i

\* Every definition is judged by its own files: "no logs found" is reported of those
\* none of whose files could be looked at, whatever the ones before it found.
NoLogsMeansNone ==
    \A i \in DOMAIN definitions : Done(i) =>
        ([def |-> i, file |-> NoFile, priority |-> 85] \in reported
            <=> \A s \in seen : s.def # i)

\* A rotation does not hide other files: one that was there during the whole run was
\* checked, by each definition that names its place.
SteadyFilesChecked ==
    \A i \in DOMAIN definitions, f \in present :
        /\ Done(i)
        /\ \E p \in ToSet(PatternsOf(definitions[i])) :
            Place[f] = <<PathOf(definitions[i]), p>>
        => \E s \in seen : s.def = i /\ s.file = f

\* Whether the mode of what was seen is what the definition's text means is what is
\* reported, whatever became of the file meanwhile.
ModeReported ==
    \A i \in DOMAIN definitions, f \in Files :
        Documented(definitions[i].mode) =>
            ([def |-> i, file |-> f, priority |-> 64] \in reported
                <=> \E s \in seen :
                        s.def = i /\ s.file = f /\ ~Accepts(definitions[i].mode, s.stat.mode))

=============================================================================
