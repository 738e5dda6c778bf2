------------------------------ MODULE Processes ------------------------------
(***************************************************************************)
(* The processes plugin: each run loads the definitions of the processes   *)
(* that should be running, one file after the other, asking systemctl      *)
(* about their services; then it goes once through the list of the running *)
(* processes and crosses out the first definition each of them matches;    *)
(* what remains is missing.  Services and the configuration change while   *)
(* it does that.                                                           *)
(*                                                                         *)
(* A regular expression is the set of the command lines it accepts, or not *)
(* valid; {} stands for none.                                              *)
(***************************************************************************)
EXTENDS Integers, SequencesExt

CONSTANTS
    Configurations, \* what the definition files may say: sequences of definitions
    Processes,      \* the processes there may be: records of a command and a cmdline
    Services        \* the services; NoService is none of them

Definitions == [name : STRING, mandatory : BOOLEAN, duplicates : BOOLEAN, command : STRING,
                match : SUBSET STRING, valid : BOOLEAN, service : Services \cup {"none"},
                backend : BOOLEAN]

ASSUME ServicesAssumption == "none" \notin Services
ASSUME ConfigurationsAssumption == Configurations \subseteq Seq(Definitions)

VARIABLES
    files,       \* the definition files, cached by advgetopt
    running,     \* the processes of the machine
    enabled,     \* the services systemctl says are enabled
    active,      \* the services systemctl says are active
    conf,        \* backend_status and backends in the file of the server
    maintenance, \* Apache's maintenance file says so
    newline,     \* what systemctl prints ends with a newline
    reads,       \* contents() reads a file nobody called read_all() for
    confSeen,    \* conf as cached by advgetopt and g_valid_backends, or <<>>
    wpc,         \* the worker: "idle", "load", "list", "missing" or "down"
    idx,         \* the file to load, or the definition to look at
    list,        \* g_processes
    snapshot,    \* history: the process_list
    todo,        \* what is left of it
    taken,       \* history: the processes crossed out, with the name of the definition
    errors       \* history: what was reported, <<name, priority>>

environment == <<running, enabled, active, conf, maintenance>>
fixed == <<files, newline, reads>>
vars == <<environment, fixed, confSeen, wpc, idx, list, snapshot, todo, taken, errors>>

NoService == "none"
Confs == [disabled : BOOLEAN, backends : SUBSET Services]

Init ==
    /\ files \in Configurations
    /\ running \in SUBSET Processes
    /\ enabled \in SUBSET Services /\ active \in SUBSET enabled
    /\ conf \in Confs /\ maintenance \in BOOLEAN
    /\ newline \in BOOLEAN /\ reads \in BOOLEAN
    /\ confSeen = <<>>
    /\ wpc = "idle" /\ idx = 0 /\ list = <<>>
    /\ snapshot = {} /\ todo = {} /\ taken = {} /\ errors = {}

-----------------------------------------------------------------------------
(* load_process() *)

\* The output of systemctl is compared as it is, not trimmed.
IsServiceEnabled(service) == service \in enabled /\ ~newline

\* The exit status of systemctl.
IsServiceActive(service) == service \in active

\* A definition with the status of its service, which is not asked again.
WithService(d) ==
    LET isEnabled == d.service = NoService \/ IsServiceEnabled(d.service)
    IN  [name |-> d.name, mandatory |-> d.mandatory, duplicates |-> d.duplicates,
         command |-> d.command, match |-> d.match, service |-> d.service,
         backend |-> d.service # NoService /\ d.backend,
         isEnabled |-> isEnabled,
         isActive |-> isEnabled /\ (d.service = NoService \/ IsServiceActive(d.service))]

BeginLoad ==
    /\ wpc = "idle"
    /\ wpc' = "load"
    /\ idx' = 1
    /\ list' = <<>> /\ snapshot' = {} /\ todo' = {} /\ taken' = {} /\ errors' = {}
    /\ UNCHANGED <<environment, fixed, confSeen>>

Duplicates(d) == {i \in DOMAIN list : list[i].name = d.name}

\* Mutant: a definition found twice is simply skipped.
LoadProcessSkippingDuplicate ==
    /\ wpc = "load" /\ idx <= Len(files)
    /\ list' = IF Duplicates(files[idx]) = {} THEN Append(list, WithService(files[idx]))
               ELSE list
    /\ idx' = idx + 1
    /\ UNCHANGED <<environment, fixed, confSeen, wpc, snapshot, todo, taken, errors>>

\* A name found twice must be allowed to by both, or the exception ends the daemon;
\* only whether it is mandatory is then taken from the second one.
LoadProcess ==
    /\ wpc = "load" /\ idx <= Len(files)
    /\ LET d == files[idx]
       IN  \/ /\ Duplicates(d) = {}
              /\ list' = Append(list, WithService(d))
              /\ wpc' = IF d.valid THEN wpc ELSE "down"
           \/ \E i \in Duplicates(d) :
                IF d.duplicates /\ list[i].duplicates
                THEN /\ list' = [list EXCEPT ![i].mandatory = @ \/ d.mandatory]
                     /\ UNCHANGED wpc
                ELSE wpc' = "down" /\ UNCHANGED list
    /\ idx' = idx + 1
    /\ UNCHANGED <<environment, fixed, confSeen, snapshot, todo, taken, errors>>

-----------------------------------------------------------------------------
(* on_process_watch() *)

\* The list of processes, as it is once everything is loaded.
ListProcesses ==
    /\ wpc = "load" /\ idx > Len(files)
    /\ wpc' = "list"
    /\ snapshot' = running /\ todo' = running
    /\ UNCHANGED <<environment, fixed, confSeen, idx, list, taken, errors>>

\* match(): without a command and a regular expression, the name is the command.
Match(d, p) ==
    /\ d.command \in {"", p.command}
    /\ d.match # {} => p.cmdline \in d.match
    /\ d.command = "" /\ d.match = {} => d.name = p.command

\* Mutant: the configuration is read each time.
ConfReread == conf

\* The configuration is read once, the first time a backend needs it.
ConfNow == IF confSeen = <<>> THEN conf ELSE confSeen[1]
AskConf(d) == confSeen' = IF d.backend THEN <<ConfNow>> ELSE confSeen

\* is_process_expected_to_run(): for a backend the configuration alone counts.
IsProcessExpectedToRun(d) ==
    \/ d.service = NoService
    \/ d.backend /\ ~ConfNow.disabled /\ d.service \in ConfNow.backends
    \/ ~d.backend /\ (d.isEnabled \/ d.isActive)

\* Mutant: the wrong definition is crossed out.
CrossOutLast(i, p) == list' = Front(list)

CrossOut(i, p) == list' = RemoveAt(list, i)

Found(i, p) ==
    /\ AskConf(list[i])
    /\ errors' = IF list[i].backend /\ ~IsProcessExpectedToRun(list[i])
                 THEN errors \cup {<<list[i].name, 35>>} ELSE errors
    /\ taken' = taken \cup {<<list[i].name, p>>}
    /\ CrossOut(i, p)

\* Mutant: the process stays in the list of those to look at.
TakeProcessAgain ==
    /\ wpc = "list" /\ list # <<>>
    /\ \E p \in todo :
        LET matching == {i \in DOMAIN list : Match(list[i], p)}
        IN  \/ /\ matching = {}
               /\ todo' = todo \ {p}
               /\ UNCHANGED <<confSeen, list, taken, errors>>
            \/ \E i \in matching : UNCHANGED todo /\ Found(i, p)
    /\ UNCHANGED <<environment, fixed, wpc, idx, snapshot>>

\* Another process of the list, in the order of their identifiers, which is any
\* order; the first definition that matches is crossed out.
TakeProcess ==
    /\ wpc = "list" /\ list # <<>>
    /\ \E p \in todo :
        /\ todo' = todo \ {p}
        /\ LET matching == {i \in DOMAIN list : Match(list[i], p)}
           IN  \/ matching = {} /\ UNCHANGED <<confSeen, list, taken, errors>>
               \/ \E i \in matching : (\A j \in matching : i <= j) /\ Found(i, p)
    /\ UNCHANGED <<environment, fixed, wpc, idx, snapshot>>

EndList ==
    /\ wpc = "list" /\ (todo = {} \/ list = <<>>)
    /\ wpc' = "missing"
    /\ idx' = 1
    /\ UNCHANGED <<environment, fixed, confSeen, list, snapshot, todo, taken, errors>>

\* is_in_maintenance() looks for the marker in contents().
IsInMaintenance == maintenance /\ reads

MissingPriority(d) ==
    IF d.backend /\ IsInMaintenance THEN 5 ELSE IF d.mandatory THEN 95 ELSE 60

ReportMissing ==
    /\ wpc = "missing" /\ idx <= Len(list)
    /\ AskConf(list[idx])
    /\ errors' = IF IsProcessExpectedToRun(list[idx])
                 THEN errors \cup {<<list[idx].name, MissingPriority(list[idx])>>}
                 ELSE errors
    /\ idx' = idx + 1
    /\ UNCHANGED <<environment, fixed, wpc, list, snapshot, todo, taken>>

EndRun ==
    /\ wpc = "missing" /\ idx > Len(list)
    /\ wpc' = "idle"
    /\ UNCHANGED <<environment, fixed, confSeen, idx, list, snapshot, todo, taken, errors>>

-----------------------------------------------------------------------------
(* The environment *)

Unmoved == UNCHANGED <<fixed, confSeen, wpc, idx, list, snapshot, todo, taken, errors>>

\* A process starts or ends.
ChangeProcess(p) ==
    /\ running' = IF p \in running THEN running \ {p} ELSE running \cup {p}
    /\ UNCHANGED <<enabled, active, conf, maintenance>> /\ Unmoved

\* The administrator enables and starts a service, or stops and disables it.
ChangeService(service) ==
    /\ \/ service \in active /\ active' = active \ {service} /\ UNCHANGED enabled
       \/ service \notin active /\ enabled' = enabled \ {service} /\ UNCHANGED active
       \/ enabled' = enabled \cup {service} /\ active' = active \cup {service}
    /\ UNCHANGED <<running, conf, maintenance>> /\ Unmoved

\* The administrator disables the backends, or lists others, or starts or ends the
\* maintenance.
ChangeConf ==
    /\ \/ conf' \in Confs /\ UNCHANGED maintenance
       \/ maintenance' = ~maintenance /\ UNCHANGED conf
    /\ UNCHANGED <<running, enabled, active>> /\ Unmoved

Restart ==
    /\ wpc' = "idle"
    /\ files' \in Configurations
    /\ confSeen' = <<>>
    /\ idx' = 0 /\ list' = <<>>
    /\ snapshot' = {} /\ todo' = {} /\ taken' = {} /\ errors' = {}
    /\ UNCHANGED <<environment, newline, reads>>

Next ==
    \/ BeginLoad \/ LoadProcess \/ ListProcesses \/ TakeProcess \/ EndList
    \/ ReportMissing \/ EndRun
    \/ \E p \in Processes : ChangeProcess(p)
    \/ \E service \in Services : ChangeService(service)
    \/ ChangeConf \/ Restart

Spec == Init /\ [][Next]_vars

-----------------------------------------------------------------------------
(* Correctness *)

\* The file that defines a name: the first one.
DefinitionOf(name) ==
    CHOOSE i \in DOMAIN files :
        files[i].name = name /\ \A j \in 1..(i - 1) : files[j].name # name

\* A process stands for one definition and a definition for one process, although
\* a process may match several and several may match one.
EachTakenOnce == \A t, u \in taken : t[1] = u[1] <=> t[2] = u[2]

\* What is reported missing was not found, and each process that would have been it
\* was crossed out as one that comes earlier in the files.
MissingJustified ==
    \A e \in errors : e[2] # 35 =>
        LET d == files[DefinitionOf(e[1])]
        IN  /\ \A t \in taken : t[1] # e[1]
            /\ \A p \in snapshot : Match(d, p) =>
                 \E t \in taken : t[2] = p /\ DefinitionOf(t[1]) < DefinitionOf(e[1])

\* A process that any file says is mandatory is reported as such.
MandatoryKept ==
    \A e \in errors : e[2] = 60 =>
        \A i \in DOMAIN files : files[i].name = e[1] => ~files[i].mandatory

\* A run does not report a backend running although disabled, and another process
\* of that backend missing, whatever the administrator changes meanwhile.
BackendsAgree ==
    \A e, f \in errors : e[2] = 35 /\ f[2] # 35 =>
        LET d == files[DefinitionOf(e[1])]
            other == files[DefinitionOf(f[1])]
        IN  ~(other.backend /\ other.service = d.service)

=============================================================================
