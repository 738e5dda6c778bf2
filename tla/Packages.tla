------------------------------- MODULE Packages -------------------------------
(***************************************************************************)
(* The packages plugin: each run loads the definitions of required,        *)
(* unwanted and conflicting packages and checks them against the status of *)
(* the packages, one definition after the other.  The status is asked of   *)
(* dpkg-query once per package; answers are kept in memory and in a file   *)
(* of the cache.  Packages come and go and a daily cron job removes the    *)
(* file while all this goes on, and the daemon may die at any time.        *)
(*                                                                         *)
(* A package is a number, its rank in alphabetical order.                  *)
(***************************************************************************)
EXTENDS Integers, Sequences

CONSTANTS
    Names,           \* the packages
    Configurations   \* what the definition files may say: sequences of definitions

ASSUME PackagesAssumption ==
    /\ Names \subseteq Nat
    /\ Configurations \subseteq
        Seq([name : Names, conflicts : SUBSET Names, misspelled : BOOLEAN,
             installation : STRING, priority : Int])

VARIABLES
    definitions, \* the files under packages_path, cached by advgetopt
    installed,   \* the packages dpkg-query says are "install ok installed"
    memory,      \* g_installed_packages: for each package an answer or Unknown
    loaded,      \* g_cache_loaded
    modified,    \* g_cache_modified
    file,        \* package-statuses.txt: the lines it has, Unknown where none
    wpc,         \* the worker: "idle", "name", "conflicts", "save" or "down"
    idx,         \* the definition at hand
    todo,        \* its conflicts not yet looked at
    inConflict,  \* f_in_conflict
    errors,      \* history: what this run reported, <<definition, reason>>
    ever         \* history: the packages that were installed at some time

vars == <<definitions, installed, memory, loaded, modified, file, wpc, idx, todo,
          inConflict, errors, ever>>
run == <<wpc, idx, todo, inConflict, errors>>

\* The status of a package, as far as the daemon knows.
Unknown == [known |-> FALSE, answer |-> FALSE]
Answer(isInstalled) == [known |-> TRUE, answer |-> isInstalled]
Nothing == [n \in Names |-> Unknown]

Init ==
    /\ definitions \in Configurations
    /\ installed \in SUBSET Names
    /\ memory = Nothing /\ loaded = FALSE /\ modified = FALSE /\ file = Nothing
    /\ wpc = "idle" /\ idx = 0 /\ todo = {} /\ inConflict = {} /\ errors = {}
    /\ ever = installed

-----------------------------------------------------------------------------
(* The definitions *)

\* The `installation` parameter is only looked at when there is one that is named
\* `intallation`.
Installation(d) ==
    IF d.misspelled /\ d.installation # "" THEN d.installation ELSE "optional"

\* load_package() and the setters throw.
Invalid(d) ==
    \/ d.name \in d.conflicts
    \/ Installation(d) \notin {"optional", "required", "unwanted"}

LoadPackages ==
    /\ wpc = "idle"
    /\ wpc' = IF \E i \in DOMAIN definitions : Invalid(definitions[i]) THEN "down"
              ELSE IF definitions = <<>> THEN "save" ELSE "name"
    /\ idx' = 1 /\ todo' = {} /\ inConflict' = {} /\ errors' = {}
    /\ UNCHANGED <<definitions, installed, memory, loaded, modified, file, ever>>

-----------------------------------------------------------------------------
(* is_package_installed() *)

\* Mutant: what is not "f" counts as installed.
ReadLineNotFalse(line) == line \in {"t", ""}

\* The value of a line: a file cut short may end in the middle of one.
ReadLine(line) == line = "t"

\* The map once the file was read: at the first question, and only then.
Loaded == IF loaded THEN memory ELSE file

\* Mutant: the answer is not kept.
AskEachTime(name, answer) ==
    /\ answer \in IF Loaded[name] # Unknown THEN {Loaded[name].answer}
                  ELSE {FALSE, (name \in installed)}
    /\ memory' = Loaded
    /\ modified' = (modified \/ Loaded[name] = Unknown)
    /\ loaded' = TRUE

\* What is known is not asked again.  A query that fails, or finds the package in
\* the midst of its installation, counts as a no.
Ask(name, answer) ==
    /\ answer \in IF Loaded[name] # Unknown THEN {Loaded[name].answer}
                  ELSE {FALSE, (name \in installed)}
    /\ memory' = IF Loaded[name] # Unknown THEN Loaded
                 ELSE [Loaded EXCEPT ![name] = Answer(answer)]
    /\ modified' = (modified \/ Loaded[name] = Unknown)
    /\ loaded' = TRUE

-----------------------------------------------------------------------------
(* on_process_watch() *)

Definition == definitions[idx]

\* On to the next definition, or to save_cache().
Continue ==
    /\ wpc' = IF idx < Len(definitions) THEN "name" ELSE "save"
    /\ idx' = idx + 1
    /\ todo' = {} /\ inConflict' = {}

\* append_error() throws when the priority is not valid.
Report(reason) ==
    /\ errors' = errors \cup {<<idx, reason>>}
    /\ IF Definition.priority \in 0..100 THEN Continue
       ELSE wpc' = "down" /\ UNCHANGED <<idx, todo, inConflict>>

\* What the definition says of its package; then the conflicts of one installed.
CheckName ==
    /\ wpc = "name"
    /\ \E isInstalled \in BOOLEAN :
        /\ Ask(Definition.name, isInstalled)
        /\ \/ /\ Installation(Definition) = "required" /\ ~isInstalled
              /\ Report("required")
           \/ /\ Installation(Definition) = "unwanted" /\ isInstalled
              /\ Report("unwanted")
           \/ /\ Installation(Definition) # "required" /\ ~isInstalled
              /\ Continue /\ UNCHANGED errors
           \/ /\ Installation(Definition) # "unwanted" /\ isInstalled
              /\ IF Definition.conflicts = {} THEN Continue
                 ELSE /\ wpc' = "conflicts" /\ todo' = Definition.conflicts
                      /\ UNCHANGED <<idx, inConflict>>
              /\ UNCHANGED errors
    /\ UNCHANGED <<definitions, installed, file, ever>>

\* Another conflict, in alphabetical order.
CheckConflict ==
    /\ wpc = "conflicts"
    /\ \E name \in todo, isInstalled \in BOOLEAN :
        /\ \A other \in todo : name <= other
        /\ Ask(name, isInstalled)
        /\ inConflict' = IF isInstalled THEN inConflict \cup {name} ELSE inConflict
        /\ todo' = todo \ {name}
    /\ UNCHANGED <<definitions, installed, file, wpc, idx, errors, ever>>

EndConflicts ==
    /\ wpc = "conflicts" /\ todo = {}
    /\ IF inConflict # {} THEN Report("conflict") ELSE Continue /\ UNCHANGED errors
    /\ UNCHANGED <<definitions, installed, memory, loaded, modified, file, ever>>

-----------------------------------------------------------------------------
(* save_cache() *)

\* What a file with these lines is read as.
FileOf(lines) ==
    [n \in Names |-> IF lines[n] = "none" THEN Unknown
                     ELSE Answer(ReadLine(lines[n]))]

Lines == [n \in Names |-> IF memory[n] = Unknown THEN "none"
                          ELSE IF memory[n].answer THEN "t" ELSE "f"]

\* The flag is never reset: once modified, every run writes the file.
SaveCache ==
    /\ wpc = "save"
    /\ wpc' = "idle"
    /\ file' = IF modified THEN FileOf(Lines) ELSE file
    /\ UNCHANGED <<definitions, installed, memory, loaded, modified, idx, todo,
                   inConflict, errors, ever>>

\* The file cannot be opened, or the disk is full or the daemon killed while it is
\* written: what comes after some line, which may have lost its value, is missing.
SaveCut ==
    /\ wpc = "save" /\ modified
    /\ wpc' \in {"idle", "down"}
    /\ \/ UNCHANGED file
       \/ \E last \in {n \in Names : Lines[n] # "none"}, rest \in {"none", ""} :
            file' = FileOf([n \in Names |-> IF n < last THEN Lines[n]
                                            ELSE IF n = last THEN rest ELSE "none"])
    /\ UNCHANGED <<definitions, installed, memory, loaded, modified, idx, todo,
                   inConflict, errors, ever>>

-----------------------------------------------------------------------------
(* The environment *)

\* A package is installed or removed.
ChangePackage(name) ==
    /\ installed' = IF name \in installed THEN installed \ {name}
                    ELSE installed \cup {name}
    /\ ever' = ever \cup installed'
    /\ UNCHANGED <<definitions, memory, loaded, modified, file>> /\ UNCHANGED run

\* The daily job removes the file.
Cron ==
    /\ file' = Nothing
    /\ UNCHANGED <<definitions, installed, memory, loaded, modified, ever>>
    /\ UNCHANGED run

Crash ==
    /\ wpc # "down"
    /\ wpc' = "down"
    /\ UNCHANGED <<definitions, installed, memory, loaded, modified, file, idx, todo,
                   inConflict, errors, ever>>

\* The definitions may have changed meanwhile.
Restart ==
    /\ wpc = "down"
    /\ wpc' = "idle"
    /\ definitions' \in Configurations
    /\ memory' = Nothing /\ loaded' = FALSE /\ modified' = FALSE
    /\ idx' = 0 /\ todo' = {} /\ inConflict' = {} /\ errors' = {}
    /\ UNCHANGED <<installed, file, ever>>

Next ==
    \/ LoadPackages \/ CheckName \/ CheckConflict \/ EndConflicts
    \/ SaveCache \/ SaveCut
    \/ \E name \in Names : ChangePackage(name)
    \/ Cron \/ Crash \/ Restart

Spec == Init /\ [][Next]_vars

-----------------------------------------------------------------------------
(* Correctness *)

\* A run sees every package in one state, although packages come and go while it
\* looks: of two optional packages each in conflict with the other, both are
\* reported or neither is.
ConflictsAgree ==
    wpc = "save" =>
        \A i, j \in DOMAIN definitions :
            /\ Installation(definitions[i]) = "optional"
            /\ Installation(definitions[j]) = "optional"
            /\ definitions[i].conflicts = {definitions[j].name}
            /\ definitions[j].conflicts = {definitions[i].name}
            => (<<i, "conflict">> \in errors <=> <<j, "conflict">> \in errors)

\* Whatever is left of the file, a package that never was installed is never taken
\* for installed, so no conflict or unwanted package is made up.
InventsNothing ==
    \A n \in Names : memory[n].answer \/ file[n].answer => n \in ever

=============================================================================
