------------------------------ MODULE DiskWatch ------------------------------
(***************************************************************************)
(* The disk plugin: each run asks statvfs() about every mount, with an     *)
(* alarm meant to interrupt it when a drive does not answer.  SIGALRM is   *)
(* sent to the process, so the kernel may give it to any of its threads;   *)
(* only the worker's own system call can be interrupted by it in time.     *)
(*                                                                         *)
(* Nothing else in the daemon uses alarm(): the part that puts an earlier  *)
(* alarm back is never reached.                                            *)
(***************************************************************************)
EXTENDS Integers

CONSTANTS
    Mounts,   \* what may be mounted
    Ignored,  \* the mounts whose whole directory a pattern matches, before a bad one
    BadPatterns,  \* whether disk_ignore may have a pattern std::regex refuses
    Usages    \* per mille of the blocks in use; Virtual for a drive without any

ASSUME DiskAssumption ==
    Mounts \subseteq Nat /\ Usages \subseteq Int /\ BadPatterns \subseteq BOOLEAN

VARIABLES
    usage,       \* of each mount; Unmounted for a mount that is gone
    hung,        \* the mounts that do not answer
    handler,     \* our handler is the one of SIGALRM, else the default action
    armed,       \* the alarm is set
    wpc,         \* the worker: "idle", a step of statvfs_try(), "judge" or "down"
    mount,       \* the mount at hand
    todo,        \* the mounts left
    interrupted, \* the system call was interrupted
    answer,      \* what statvfs() returned, Failed if it did not
    errors,      \* history: what was reported, <<mount, priority>>
    steady,      \* history: the mounts that answer in time and did not change so far
    strayed      \* history: an alarm did not interrupt the call it was set for

machine == <<usage, hung>>
vars == <<machine, handler, armed, wpc, mount, todo, interrupted, answer, errors,
          steady, strayed>>

Virtual == -1
Unmounted == -2
Failed == -3

Init ==
    /\ usage \in [Mounts -> Usages \cup {Unmounted}] /\ hung \in SUBSET Mounts
    /\ handler = FALSE /\ armed = FALSE
    /\ wpc = "idle" /\ mount = 0 /\ todo = {} /\ interrupted = FALSE /\ answer = Failed
    /\ errors = {} /\ steady = {} /\ strayed = FALSE

-----------------------------------------------------------------------------
(* on_process_watch() *)

BeginRun ==
    /\ wpc = "idle"
    /\ wpc' = "next"
    /\ todo' = {m \in Mounts : usage[m] # Unmounted}
    /\ errors' = {}
    /\ steady' = {m \in Mounts : usage[m] # Unmounted /\ m \notin hung}
    /\ UNCHANGED <<machine, handler, armed, mount, interrupted, answer, strayed>>

\* /proc/mounts has the mounts in the order they were mounted, which is any order.
NextMount ==
    /\ wpc = "next"
    /\ wpc' = "handler"
    /\ \E m \in todo : mount' = m /\ todo' = todo \ {m}
    /\ UNCHANGED <<machine, handler, armed, interrupted, answer, errors, steady, strayed>>

EndRun ==
    /\ wpc = "next" /\ todo = {}
    /\ wpc' = "idle"
    /\ UNCHANGED <<machine, handler, armed, mount, todo, interrupted, answer, errors,
                   steady, strayed>>

\* The fuller the partition, the more urgent.
Priority(u) == IF u >= 999 THEN 100 ELSE IF u >= 950 THEN 80 ELSE 55

\* Mutant: a mount that fails ends the run.
JudgeUntilFailure ==
    /\ wpc = "judge"
    /\ wpc' = "next"
    /\ todo' = IF answer = Failed THEN {} ELSE todo
    /\ errors' = IF answer >= 900 /\ mount \notin Ignored
                 THEN errors \cup {<<mount, Priority(answer)>>} ELSE errors
    /\ UNCHANGED <<machine, handler, armed, mount, interrupted, answer, steady, strayed>>

\* A mount that failed, or is virtual, is skipped.  The patterns are compiled when a
\* mount is nearly full, one after the other until one matches: a bad one throws, and
\* the exception ends the worker, and with it the daemon.
Judge ==
    /\ wpc = "judge"
    /\ LET full == answer >= 900 /\ mount \notin Ignored
       IN  \E bad \in BadPatterns :
              /\ wpc' = IF full /\ bad THEN "down" ELSE "next"
              /\ errors' = IF full /\ ~bad THEN errors \cup {<<mount, Priority(answer)>>}
                           ELSE errors
    /\ UNCHANGED <<machine, handler, armed, mount, todo, interrupted, answer, steady,
                   strayed>>

-----------------------------------------------------------------------------
(* statvfs_try() *)

SetHandler ==
    /\ wpc = "handler"
    /\ wpc' = "alarm" /\ handler' = TRUE
    /\ UNCHANGED <<machine, armed, mount, todo, interrupted, answer, errors, steady,
                   strayed>>

\* Mutant: the alarm is set for zero seconds, which cancels it.
SetNoAlarm ==
    /\ wpc = "alarm"
    /\ wpc' = "enter" /\ armed' = FALSE
    /\ UNCHANGED <<machine, handler, mount, todo, interrupted, answer, errors, steady,
                   strayed>>

SetAlarm ==
    /\ wpc = "alarm"
    /\ wpc' = "enter" /\ armed' = TRUE
    /\ UNCHANGED <<machine, handler, mount, todo, interrupted, answer, errors, steady,
                   strayed>>

\* The worker enters the system call.
EnterCall ==
    /\ wpc = "enter"
    /\ wpc' = "call" /\ interrupted' = FALSE
    /\ UNCHANGED <<machine, handler, armed, mount, todo, answer, errors, steady, strayed>>

\* It returns when the drive answers or the call was interrupted.
ReturnFromCall ==
    /\ wpc = "call"
    /\ \/ mount \notin hung
          /\ answer' = IF usage[mount] = Unmounted THEN Failed ELSE usage[mount]
       \/ interrupted /\ answer' = Failed
    /\ wpc' = "clear"
    /\ UNCHANGED <<machine, handler, armed, mount, todo, interrupted, errors, steady,
                   strayed>>

\* Mutant: the handler is put back, and the alarm is left.
RestoreInsteadOfClear ==
    /\ wpc = "clear"
    /\ wpc' = "judge" /\ handler' = FALSE
    /\ UNCHANGED <<machine, armed, mount, todo, interrupted, answer, errors, steady,
                   strayed>>

ClearAlarm ==
    /\ wpc = "clear"
    /\ wpc' = "restore" /\ armed' = FALSE
    /\ UNCHANGED <<machine, handler, mount, todo, interrupted, answer, errors, steady,
                   strayed>>

RestoreHandler ==
    /\ wpc = "restore"
    /\ wpc' = "judge" /\ handler' = FALSE
    /\ UNCHANGED <<machine, armed, mount, todo, interrupted, answer, errors, steady,
                   strayed>>

-----------------------------------------------------------------------------
(* The environment *)

\* After three seconds a thread gets the signal: the worker, whose call it ends if it
\* is in it, or another, which ignores it.  The default action ends the process.
AlarmFires ==
    /\ armed
    /\ armed' = FALSE
    /\ wpc' = IF handler THEN wpc ELSE "down"
    /\ \/ wpc = "call" /\ interrupted' = TRUE /\ UNCHANGED strayed
       \/ strayed' = TRUE /\ UNCHANGED interrupted
    /\ steady' = steady \ {mount}
    /\ UNCHANGED <<machine, handler, mount, todo, answer, errors>>

\* A partition fills up or is cleaned up, mounted or unmounted.
ChangeUsage(m) ==
    /\ usage' \in {[usage EXCEPT ![m] = u] : u \in Usages \cup {Unmounted}}
    /\ steady' = IF usage'[m] = usage[m] THEN steady ELSE steady \ {m}
    /\ UNCHANGED <<hung, handler, armed, wpc, mount, todo, interrupted, answer, errors,
                   strayed>>

\* A drive stops answering, or answers again.
HangOrRecover(m) ==
    /\ hung' = IF m \in hung THEN hung \ {m} ELSE hung \cup {m}
    /\ steady' = steady \ {m}
    /\ UNCHANGED <<usage, handler, armed, wpc, mount, todo, interrupted, answer, errors,
                   strayed>>

\* The process ends, at any time, and the service is started again.
Restart ==
    /\ wpc' = "idle"
    /\ handler' = FALSE /\ armed' = FALSE /\ interrupted' = FALSE /\ strayed' = FALSE
    /\ mount' = 0 /\ todo' = {} /\ answer' = Failed /\ errors' = {} /\ steady' = {}
    /\ UNCHANGED machine

WorkerStep ==
    \/ BeginRun \/ NextMount \/ EndRun \/ Judge
    \/ SetHandler \/ SetAlarm \/ EnterCall \/ ReturnFromCall \/ ClearAlarm
    \/ RestoreHandler

Next ==
    \/ WorkerStep \/ AlarmFires \/ Restart
    \/ \E m \in Mounts : ChangeUsage(m) \/ HangOrRecover(m)

Spec == Init /\ [][Next]_vars

\* The worker is scheduled, an alarm goes off, and a call returns if its drive answers
\* again and again; no drive needs to recover.
FairSpec ==
    /\ Spec
    /\ WF_vars(WorkerStep) /\ WF_vars(AlarmFires) /\ SF_vars(ReturnFromCall)

-----------------------------------------------------------------------------
(* Correctness *)

\* The type of every variable.
TypeOK ==
    /\ usage \in [Mounts -> Usages \cup {Unmounted}] /\ hung \subseteq Mounts
    /\ handler \in BOOLEAN /\ armed \in BOOLEAN
    /\ interrupted \in BOOLEAN /\ strayed \in BOOLEAN
    /\ wpc \in {"idle", "next", "handler", "alarm", "enter", "call", "clear",
                "restore", "judge", "down"}
    /\ mount \in Mounts \cup {0}
    /\ todo \subseteq Mounts /\ steady \subseteq Mounts
    /\ answer \in Usages \cup {Failed}
    /\ errors \subseteq Mounts \X {55, 80, 100}

\* SIGALRM, whose default action ends the process, finds our handler whenever the
\* alarm is set; the alarm is not left behind for whatever the worker does next.
HandlerWhileArmed == armed => handler

\* One drive that hangs or goes away, or one that is ignored, hides no other: when a run
\* ends, a mount that answered and did not change was reported with its priority if, and
\* only if, it is nearly full and is not to be ignored.
SteadyMountsReported ==
    wpc = "idle" =>
        \A m \in steady :
            {e[2] : e \in {x \in errors : x[1] = m}}
                = IF m \in Ignored THEN {}
                  ELSE IF usage[m] >= 999 THEN {100}
                  ELSE IF usage[m] >= 950 THEN {80}
                  ELSE IF usage[m] >= 900 THEN {55} ELSE {}

\* If the signals find their call, no run of the plugin goes on for ever, whatever hangs:
\* it ends, or takes the daemon down because of a bad pattern.
RunsEnd == [](~strayed) => []<>(wpc \in {"idle", "down"})

\* The comment of statvfs_try(): it times out in case a drive locks us up.
TriesTimeOut == wpc = "call" ~> wpc # "call"

=============================================================================
