------------------------------- MODULE SysStats -------------------------------
(***************************************************************************)
(* sys_stats: each value comes from one of four files of /proc, which is   *)
(* read when the first of its values is asked for.  The machine goes on    *)
(* between two reads, so a reading is identified by the moment it was made *)
(* at; the cpu plugin asks for its values one by one, in the order of its  *)
(* document, with a new object in each run.                                *)
(*                                                                         *)
(* A file cannot be read, or has all its values.                           *)
(***************************************************************************)
EXTENDS Integers, Sequences

CONSTANT MaxMoment  \* bound: how often the machine changes

ASSUME MomentAssumption == MaxMoment \in Nat

VARIABLES
    moment,   \* the machine's present
    defined,  \* f_defined
    held,     \* the moment the members of a file were read at
    asked,    \* how many values the plugin has asked for
    answer    \* what each value was found to be, as a moment

statVars == <<moment, defined, held, asked, answer>>

\* No reading: the members of a new object, whose counters of the processor have no
\* initializer, and what is returned for a name that is not in a map.
Unread == 0
Indeterminate == -1

Files == {"uptime", "loadavg", "stat", "vmstat"}

FileOf(value) ==
    CASE value \in {"uptime", "idle"} -> "uptime"
      [] value \in {"avg1", "avg5", "avg15"} -> "loadavg"
      [] value \in {"cpu", "boot_time", "processes", "running", "blocked"} -> "stat"
      [] value \in {"page_in", "page_out", "swap_in", "swap_out"} -> "vmstat"

\* What cpu.cpp asks for; the load of a minute is saved and then compared.
Asking == <<"uptime", "idle", "avg1", "avg5", "avg15", "avg1", "cpu", "boot_time",
            "processes", "running", "blocked",
            "page_in", "page_out", "swap_in", "swap_out">>

\* Lines that start with "pr" never pass the tests of load_stat().
NeverRead == {"processes", "running", "blocked"}

NoAnswers == [i \in DOMAIN Asking |-> Unread]
NothingHeld == [f \in Files |-> Unread]

InitStats ==
    /\ moment = 1
    /\ defined = {} /\ held = NothingHeld
    /\ asked = Len(Asking) /\ answer = NoAnswers

\* The constructor.
NewStats ==
    /\ defined' = {} /\ held' = NothingHeld
    /\ asked' = 0 /\ answer' = NoAnswers
    /\ UNCHANGED moment

\* Mutant: the file is read for each value.
LoadAgain(file) == {moment, Unread}

\* load_uptime() and the two like it: the members keep what the first call has read.
LoadOnce(file) == IF file \in defined THEN {held[file]} ELSE {moment, Unread}

\* load_map() empties its map before it looks whether the file was read.
LoadMap(file) == IF file \in defined THEN {Unread} ELSE {moment, Unread}

\* What the members of a file may hold after its load function.
Load(file) == IF file = "vmstat" THEN LoadMap(file) ELSE LoadOnce(file)

\* What a getter returns for a member, or from the map.
Get(value, reading) ==
    IF value \in NeverRead THEN Unread
    ELSE IF value = "cpu" /\ reading = Unread THEN Indeterminate
    ELSE reading

AskNext ==
    /\ asked < Len(Asking)
    /\ LET value == Asking[asked + 1]
           file == FileOf(value) IN
        \E reading \in Load(file) :
            /\ held' = [held EXCEPT ![file] = reading]
            /\ defined' = defined \cup {file}
            /\ answer' = [answer EXCEPT ![asked + 1] = Get(value, reading)]
    /\ asked' = asked + 1
    /\ UNCHANGED moment

AllAsked == asked = Len(Asking)

\* The machine works.
Work ==
    /\ moment < MaxMoment
    /\ moment' = moment + 1
    /\ UNCHANGED <<defined, held, asked, answer>>

-----------------------------------------------------------------------------
(* Correctness *)

\* What was read, as opposed to what stands for nothing.
Readings(file) ==
    {answer[i] : i \in {j \in 1..asked : FileOf(Asking[j]) = file}}
    \ {Unread, Indeterminate}

\* All the values of a run that come from one file are from one moment, so that they
\* can be compared, and the load the alarm is about is the load that is saved.
OneMoment == \A file \in Files : \A a, b \in Readings(file) : a = b

=============================================================================
