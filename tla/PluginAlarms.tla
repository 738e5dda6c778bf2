----------------------------- MODULE PluginAlarms -----------------------------
(***************************************************************************)
(* The plugins whose alarm depends on how long something has lasted:       *)
(*                                                                         *)
(*   reboot       a reboot is required; days, since the date in a file     *)
(*   cpu          the load is too high; minutes, since the date in a file  *)
(*   expiry       a certificate expires; days, until its last one          *)
(*   access       a certificate cannot be loaded; hours, since the last    *)
(*                error about that                                         *)
(*   network      communicatord is not connected; minutes, since the start *)
(*                                                                         *)
(* The certificate plugin is in two parts, expiry and access.              *)
(*                                                                         *)
(* A run of the plugins calls each on_process_watch() in turn.  They share *)
(* nothing but the clock, so one at a time is explored, in the unit of the *)
(* dates it computes with; `plugin` is the one at hand.  The files outlive *)
(* the daemon, the other dates do not.                                     *)
(***************************************************************************)
EXTENDS Integers

CONSTANTS
    Explored,   \* the plugins to explore
    Delays,     \* the warning delays given for certificates, <<>> if invalid
    Retention,  \* in days, the age at which tmpfiles removes a cache file
    MaxTime     \* bound of the clock

\* The delays are the keys of a map: there are no two of the same number of days.
ASSUME AlarmsAssumption ==
    /\ Explored \subseteq {"reboot", "cpu", "expiry", "access", "network"}
    /\ Retention \in Nat /\ MaxTime \in Nat
    /\ \A d \in Delays : d = <<>> \/ d \in Int \X Int
    /\ \A d, e \in Delays \ {<<>>} : d[1] = e[1] => d = e

VARIABLES
    plugin,    \* the plugin at hand
    now,       \* the clock
    holds,     \* what it watches for is the case; expiry: notAfter can be read
    date,      \* reboot.txt, high_cpu_usage.txt, f_access_error: or None, Garbage
    up,        \* f_communicatord_disconnected: when the network plugin's daemon started
    notAfter,  \* the day the certificate expires
    alarm,     \* history: the priority of the last error, 0 if no error was found
    lastError, \* history: when its last error was found
    lastRun,   \* history: when the plugin was last called
    since,     \* history: when the first call of those that agree was made
    lost       \* history: the date of these calls could not be kept

alarmVars ==
    <<plugin, now, holds, date, up, notAfter, alarm, lastError, lastRun, since, lost>>

None == -1
Garbage == -2

AlarmsInit ==
    /\ plugin \in Explored
    /\ now = 0 /\ up = 0
    /\ holds = (plugin \in {"network", "expiry"})
    /\ date = None
    /\ notAfter \in IF plugin = "expiry" THEN 0..MaxTime ELSE {0}
    /\ alarm = 0 /\ lastError = None /\ lastRun = None /\ since = None
    /\ lost = FALSE

-----------------------------------------------------------------------------
(* The priorities *)

\* Mutant: the priority starts at the lowest one.
RebootPriorityFromLowest(days) ==
    CASE days < 4 -> 45 [] days >= 4 /\ days < 10 -> 70
      [] days >= 10 /\ days < 30 -> 90 [] days >= 30 -> 45

\* The reboot plugin, after a number of days.
RebootPriority(days) ==
    CASE days < 4 -> 45 [] days >= 4 /\ days < 10 -> 70
      [] days >= 10 /\ days < 30 -> 90 [] days >= 30 -> 100

\* The cpu plugin raises an error after 15 minutes, until then only a warning.
CpuPriority(minutes) == IF minutes > 15 THEN 100 ELSE 0

\* The network plugin, 5 minutes after the start.
NetworkPriority(minutes) ==
    CASE minutes < 5 -> 0
      [] minutes >= 5 /\ minutes - 5 <= 1 -> 15
      [] minutes - 5 > 1 /\ minutes - 5 <= 5 -> 30
      [] minutes - 5 > 5 /\ minutes - 5 <= 15 -> 65
      [] minutes - 5 > 15 -> 100

\* Mutant: the priority of a delay is not validated.
WarningDelaysAnyPriority ==
    LET valid == {d \in Delays : d # <<>> /\ d[1] \in 1..3660}
    IN  IF valid = {} THEN {<<7, 100>>, <<14, 85>>, <<30, 45>>} ELSE valid

\* parse_delays(): what is valid, or the default when nothing is.
WarningDelays ==
    LET valid == {d \in Delays : d # <<>> /\ d[1] \in 1..3660 /\ d[2] \in 0..100}
    IN  IF valid = {} THEN {<<7, 100>>, <<14, 85>>, <<30, 45>>} ELSE valid

\* The shortest delay that is not over yet gives the priority.
CertificatePriority(days) ==
    LET passed == {d \in WarningDelays : days <= d[1]}
    IN  IF days <= 0 THEN 100
        ELSE IF passed = {} THEN 0
        ELSE (CHOOSE d \in passed : \A other \in passed : d[1] <= other[1])[2]

-----------------------------------------------------------------------------
(* on_process_watch() of each plugin *)

\* The history of a call: whether it found something, and the priority of its error.
Called(found, priority) ==
    /\ alarm' = priority
    /\ lastError' = IF priority > 0 THEN now ELSE lastError
    /\ lastRun' = now
    /\ since' = IF ~found THEN None ELSE IF since = None THEN now ELSE since
    /\ UNCHANGED <<plugin, now, holds, up, notAfter>>

\* A write that fails leaves nothing, or an empty file.
WriteDate ==
    \/ date' = now /\ lost' = lost
    \/ date' \in {None, Garbage} /\ lost' = TRUE

\* A file that can be read is kept, even when it holds no date, which then counts
\* as now.
FileWatch(Priority(_)) ==
    /\ IF ~holds THEN date' = None /\ lost' = FALSE
       ELSE IF date = None THEN WriteDate
       ELSE UNCHANGED <<date, lost>>
    /\ Called(holds, IF ~holds THEN 0 ELSE Priority(IF date >= 0 THEN now - date ELSE 0))

\* Mutant: the file is not removed when no reboot is required any more.
RebootWatchKeepingFile ==
    /\ plugin = "reboot"
    /\ IF holds /\ date = None THEN WriteDate ELSE UNCHANGED <<date, lost>>
    /\ Called(holds, IF ~holds THEN 0
                     ELSE RebootPriority(IF date >= 0 THEN now - date ELSE 0))

RebootWatch == plugin = "reboot" /\ FileWatch(RebootPriority)

CpuWatch == plugin = "cpu" /\ FileWatch(CpuPriority)

\* The certificate can be loaded.  That its notAfter cannot be read is an error of
\* its own, and ends the streak of those about the days left.
ExpiryWatch ==
    /\ plugin = "expiry"
    /\ LET priority == CertificatePriority(notAfter - now)
       IN  Called(holds /\ priority > 0, IF holds THEN priority ELSE 90)
    /\ UNCHANGED <<date, lost>>

\* Mutant: each failure is dated, not only those reported.
AccessWatchDatingAll ==
    /\ plugin = "access"
    /\ LET report == holds /\ (date = None \/ now - date > 5)
       IN  /\ date' = IF holds THEN now ELSE date
           /\ Called(holds, IF ~report THEN 0 ELSE IF date = None THEN 75 ELSE 100)
    /\ UNCHANGED lost

\* It cannot: an error at once, then one every five hours.  The date is not erased
\* when the certificate can be loaded again.
AccessWatch ==
    /\ plugin = "access"
    /\ LET report == holds /\ (date = None \/ now - date > 5)
       IN  /\ date' = IF report THEN now ELSE date
           /\ Called(holds, IF ~report THEN 0 ELSE IF date = None THEN 75 ELSE 100)
    /\ UNCHANGED lost

\* Once READY was received the messenger counts as connected for ever.
NetworkWatch ==
    /\ plugin = "network"
    /\ LET priority == IF holds THEN NetworkPriority(now - up) ELSE 0
       IN  Called(priority > 0, priority)
    /\ UNCHANGED <<date, lost>>

-----------------------------------------------------------------------------
(* The environment *)

\* The flag is set or reset, the load rises or falls, the domain or its notAfter
\* comes and goes, or READY is received.
Change ==
    /\ plugin = "network" => holds
    /\ holds' = ~holds
    /\ UNCHANGED <<plugin, now, date, up, notAfter, alarm, lastError, lastRun, since,
                   lost>>

\* The certificate is renewed: its alarms start again.
Renew ==
    /\ plugin = "expiry"
    /\ notAfter' \in (notAfter + 1)..MaxTime
    /\ since' = None
    /\ UNCHANGED <<plugin, now, holds, date, up, alarm, lastError, lastRun, lost>>

Advance ==
    /\ now < MaxTime
    /\ now' = now + 1
    /\ UNCHANGED <<plugin, holds, date, up, notAfter, alarm, lastError, lastRun, since,
                   lost>>

\* The daemon starts again, possibly long after it ended: only files are kept.
Restart ==
    /\ up' = IF plugin = "network" THEN now ELSE up
    /\ holds' = (holds \/ plugin = "network")
    /\ date' = IF plugin = "access" THEN None ELSE date
    /\ since' = IF plugin = "network" THEN None ELSE since
    /\ UNCHANGED <<plugin, now, notAfter, alarm, lastError, lastRun, lost>>

\* systemd-tmpfiles removes a file that nobody touched for long; the days that
\* matter are those of the reboot plugin.
CleanCache ==
    /\ plugin = "reboot"
    /\ date >= 0 /\ now - date >= Retention
    /\ date' = None
    /\ lost' = TRUE
    /\ UNCHANGED <<plugin, now, holds, up, notAfter, alarm, lastError, lastRun, since>>

Watch == RebootWatch \/ CpuWatch \/ ExpiryWatch \/ AccessWatch \/ NetworkWatch

AlarmsNext == Watch \/ Change \/ Renew \/ Advance \/ Restart \/ CleanCache

AlarmsSpec == AlarmsInit /\ [][AlarmsNext]_alarmVars

-----------------------------------------------------------------------------
(* Correctness *)

\* The type of every variable.
TypeOK ==
    /\ plugin \in Explored
    /\ now \in 0..MaxTime /\ up \in 0..now
    /\ holds \in BOOLEAN /\ lost \in BOOLEAN
    /\ date \in (0..now) \cup {None, Garbage}
    /\ notAfter \in 0..MaxTime
    /\ alarm \in 0..100
    /\ lastError \in (0..now) \cup {None}
    /\ lastRun \in (0..now) \cup {None}
    /\ since \in (0..now) \cup {None}

\* The alarm of a plugin with a file is that of the time the calls have agreed,
\* through restarts: no call that found all well is forgotten, none that did not
\* is counted twice.
AlarmOfStreak ==
    plugin \in {"reboot", "cpu"} /\ lastRun # None /\ ~lost
        => alarm = IF since = None THEN 0
                   ELSE IF plugin = "reboot" THEN RebootPriority(lastRun - since)
                   ELSE CpuPriority(lastRun - since)

\* parse_delays(): "the list is expected to be sorted from the highest priority (and thus
\* smallest number of days) to the lowest priority".
DelaysSorted == \A d, e \in WarningDelays : d[1] <= e[1] => d[2] >= e[2]

\* As long as a problem lasts, its alarm does not become less urgent; that of a
\* certificate when the delays of the administrator are sorted as they should be.
AlarmRises ==
    [][Watch /\ plugin # "access" /\ (plugin = "expiry" => DelaysSorted)
            /\ ~lost' /\ since # None /\ since' # None
         => alarm' >= alarm]_alarmVars

\* A domain that cannot be accessed is not passed over in silence: no call finds it
\* so more than five hours after the last error about it, whatever came between the
\* two: other failures, calls that could load the certificate, restarts.
OutageNotSilent ==
    plugin = "access" /\ since # None => lastError # None /\ lastRun - lastError <= 5

=============================================================================
