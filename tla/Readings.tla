------------------------------ MODULE Readings ------------------------------
(***************************************************************************)
(* The plugins that read one thing, compare it with fixed limits and keep  *)
(* nothing: what apt, memory, flags and firewall append for what they read.*)
(***************************************************************************)
EXTENDS RunErrors

\* The file of apt-check: absent, "-1", three fields, or anything else.  Of the fields
\* matter the age, in hours, and whether the two counts are the text "0".
NoFile == [kind |-> "missing"]
Unchecked == [kind |-> "-1"]
Garbled == [kind |-> "garbled"]
Counts(age, updates, security) ==
    [kind |-> "counts", age |-> age, updates |-> updates, security |-> security]

\* A day, and an hour for the check itself.
OutOfDate(file) == file.age > 24 + 1

\* Mutant: the security updates are looked for first.
AptErrorsOfSecurity(file) ==
    CASE file.kind = "missing" -> <<Error("apt", "missing", 20)>>
      [] file.kind = "-1" -> <<Error("apt", "unchecked", 98)>>
      [] file.kind = "garbled" -> <<Error("apt", "garbled", 15)>>
      [] file.kind = "counts" /\ file.security -> <<Error("apt", "security", 52)>>
      [] file.kind = "counts" /\ ~file.security /\ file.updates ->
            IF OutOfDate(file) THEN <<Error("apt", "out of date", 50)>>
            ELSE <<Error("apt", "updates", 45)>>
      [] OTHER -> <<>>

AptErrors(file) ==
    CASE file.kind = "missing" -> <<Error("apt", "missing", 20)>>
      [] file.kind = "-1" -> <<Error("apt", "unchecked", 98)>>
      [] file.kind = "garbled" -> <<Error("apt", "garbled", 15)>>
      [] file.kind = "counts" /\ OutOfDate(file) -> <<Error("apt", "out of date", 50)>>
      [] file.kind = "counts" /\ ~OutOfDate(file) /\ file.updates ->
            IF file.security THEN <<Error("apt", "security", 52)>> ELSE <<Error("apt", "updates", 45)>>
      [] OTHER -> <<>>

\* /proc/meminfo in MiB: what is not in the file, or comes from a file that could not
\* be read to its end, is 0.
MemInfo(total, available, swapTotal, swapFree) ==
    [total |-> total, available |-> available,
     swapTotal |-> swapTotal, swapFree |-> swapFree]
NoMemInfo == MemInfo(0, 0, 0, 0)

\* The quotient part / whole is less than 1 / n; 0 / 0 is not a number, and less than
\* nothing.
LessThanOneIn(n, part, whole) == whole # 0 /\ n * part < whole

HighMemoryUsage(info) ==
    info.available <= 512 /\ LessThanOneIn(5, info.available, info.total)

HighSwapUsage(info) == LessThanOneIn(2, info.swapFree, info.swapTotal)

MemoryErrors(info) ==
    (IF HighMemoryUsage(info) THEN <<Error("memory", "memory", 75)>> ELSE <<>>)
    \o (IF HighSwapUsage(info) THEN <<Error("memory", "swap", 65)>> ELSE <<>>)

\* One error for all the flags, at the priority of the worst; a flag has the priority
\* its file says.
FlagsErrors(priorities) ==
    IF priorities = {} THEN <<>>
    ELSE <<Error("flags", "raised", Max({5} \cup priorities))>>

FirewallErrors(found) == MissingProcess("firewall", found, "ipwall", 95)

=============================================================================
