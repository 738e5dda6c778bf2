------------------------------- MODULE Settings -------------------------------
(***************************************************************************)
(* What the sitter makes of the text of its numeric settings: the values   *)
(* the server's get_...() functions cache.                                 *)
(*                                                                         *)
(* The text of a setting is a record: the number of comma separated        *)
(* fields (0 for an empty string) and what advgetopt's convert_string()    *)
(* makes of the first two, <<n>> or <<>> when it refuses the field (a      *)
(* duration is already rounded up to seconds).  A refused field leaves the *)
(* converted variable as it was.                                           *)
(***************************************************************************)
EXTENDS Integers

\* The value of a cached member that is not known (yet, or any more).
Unset == -1

Larger(a, b) == IF a > b THEN a ELSE b

\* A duration no getter lets be negative; `default` when it is not valid.
ValidOr(default, d) == IF d = <<>> \/ d[1] < 0 THEN default ELSE d[1]

\* Mutant: the period is not rounded up.
PeriodNotRounded(text) == Larger(3600, ValidOr(604800, text.first))

StatisticsFrequency(text) == Larger(60, ValidOr(60, text.first))

\* Rounded up to whole hours.
StatisticsPeriod(text) ==
    ((Larger(3600, ValidOr(604800, text.first)) + 3599) \div 3600) * 3600

\* "off" and "use-period" are not durations: they have fields of their own.
StatisticsTtl(text, period) ==
    IF text.word = "off" THEN 0
    ELSE IF text.word = "use-period" THEN period
    ELSE Larger(3600, ValidOr(604800, text.first))

\* Here an invalid duration is not replaced by the default.
SettleTime(text) ==
    IF text.first = <<>> THEN Unset ELSE Larger(60, ValidOr(300, text.first))

\* The bounds and defaults of the three error report levels, those of the code:
\* each level has its own, whatever the texts of the other two say.  What is outside
\* the bounds of the low and medium priorities is clamped, what is outside those of
\* the critical priority gets the default.
Levels ==
    [low      |-> [min |-> 1, max |-> 50, priority |-> 10, below |-> 1, above |-> 50,
                   minSpan |-> 86400, span |-> 604800],
     medium   |-> [min |-> 10, max |-> 90, priority |-> 50, below |-> 10, above |-> 90,
                   minSpan |-> 3600, span |-> 259200],
     critical |-> [min |-> 1, max |-> 100, priority |-> 90, below |-> 90, above |-> 90,
                   minSpan |-> 300, span |-> 86400]]

\* Only the critical getter gives up on a third field.
TooManyFields(level, text) == level = "critical" /\ text.fields > 2

\* What the getter makes of the number it finds in the member, once converted.
Clamped(level, n) ==
    IF n < Levels[level].min THEN Levels[level].below
    ELSE IF n > Levels[level].max THEN Levels[level].above
    ELSE n

\* A null span is refused at the low level and raised to the minimum elsewhere.
ClampedSpan(level, n) ==
    IF n < 0 \/ (level = "low" /\ n = 0) THEN Levels[level].span
    ELSE Larger(Levels[level].minSpan, n)

Priority(level, text) ==
    IF text.fields = 0 \/ TooManyFields(level, text) \/ text.first = <<>>
    THEN Levels[level].priority
    ELSE Clamped(level, text.first[1])

Span(level, text) ==
    IF text.fields < 2 \/ TooManyFields(level, text) \/ text.second = <<>>
    THEN Levels[level].span
    ELSE ClampedSpan(level, text.second[1])

=============================================================================
