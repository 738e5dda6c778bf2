---------------------------- MODULE SettingsCache ----------------------------
(***************************************************************************)
(* The server caches what it makes of the text of its settings.  The main  *)
(* thread drops a cached value when fluid-settings announces a new text    *)
(* and uses the frequency to rearm the timer; the worker thread calls the  *)
(* other getters.  Nothing locks the cache, so a getter of the worker,     *)
(* which tests the cached member, reads the text, stores the members and   *)
(* returns, is several steps, and so is clear_cache().                     *)
(*                                                                         *)
(* Concurrent accesses to the text and to a member are data races: each is *)
(* taken to read or write one whole value, and the member returned at the  *)
(* end to be either read again or still at hand in a register.             *)
(***************************************************************************)
EXTENDS Settings

CONSTANT Texts  \* for each setting in use, the texts it may be given

Priorities == {"low", "medium", "critical"}
AllSettings == Priorities \cup {"frequency", "period", "ttl", "settle"}
Used == DOMAIN Texts

ASSUME TextsAssumption ==
    /\ Used \subseteq AllSettings
    /\ {"frequency", "period"} \subseteq Used
    /\ \A s \in Used : Texts[s] # {}
    /\ \A s \in Used : \A t \in Texts[s] :
            /\ t.fields \in Nat
            /\ t.first = <<>> \/ t.first[1] \in Int
            /\ t.second = <<>> \/ t.second[1] \in Int

VARIABLES
    text,     \* f_opts: the current text of each setting
    cache,    \* the cached members: f_<s> or f_<s>_priority, and f_<s>_span
    mloc,     \* the main thread: in its loop, or where it is in a change
    wloc,     \* the worker: where it is in a getter, or what the last one returned
    armed,    \* the delay given to the timer
    overlap   \* history: settings a getter and a change touched concurrently

vars == <<text, cache, mloc, wloc, armed, overlap>>

Idle == [at |-> "idle"]
Unknown == [value |-> Unset, span |-> Unset]

\* Mutant: the period is cleared alone.
AffectedAlone(s) == {s}

\* clear_cache("statistics-period") clears the TTL too, which may depend on it.
Affected(s) == {s} \cup (IF s = "period" THEN {"ttl"} \cap Used ELSE {})

Changing(s) == mloc.at # "idle" /\ s \in Affected(mloc.setting)
InGetter == wloc.at \notin {"idle", "got"}

\* The TTL may be the period: its getter calls the one of the period.
InPeriod == wloc.at \in {"period_read", "period_store", "period_return"}

Gotten ==
    (IF InGetter THEN {wloc.setting} ELSE {}) \cup (IF InPeriod THEN {"period"} ELSE {})

\* The test each getter starts with.
Known(s) ==
    IF s \in {"frequency", "period"} THEN cache[s].value > 0 ELSE cache[s].value >= 0

\* What a getter on its own makes of the texts.
FreshOf(s, texts) ==
    CASE s = "frequency" -> [Unknown EXCEPT !.value = StatisticsFrequency(texts[s])]
      [] s = "period"    -> [Unknown EXCEPT !.value = StatisticsPeriod(texts[s])]
      [] s = "ttl"       -> [Unknown EXCEPT !.value =
                                StatisticsTtl(texts[s], StatisticsPeriod(texts["period"]))]
      [] s = "settle"    -> [Unknown EXCEPT !.value = SettleTime(texts[s])]
      [] s \in Priorities -> [value |-> Priority(s, texts[s]), span |-> Span(s, texts[s])]

Fresh(s) == FreshOf(s, text)

Init ==
    /\ text \in [Used -> UNION {Texts[s] : s \in Used}]
    /\ \A s \in Used : text[s] \in Texts[s]
    /\ cache = [s \in Used |-> Unknown]
    /\ mloc = Idle
    /\ wloc = Idle
    /\ armed = 60
    /\ overlap = {}

-----------------------------------------------------------------------------
(* The main thread *)

\* tick_timer::process_timeout() arms the timer again.
ProcessTimeout ==
    /\ mloc = Idle
    /\ cache' = IF Known("frequency") THEN cache
                ELSE [cache EXCEPT !["frequency"] = Fresh("frequency")]
    /\ armed' = cache'["frequency"].value
    /\ UNCHANGED <<text, mloc, wloc, overlap>>

\* fluid_settings_changed(): the base class takes the new text first.
NewValue(s) ==
    /\ mloc = Idle
    /\ \E t \in Texts[s] \ {text[s]} : text' = [text EXCEPT ![s] = t]
    /\ mloc' = [at |-> "value", setting |-> s]
    /\ overlap' = (overlap \ Affected(s)) \cup (Gotten \cap Affected(s))
    /\ UNCHANGED <<cache, wloc, armed>>

\* A step of clear_cache() meets a getter in progress.
NoteOverlap == overlap' = overlap \cup (Gotten \cap Affected(mloc.setting))

\* Mutant: clear_cache() does not recognize the name of the frequency.
ClearAllButFrequency ==
    /\ mloc.at = "value"
    /\ cache' = IF mloc.setting = "frequency" THEN cache
                ELSE [cache EXCEPT ![mloc.setting].value = Unset]
    /\ mloc' = IF mloc.setting \in Priorities \/ Affected(mloc.setting) # {mloc.setting}
               THEN [at |-> "second", setting |-> mloc.setting] ELSE Idle
    /\ NoteOverlap
    /\ UNCHANGED <<text, wloc, armed>>

\* clear_cache(): the first member of the setting that changed.
ClearFirst ==
    /\ mloc.at = "value"
    /\ cache' = [cache EXCEPT ![mloc.setting].value = Unset]
    /\ mloc' = IF mloc.setting \in Priorities \/ Affected(mloc.setting) # {mloc.setting}
               THEN [at |-> "second", setting |-> mloc.setting] ELSE Idle
    /\ NoteOverlap
    /\ UNCHANGED <<text, wloc, armed>>

\* clear_cache(): the span of a priority, or the TTL after the period.
ClearSecond ==
    /\ mloc.at = "second"
    /\ cache' = IF mloc.setting \in Priorities
                THEN [cache EXCEPT ![mloc.setting].span = Unset]
                ELSE [cache EXCEPT !["ttl"].value = Unset]
    /\ mloc' = Idle
    /\ NoteOverlap
    /\ UNCHANGED <<text, wloc, armed>>

-----------------------------------------------------------------------------
(* The worker thread *)

StartGetter(s) ==
    /\ ~InGetter
    /\ s # "frequency"
    /\ overlap' = IF Changing(s) THEN overlap \cup {s} ELSE overlap
    /\ UNCHANGED <<text, cache, mloc, armed>>

\* The value is known: it is returned at once.
GetKnown(s) ==
    /\ StartGetter(s)
    /\ Known(s)
    /\ wloc' = [at |-> "return", setting |-> s, value |-> cache[s].value]

\* The value is not known: the priorities first store their defaults.
GetUnknown(s) ==
    /\ StartGetter(s)
    /\ ~Known(s)
    /\ wloc' = [at |-> IF s \in Priorities THEN "default" ELSE "read", setting |-> s]

StoreDefault ==
    /\ wloc.at = "default"
    /\ cache' = [cache EXCEPT ![wloc.setting].value = Levels[wloc.setting].priority]
    /\ wloc' = [at |-> "default_span", setting |-> wloc.setting]
    /\ UNCHANGED <<text, mloc, armed, overlap>>

StoreDefaultSpan ==
    /\ wloc.at = "default_span"
    /\ cache' = [cache EXCEPT ![wloc.setting].span = Levels[wloc.setting].span]
    /\ wloc' = [at |-> "read", setting |-> wloc.setting]
    /\ UNCHANGED <<text, mloc, armed, overlap>>

\* f_opts.get_string(), and what it is converted to.  Three fields of a critical
\* priority are refused, an empty priority keeps the default, and a TTL may be the
\* period, which has a getter of its own.
ReadText ==
    /\ wloc.at = "read"
    /\ LET s == wloc.setting
           t == text[s]
           usePeriod == s = "ttl" /\ t.word = "use-period"
       IN  \/ /\ TooManyFields(s, t)
              /\ wloc' = [at |-> "got", setting |-> s, value |-> 0, span |-> cache[s].span]
           \/ /\ s \in Priorities /\ t.fields = 0
              /\ wloc' = [at |-> "return", setting |-> s, value |-> Levels[s].priority]
           \/ /\ s \in Priorities /\ t.fields # 0 /\ ~TooManyFields(s, t)
              /\ wloc' = [at |-> "convert", setting |-> s, text |-> t]
           \/ /\ usePeriod
              /\ wloc' = [at |-> "period", setting |-> s]
           \/ /\ s \notin Priorities /\ ~usePeriod
              /\ wloc' = [at |-> "store", setting |-> s, value |-> Fresh(s).value]
    /\ UNCHANGED <<text, cache, mloc, armed, overlap>>

\* A duration is stored, unless it is a settle time that is not a duration.
Store ==
    /\ wloc.at = "store"
    /\ cache' = IF wloc.value = Unset THEN cache
                ELSE [cache EXCEPT ![wloc.setting].value = wloc.value]
    /\ wloc' = [at |-> "return", setting |-> wloc.setting, value |-> wloc.value]
    /\ UNCHANGED <<text, mloc, armed, overlap>>

\* A number is converted right into the member; anything else leaves the default
\* there.
Convert ==
    /\ wloc.at = "convert"
    /\ LET s == wloc.setting  t == wloc.text IN
       IF t.first = <<>>
       THEN /\ wloc' = [at |-> "convert_span", setting |-> s, text |-> t,
                        value |-> Levels[s].priority]
            /\ cache' = cache
       ELSE /\ wloc' = [at |-> "clamp", setting |-> s, text |-> t, value |-> t.first[1]]
            /\ cache' = [cache EXCEPT ![s].value = t.first[1]]
    /\ UNCHANGED <<text, mloc, armed, overlap>>

\* The member is compared with its bounds and replaced when it is outside of them.
Clamp ==
    /\ wloc.at = "clamp"
    /\ LET s == wloc.setting IN
       \E v \in {cache[s].value, wloc.value} :
            /\ cache' = IF Clamped(s, v) = v THEN cache
                        ELSE [cache EXCEPT ![s].value = Clamped(s, v)]
            /\ wloc' = [at |-> "convert_span", setting |-> s, text |-> wloc.text,
                        value |-> Clamped(s, v)]
    /\ UNCHANGED <<text, mloc, armed, overlap>>

\* A span that is missing or not a duration leaves its default in the member.
ConvertSpan ==
    /\ wloc.at = "convert_span"
    /\ LET given == wloc.text.fields >= 2 /\ wloc.text.second # <<>> IN
       /\ wloc' = [at |-> IF given THEN "clamp_span" ELSE "return",
                   setting |-> wloc.setting, text |-> wloc.text, value |-> wloc.value]
       /\ cache' = IF given
                   THEN [cache EXCEPT ![wloc.setting].span = wloc.text.second[1]]
                   ELSE cache
    /\ UNCHANGED <<text, mloc, armed, overlap>>

ClampSpan ==
    /\ wloc.at = "clamp_span"
    /\ LET s == wloc.setting IN
       \E v \in {cache[s].span, wloc.text.second[1]} :
            cache' = IF ClampedSpan(s, v) = v THEN cache
                     ELSE [cache EXCEPT ![s].span = ClampedSpan(s, v)]
    /\ wloc' = [at |-> "return", setting |-> wloc.setting, value |-> wloc.value]
    /\ UNCHANGED <<text, mloc, armed, overlap>>

\* The TTL is the period: get_statistics_period() goes through its own steps.
StartPeriod ==
    /\ wloc.at = "period"
    /\ wloc' = IF Known("period")
               THEN [at |-> "period_return", setting |-> "ttl",
                     value |-> cache["period"].value]
               ELSE [at |-> "period_read", setting |-> "ttl"]
    /\ overlap' = overlap \cup (IF Changing("period") THEN {"period", "ttl"}
                              ELSE IF "period" \in overlap THEN {"ttl"} ELSE {})
    /\ UNCHANGED <<text, cache, mloc, armed>>

ReadPeriod ==
    /\ wloc.at = "period_read"
    /\ wloc' = [at |-> "period_store", setting |-> "ttl", value |-> Fresh("period").value]
    /\ UNCHANGED <<text, cache, mloc, armed, overlap>>

StorePeriod ==
    /\ wloc.at = "period_store"
    /\ cache' = [cache EXCEPT !["period"].value = wloc.value]
    /\ wloc' = [at |-> "period_return", setting |-> "ttl", value |-> wloc.value]
    /\ UNCHANGED <<text, mloc, armed, overlap>>

ReturnPeriod ==
    /\ wloc.at = "period_return"
    /\ \E v \in {cache["period"].value, wloc.value} :
          wloc' = [at |-> "store", setting |-> "ttl", value |-> v]
    /\ UNCHANGED <<text, cache, mloc, armed, overlap>>

\* The member is returned, read again or from a register; the span getters read
\* the span after that.
Return ==
    /\ wloc.at = "return"
    /\ \E v \in {cache[wloc.setting].value, wloc.value} :
          wloc' = [at |-> "got", setting |-> wloc.setting, value |-> v,
                   span |-> cache[wloc.setting].span]
    /\ UNCHANGED <<text, cache, mloc, armed, overlap>>

-----------------------------------------------------------------------------
(* The specification *)

GetterStep ==
    \/ StoreDefault \/ StoreDefaultSpan \/ ReadText
    \/ Store \/ Convert \/ Clamp \/ ConvertSpan \/ ClampSpan
    \/ StartPeriod \/ ReadPeriod \/ StorePeriod \/ ReturnPeriod
    \/ Return

Next ==
    \/ ProcessTimeout
    \/ \E s \in Used : NewValue(s)
    \/ ClearFirst \/ ClearSecond
    \/ \E s \in Used : GetKnown(s) \/ GetUnknown(s)
    \/ GetterStep

Spec == Init /\ [][Next]_vars

-----------------------------------------------------------------------------
(* Correctness *)

\* A setting nobody is changing or getting is unknown or what its text says.
Coherent(s) ==
    mloc = Idle /\ s \notin Gotten => cache[s].value = Unset \/ cache[s] = Fresh(s)

\* As long as no getter of the worker ran into a change of the same setting, be it
\* the getter of the period called by the one of the TTL, the cache is never stale,
\* whatever was cleared, recomputed and changed (the getters and clear_cache()).
CoherentUnlessOverlap == \A s \in Used \ overlap : Coherent(s)

\* The frequency is known from the last timeout on, until it changes: as long as
\* it is, that timeout armed the timer with the current frequency, and when it is
\* not, the next one will.  The main thread alone uses it, so no race spoils this.
ArmedWithCurrentFrequency ==
    mloc = Idle /\ Known("frequency") => armed = StatisticsFrequency(text["frequency"])

\* The bounds the getters enforce, one setting at a time (MINIMUM_... and
\* MAXIMUM_... of the server).
Bounded(s, v) ==
    CASE s = "period" -> v >= 3600 /\ v % 3600 = 0
      [] s = "ttl" -> v = 0 \/ v >= 3600
      [] s = "settle" -> v >= 60
      [] s \in Priorities -> v \in Levels[s].min..Levels[s].max
      [] OTHER -> TRUE

BoundedSpan(s, v) == s \in Priorities => v >= Levels[s].minSpan

\* A settle time that is not a duration is not known; a critical priority of three
\* fields is 0.
Refused(s, v) ==
    \/ s = "settle" /\ v = Unset /\ text[s].first = <<>>
    \/ TooManyFields(s, text[s]) /\ v = 0

\* Whatever texts are given, and whenever the main thread clears the members a getter
\* of the worker works on, what the getter returns is within its bounds, or the -1 of
\* a member that was cleared under it.  A getter nobody interfered with never returns
\* that -1 (the return statements of the getters, with the clears of clear_cache()).
ReturnsInBounds ==
    [][wloc'.at = "got" =>
        LET s == wloc'.setting  cleared == s \in overlap IN
        /\ \/ Bounded(s, wloc'.value)
           \/ Refused(s, wloc'.value)
           \/ cleared /\ wloc'.value = Unset
        /\ BoundedSpan(s, wloc'.span) \/ (cleared /\ wloc'.span = Unset)]_wloc

\* The configuration file gives the span of each level a minimum: a span returned
\* for a priority that is known, with no change going on, is not below it.
SpanHasMinimum ==
    [][\A s \in Priorities \cap Used :
        mloc = Idle /\ GetKnown(s) => BoundedSpan(s, cache[s].span)]_vars

=============================================================================
