------------------------- MODULE SettingsCacheProofs -------------------------
(***************************************************************************)
(* Proofs about SettingsCache, for any settings and any texts of them.     *)
(*                                                                         *)
(* That the cache is coherent when nobody touches it is not inductive: it  *)
(* is what a getter of the worker brings about step by step, so the        *)
(* invariant says what the members of a setting are at each of its steps,  *)
(* and that a getter that met no change (`overlap`) works on the text that *)
(* is current.                                                             *)
(***************************************************************************)
EXTENDS SettingsCache, TLAPS

\* The members of a setting are unknown, or what its text says.
Right(s) == cache[s].value = Unset \/ cache[s] = Fresh(s)

Default(s) == [value |-> Levels[s].priority, span |-> Levels[s].span]

\* The text of a setting is what getters can convert.
TextOf(t) ==
    /\ t.fields \in Nat
    /\ t.first = <<>> \/ t.first[1] \in Int
    /\ t.second = <<>> \/ t.second[1] \in Int

Typed ==
    /\ \A s \in Used : text[s] \in Texts[s]
    /\ DOMAIN text = Used
    /\ cache \in [Used -> [value : Int, span : Int]]
    /\ \A s \in Used \ Priorities : cache[s].span = Unset
    /\ overlap \subseteq Used \ {"frequency"}

\* Where the getter of a priority is between the text and the members.
Converting == {"convert", "clamp", "convert_span", "clamp_span"}

Places ==
    /\ mloc.at \in {"idle", "value", "second"}
    /\ mloc.at = "idle" => mloc = Idle
    /\ mloc.at # "idle" => mloc.setting \in Used
    /\ mloc.at = "second" => mloc.setting \in Priorities \cup {"period"}
    /\ InGetter => wloc.setting \in Used \ {"frequency"}
    /\ wloc.at \in {"default", "default_span"} \cup Converting => wloc.setting \in Priorities
    /\ wloc.at = "store" => wloc.setting \notin Priorities
    /\ wloc.at = "period" \/ InPeriod => wloc.setting = "ttl"
    /\ wloc.at \in {"idle", "got", "default", "default_span", "read", "convert", "clamp",
                    "convert_span", "clamp_span", "store", "period", "period_read",
                    "period_store", "period_return", "return"}
    /\ wloc.at \in {"clamp", "store", "period_store", "period_return"} => wloc.value \in Int
    /\ wloc.at \in Converting => TextOf(wloc.text)
    /\ wloc.at = "clamp_span" => wloc.text.fields >= 2 /\ wloc.text.second # <<>>

\* What is neither being changed nor got is right.
Rest == \A s \in Used \ overlap : ~Changing(s) /\ s \notin Gotten => Right(s)

\* The value that clear_cache() cleared first is still unknown when it goes on.
Cleared ==
    mloc.at = "second" /\ mloc.setting \notin overlap => cache[mloc.setting].value = Unset

\* What a getter has found and stored so far, its setting being s.
Progress(s) ==
    /\ wloc.at = "default_span" => cache[s].value = Levels[s].priority
    /\ wloc.at \in {"read", "convert"} /\ s \in Priorities => cache[s] = Default(s)
    /\ wloc.at \in {"read", "period", "store"} /\ s \notin Priorities => Right(s)
    /\ wloc.at \in Converting =>
            wloc.text = text[s] /\ text[s].fields # 0 /\ ~TooManyFields(s, text[s])
    /\ wloc.at = "clamp" =>
            /\ text[s].first # <<>> /\ wloc.value = text[s].first[1]
            /\ cache[s] = [value |-> wloc.value, span |-> Levels[s].span]
    /\ wloc.at \in {"convert_span", "clamp_span", "store", "return"} =>
            wloc.value = Fresh(s).value
    /\ wloc.at = "convert_span" =>
            cache[s] = [value |-> Fresh(s).value, span |-> Levels[s].span]
    /\ wloc.at = "clamp_span" =>
            cache[s] = [value |-> Fresh(s).value, span |-> wloc.text.second[1]]
    /\ wloc.at = "period" => text[s].word = "use-period"
    /\ InPeriod => Right(s) /\ text[s].word = "use-period" /\ "period" \notin overlap
    /\ wloc.at = "return" => cache[s] = Fresh(s)

GetterRight ==
    InGetter /\ wloc.setting \notin overlap =>
        ~Changing(wloc.setting) /\ Progress(wloc.setting)

\* The same of the getter of the period that the one of the TTL calls.
PeriodRight ==
    InPeriod /\ "period" \notin overlap =>
        /\ ~Changing("period")
        /\ wloc.at \in {"period_read", "period_store"} => Right("period")
        /\ wloc.at \in {"period_store", "period_return"} => wloc.value = Fresh("period").value
        /\ wloc.at = "period_return" => cache["period"] = Fresh("period")

Armed ==
    ~Changing("frequency") /\ Known("frequency") =>
        armed = StatisticsFrequency(text["frequency"])

IInv == Typed /\ Places /\ Rest /\ Cleared /\ GetterRight /\ PeriodRight /\ Armed

-----------------------------------------------------------------------------
(* What is made of a text *)

LEMMA EachText == \A s \in Used : \A t \in Texts[s] : TextOf(t)
BY TextsAssumption DEF TextOf

LEMMA Names == "frequency" \in Used /\ "period" \in Used /\ Used \subseteq AllSettings
BY TextsAssumption

LEMMA PriorityFresh ==
    ASSUME NEW s \in Priorities, NEW texts
    PROVE  FreshOf(s, texts) = [value |-> Priority(s, texts[s]), span |-> Span(s, texts[s])]
BY DEF FreshOf, Priorities

LEMMA OtherFresh ==
    ASSUME NEW texts
    PROVE  /\ FreshOf("frequency", texts) =
                [value |-> StatisticsFrequency(texts["frequency"]), span |-> Unset]
           /\ FreshOf("period", texts) =
                [value |-> StatisticsPeriod(texts["period"]), span |-> Unset]
           /\ FreshOf("ttl", texts) =
                [value |-> StatisticsTtl(texts["ttl"], StatisticsPeriod(texts["period"])),
                 span |-> Unset]
           /\ FreshOf("settle", texts) =
                [value |-> SettleTime(texts["settle"]), span |-> Unset]
BY DEF FreshOf, Priorities, Unknown

\* The values of a setting depend on its text, and on that of the period for the TTL.
LEMMA FreshLocal ==
    ASSUME NEW s \in AllSettings, NEW texts, NEW others, texts[s] = others[s],
           s = "ttl" => texts["period"] = others["period"]
    PROVE  FreshOf(s, texts) = FreshOf(s, others)
BY PriorityFresh, OtherFresh DEF AllSettings

LEMMA PriorityType ==
    ASSUME NEW s \in Priorities, NEW t, TextOf(t)
    PROVE  Priority(s, t) \in Nat /\ Span(s, t) \in Int
BY DEF Priorities, TextOf, Priority, Span, Clamped, ClampedSpan, Levels, TooManyFields,
       Larger

LEMMA DurationType ==
    ASSUME NEW t, TextOf(t)
    PROVE  /\ StatisticsFrequency(t) \in Int
           /\ StatisticsPeriod(t) \in Int
           /\ SettleTime(t) \in Int
           /\ \A period \in Int : StatisticsTtl(t, period) \in Int
BY DEF TextOf, StatisticsFrequency, StatisticsPeriod, SettleTime, StatisticsTtl, Larger,
       ValidOr, Unset

LEMMA FreshType ==
    ASSUME NEW s \in Used, NEW texts, \A u \in Used : texts[u] \in Texts[u]
    PROVE  /\ FreshOf(s, texts) \in [value : Int, span : Int]
           /\ s \notin Priorities => FreshOf(s, texts).span = Unset
<1>1. s \in AllSettings /\ \A u \in Used : TextOf(texts[u])
    BY EachText, Names
<1>2. CASE s \in Priorities
    BY <1>1, <1>2, PriorityFresh, PriorityType
<1>3. Unset \in Int
    BY DEF Unset
<1>4. CASE s = "frequency"
    <2>1. StatisticsFrequency(texts["frequency"]) \in Int
        BY <1>1, <1>4, DurationType
    <2>2. FreshOf(s, texts) = [value |-> StatisticsFrequency(texts["frequency"]), span |-> Unset]
        BY <1>4, OtherFresh
    <2> QED BY <2>1, <2>2, <1>3
<1>5. CASE s = "period"
    <2>1. StatisticsPeriod(texts["period"]) \in Int
        BY <1>1, <1>5, DurationType
    <2>2. FreshOf(s, texts) = [value |-> StatisticsPeriod(texts["period"]), span |-> Unset]
        BY <1>5, OtherFresh
    <2> QED BY <2>1, <2>2, <1>3
<1>6. CASE s = "settle"
    <2>1. SettleTime(texts["settle"]) \in Int
        BY <1>1, <1>6, DurationType
    <2>2. FreshOf(s, texts) = [value |-> SettleTime(texts["settle"]), span |-> Unset]
        BY <1>6, OtherFresh
    <2> QED BY <2>1, <2>2, <1>3
<1>7. CASE s = "ttl"
    <2> DEFINE ttl == StatisticsTtl(texts["ttl"], StatisticsPeriod(texts["period"]))
    <2>1. StatisticsPeriod(texts["period"]) \in Int
        BY <1>1, DurationType, Names
    <2>2. ttl \in Int
        BY <2>1, <1>1, <1>7, DurationType
    <2>3. FreshOf(s, texts) = [value |-> ttl, span |-> Unset]
        BY <1>7, OtherFresh
    <2> HIDE DEF ttl
    <2> QED BY <2>2, <2>3, <1>3
<1> QED BY <1>1, <1>2, <1>4, <1>5, <1>6, <1>7 DEF AllSettings

\* The defaults, where the text gives nothing else.
LEMMA DefaultFresh ==
    ASSUME NEW s \in Priorities, NEW texts
    PROVE  /\ TooManyFields(s, texts[s]) \/ texts[s].fields = 0 =>
                FreshOf(s, texts) = Default(s)
           /\ texts[s].first = <<>> => FreshOf(s, texts).value = Levels[s].priority
           /\ texts[s].fields \in Nat /\ (texts[s].fields < 2 \/ texts[s].second = <<>>)
                => FreshOf(s, texts).span = Levels[s].span
BY PriorityFresh DEF Priority, Span, Default

\* Otherwise, what the getter makes of the number and of the span it was given.
LEMMA GivenFresh ==
    ASSUME NEW s \in Priorities, NEW texts, texts[s].fields # 0,
           ~TooManyFields(s, texts[s])
    PROVE  /\ texts[s].first # <<>> =>
                FreshOf(s, texts).value = Clamped(s, texts[s].first[1])
           /\ ~(texts[s].fields < 2) /\ texts[s].second # <<>> =>
                FreshOf(s, texts).span = ClampedSpan(s, texts[s].second[1])
BY PriorityFresh DEF Priority, Span

\* A member is unset or not, and a record is known by its two fields.
LEMMA Records ==
    ASSUME NEW c, c \in [value : Int, span : Int], NEW d, d \in [value : Int, span : Int]
    PROVE  c = d <=> c.value = d.value /\ c.span = d.span
OBVIOUS

LEMMA InitInvariant == Init => IInv
<1> SUFFICES ASSUME Init PROVE IInv
    OBVIOUS
<1>1. Typed
    BY DEF Init, Typed, Unknown, Unset
<1>2. Places /\ Rest /\ Cleared /\ GetterRight /\ PeriodRight
    BY DEF Init, Places, Rest, Cleared, GetterRight, PeriodRight, Idle, InGetter, InPeriod,
           Converting, Right, Unknown
<1>3. Armed
    BY Names DEF Init, Armed, Known, Unknown, Unset
<1> QED BY <1>1, <1>2, <1>3 DEF IInv

\* The settings whose getters are running.
LEMMA Getters ==
    ASSUME Typed, Places
    PROVE  /\ Gotten \subseteq Used \ {"frequency"}
           /\ InGetter => wloc.setting \in Gotten
           /\ InPeriod => InGetter /\ "period" \in Gotten /\ wloc.setting = "ttl"
           /\ ~InPeriod => Gotten = IF InGetter THEN {wloc.setting} ELSE {}
           /\ InPeriod => Gotten = {"ttl", "period"}
           /\ ~InGetter => Gotten = {}
BY Names DEF Places, Gotten, InGetter, InPeriod

-----------------------------------------------------------------------------
(* The main thread keeps the invariant *)

LEMMA ProcessTimeoutKeeps == IInv /\ ProcessTimeout => IInv'
<1> SUFFICES ASSUME IInv, ProcessTimeout PROVE IInv'
    OBVIOUS
<1> USE Names DEF IInv
<1>1. /\ \A s \in Used \ {"frequency"} : cache'[s] = cache[s]
      /\ cache'["frequency"] = Fresh("frequency")
      /\ cache' \in [Used -> [value : Int, span : Int]]
      /\ cache'["frequency"].span = Unset
    <2>1. CASE Known("frequency")
        <3>1. ~Changing("frequency") /\ "frequency" \notin Gotten \cup overlap
            BY Getters DEF ProcessTimeout, Changing, Idle, Typed
        <3>2. cache["frequency"] = Fresh("frequency")
            BY <3>1, <2>1 DEF Rest, Right, Known, Unset
        <3> QED BY <2>1, <3>2 DEF ProcessTimeout, Typed, Priorities
    <2>2. CASE ~Known("frequency")
        <3>1. /\ Fresh("frequency") \in [value : Int, span : Int]
              /\ Fresh("frequency").span = Unset
            BY FreshType DEF Fresh, Typed, Priorities
        <3> QED BY <2>2, <3>1 DEF ProcessTimeout, Typed
    <2> QED BY <2>1, <2>2
<1>2. Typed' /\ Places'
    BY <1>1 DEF ProcessTimeout, Typed, Places, InGetter, InPeriod
<1>3. \A s : Fresh(s)' = Fresh(s)
    BY DEF ProcessTimeout, Fresh
<1>4. Rest'
    BY <1>1, <1>3 DEF ProcessTimeout, Rest, Right, Changing, Gotten, InGetter, InPeriod
<1>5. Cleared'
    BY DEF ProcessTimeout, Cleared, Idle
<1>6. GetterRight'
    <2> SUFFICES ASSUME InGetter, wloc.setting \notin overlap PROVE GetterRight'
        BY DEF ProcessTimeout, GetterRight, InGetter
    <2>1. wloc.setting \in Used \ {"frequency"}
        BY DEF Places
    <2>2. cache'[wloc.setting] = cache[wloc.setting] /\ Progress(wloc.setting)
        BY <1>1, <2>1 DEF GetterRight
    <2>3. Progress(wloc.setting)'
        BY <2>2, <1>3 DEF ProcessTimeout, Progress, Right, InPeriod
    <2> QED BY <2>3 DEF ProcessTimeout, GetterRight, Changing, Idle
<1>8. PeriodRight'
    <2>1. cache'["period"] = cache["period"]
        BY <1>1
    <2> QED BY <2>1, <1>3 DEF ProcessTimeout, PeriodRight, InPeriod, Right, Changing
<1>7. Armed'
    <2>1. Fresh("frequency").value = StatisticsFrequency(text["frequency"])
        BY OtherFresh DEF Fresh
    <2> QED BY <1>1, <2>1 DEF ProcessTimeout, Armed
<1> QED BY <1>2, <1>4, <1>5, <1>6, <1>7, <1>8

LEMMA NewValueKeeps == ASSUME NEW s \in Used PROVE IInv /\ NewValue(s) => IInv'
<1> SUFFICES ASSUME IInv, NewValue(s) PROVE IInv'
    OBVIOUS
<1> USE Names DEF IInv
<1>1. PICK t \in Texts[s] : text' = [text EXCEPT ![s] = t]
    BY DEF NewValue
<1>2. /\ mloc' = [at |-> "value", setting |-> s]
      /\ \A u : Changing(u)' <=> u \in Affected(s)
      /\ \A u : ~Changing(u)
    BY DEF NewValue, Changing, Idle, Affected
<1>3. Typed' /\ Places'
    <2>1. Typed'
        BY <1>1, Getters DEF NewValue, Typed
    <2>2. Places'
        BY <1>2 DEF NewValue, Places, InGetter, InPeriod
    <2> QED BY <2>1, <2>2
<1>4. \A u \in Used \ Affected(s) : text'[u] = text[u] /\ Fresh(u)' = Fresh(u)
    <2> SUFFICES ASSUME NEW u \in Used \ Affected(s)
                 PROVE  text'[u] = text[u] /\ Fresh(u)' = Fresh(u)
        OBVIOUS
    <2>1. text'[u] = text[u] /\ (u = "ttl" => text'["period"] = text["period"])
        BY <1>1 DEF Affected, Typed
    <2> QED BY <2>1, FreshLocal DEF Fresh
<1>5. /\ \A u \in Used : u \notin overlap' => u \in Affected(s) \/ u \notin overlap
      /\ \A u \in Gotten : u \notin overlap' => u \notin Affected(s)
      /\ Gotten' = Gotten
    BY DEF NewValue, Gotten, InGetter, InPeriod
<1>6. Rest'
    BY <1>2, <1>4, <1>5 DEF NewValue, Rest, Right
<1>7. Cleared'
    BY <1>2 DEF Cleared
<1>8. GetterRight'
    <2> SUFFICES ASSUME InGetter, wloc.setting \notin overlap' PROVE GetterRight'
        BY DEF NewValue, GetterRight, InGetter
    <2>1. wloc.setting \in Used
        BY DEF Places
    <2>2. wloc.setting \notin Affected(s) /\ wloc.setting \notin overlap
        BY <2>1, <1>5, Getters
    <2>3. Progress(wloc.setting)
        BY <2>2 DEF GetterRight
    <2>4. InPeriod => "period" \notin overlap'
        <3> SUFFICES ASSUME InPeriod PROVE "period" \notin overlap'
            OBVIOUS
        <3>1. "period" \notin overlap /\ wloc.setting = "ttl"
            BY <2>3, Getters DEF Progress
        <3>2. s # "period"
            BY <3>1, <2>1, <2>2 DEF Affected
        <3> QED BY <3>1, <3>2 DEF NewValue, Affected
    <2>5. Progress(wloc.setting)'
        BY <2>1, <2>2, <2>3, <2>4, <1>4 DEF NewValue, Progress, Right, InPeriod
    <2> QED BY <2>2, <2>5, <1>2 DEF NewValue, GetterRight
<1>9. Armed'
    BY <1>1, <1>2, <1>4 DEF NewValue, Armed, Known, Affected
<1>10. PeriodRight'
    <2> SUFFICES ASSUME InPeriod, "period" \notin overlap' PROVE PeriodRight'
        BY DEF NewValue, PeriodRight, InPeriod
    <2>1. "period" \notin Affected(s) /\ "period" \notin overlap
        BY <1>5, Getters
    <2> QED BY <2>1, <1>2, <1>4 DEF NewValue, PeriodRight, InPeriod, Right
<1> QED BY <1>3, <1>6, <1>7, <1>8, <1>9, <1>10

LEMMA ClearFirstKeeps == IInv /\ ClearFirst => IInv'
<1> SUFFICES ASSUME IInv, ClearFirst PROVE IInv'
    OBVIOUS
<1> USE Names DEF IInv
<1> DEFINE m == mloc.setting
<1>1. m \in Used /\ mloc.at = "value"
    BY DEF ClearFirst, Places
<1>2. /\ cache' \in [Used -> [value : Int, span : Int]]
      /\ cache'[m].value = Unset
      /\ cache'[m].span = cache[m].span
      /\ \A u \in Used \ {m} : cache'[u] = cache[u]
    BY <1>1 DEF ClearFirst, Typed, Unset
<1>3. overlap' = overlap \cup (Gotten \cap Affected(m)) /\ Gotten' = Gotten
    BY DEF ClearFirst, NoteOverlap, Gotten, InGetter, InPeriod
<1>4. \A u : Fresh(u)' = Fresh(u)
    BY DEF ClearFirst, Fresh
<1>5. \/ /\ mloc' = [at |-> "second", setting |-> m]
         /\ m \in Priorities \cup {"period"}
      \/ mloc' = Idle /\ Affected(m) = {m}
    BY <1>1 DEF ClearFirst, Affected
<1>6. Typed' /\ Places'
    <2>1. Typed'
        BY <1>2, <1>3, Getters DEF ClearFirst, Typed
    <2>2. Places'
        BY <1>1, <1>5 DEF ClearFirst, Places, InGetter, InPeriod, Idle
    <2> QED BY <2>1, <2>2
<1>7. \A u : u # m /\ Changing(u) => Changing(u)'
    BY <1>5 DEF Changing
<1>8. m \in Affected(m)
    BY DEF Affected
<1>9. \A u : Changing(u)' => Changing(u)
    BY <1>5, <1>1 DEF Changing, Idle
<1>10. Rest'
    <2> SUFFICES ASSUME NEW u \in Used, u \notin overlap', ~Changing(u)', u \notin Gotten
                 PROVE  Right(u)'
        BY <1>3 DEF Rest
    <2>1. CASE u = m
        BY <2>1, <1>2 DEF Right
    <2>2. CASE u # m
        <3>1. Right(u)
            BY <2>2, <1>3, <1>7 DEF Rest
        <3> QED BY <3>1, <2>2, <1>2, <1>4 DEF Right
    <2> QED BY <2>1, <2>2
<1>11. Cleared'
    BY <1>2, <1>5 DEF Cleared, Idle
<1>12. GetterRight'
    <2> SUFFICES ASSUME InGetter, wloc.setting \notin overlap' PROVE GetterRight'
        BY DEF ClearFirst, GetterRight, InGetter
    <2>1. /\ wloc.setting \in Used /\ wloc.setting # m /\ wloc.setting \notin overlap
          /\ wloc.setting \notin Affected(m)
        BY <1>3, <1>8, Getters
    <2>2. ~Changing(wloc.setting) /\ Progress(wloc.setting)
        BY <2>1 DEF GetterRight
    <2>3. cache'[wloc.setting] = cache[wloc.setting]
        BY <2>1, <1>2
    <2>4. InPeriod => "period" \notin overlap'
        BY <2>1, <2>2, <1>3, Getters DEF Progress, Affected
    <2>5. Progress(wloc.setting)'
        BY <2>2, <2>3, <2>4, <1>4 DEF ClearFirst, Progress, Right, InPeriod
    <2> QED BY <2>2, <2>5, <1>9 DEF ClearFirst, GetterRight
<1>14. PeriodRight'
    <2> SUFFICES ASSUME InPeriod, "period" \notin overlap' PROVE PeriodRight'
        BY DEF ClearFirst, PeriodRight, InPeriod
    <2>1. m # "period" /\ "period" \notin overlap
        BY <1>3, <1>8, Getters
    <2>2. cache'["period"] = cache["period"]
        BY <2>1, <1>2
    <2> QED BY <2>1, <2>2, <1>4, <1>9 DEF ClearFirst, PeriodRight, InPeriod, Right
<1>13. Armed'
    <2>1. CASE m = "frequency"
        BY <2>1, <1>2 DEF Armed, Known, Unset
    <2>2. CASE m # "frequency"
        <3>1. ~Changing("frequency")
            BY <2>2 DEF Changing, Affected
        <3> QED BY <3>1, <2>2, <1>2 DEF ClearFirst, Armed, Known
    <2> QED BY <2>1, <2>2
<1> QED BY <1>6, <1>10, <1>11, <1>12, <1>13, <1>14

LEMMA ClearSecondKeeps == IInv /\ ClearSecond => IInv'
<1> SUFFICES ASSUME IInv, ClearSecond PROVE IInv'
    OBVIOUS
<1> USE Names DEF IInv
<1> DEFINE m == mloc.setting
<1>1. m \in Used /\ mloc.at = "second" /\ mloc' = Idle /\ m \in Priorities \cup {"period"}
    BY DEF ClearSecond, Places
<1>2. /\ cache' \in [Used -> [value : Int, span : Int]]
      /\ \A u \in Used \ Affected(m) : cache'[u] = cache[u]
      /\ \A u \in Used \ Priorities : cache'[u].span = cache[u].span
      /\ cache'[m].value = cache[m].value
      /\ \A u \in Used \ {m} : u \in Affected(m) => cache'[u].value = Unset
    BY <1>1 DEF ClearSecond, Typed, Unset, Affected, Priorities
<1>3. overlap' = overlap \cup (Gotten \cap Affected(m)) /\ Gotten' = Gotten
    BY DEF ClearSecond, NoteOverlap, Gotten, InGetter, InPeriod
<1>4. \A u : Fresh(u)' = Fresh(u)
    BY DEF ClearSecond, Fresh
<1>5. Typed' /\ Places'
    <2>1. Typed'
        BY <1>2, <1>3, Getters DEF ClearSecond, Typed
    <2>2. Places'
        BY <1>1 DEF ClearSecond, Places, InGetter, InPeriod, Idle
    <2> QED BY <2>1, <2>2
<1>6. \A u : ~Changing(u)' /\ (Changing(u) <=> u \in Affected(m))
    BY <1>1 DEF Changing, Idle
<1>7. Rest'
    <2> SUFFICES ASSUME NEW u \in Used, u \notin overlap', u \notin Gotten
                 PROVE  Right(u)'
        BY <1>3 DEF Rest
    <2>1. CASE u = m
        BY <2>1, <1>1, <1>2, <1>3 DEF Right, Cleared
    <2>2. CASE u # m /\ u \in Affected(m)
        BY <2>2, <1>2 DEF Right
    <2>3. CASE u \notin Affected(m)
        <3>1. Right(u)
            BY <2>3, <1>3, <1>6 DEF Rest
        <3> QED BY <3>1, <2>3, <1>2, <1>4 DEF Right
    <2> QED BY <2>1, <2>2, <2>3
<1>8. Cleared'
    BY <1>1 DEF Cleared, Idle
<1>9. GetterRight'
    <2> SUFFICES ASSUME InGetter, wloc.setting \notin overlap' PROVE GetterRight'
        BY DEF ClearSecond, GetterRight, InGetter
    <2>1. wloc.setting \in Used \ Affected(m) /\ wloc.setting \notin overlap
        BY <1>3, Getters
    <2>2. Progress(wloc.setting)
        BY <2>1 DEF GetterRight
    <2>3. cache'[wloc.setting] = cache[wloc.setting]
        BY <2>1, <1>2
    <2>4. InPeriod => "period" \notin overlap'
        BY <2>1, <2>2, <1>3, Getters DEF Progress, Affected
    <2>5. Progress(wloc.setting)'
        BY <2>2, <2>3, <2>4, <1>4 DEF ClearSecond, Progress, Right, InPeriod
    <2> QED BY <2>5, <1>6 DEF ClearSecond, GetterRight
<1>11. PeriodRight'
    <2> SUFFICES ASSUME InPeriod, "period" \notin overlap' PROVE PeriodRight'
        BY DEF ClearSecond, PeriodRight, InPeriod
    <2>1. "period" \notin Affected(m) /\ "period" \notin overlap
        BY <1>3, Getters
    <2>2. cache'["period"] = cache["period"]
        BY <2>1, <1>2, Names
    <2> QED BY <2>1, <2>2, <1>4, <1>6 DEF ClearSecond, PeriodRight, InPeriod, Right
<1>10. Armed'
    <2>1. "frequency" \notin Affected(m)
        BY <1>1 DEF Affected, Priorities
    <2> QED BY <2>1, <1>2, <1>6 DEF ClearSecond, Armed, Known
<1> QED BY <1>5, <1>7, <1>8, <1>9, <1>10, <1>11

-----------------------------------------------------------------------------
(* The worker thread keeps the invariant *)

LEMMA StartKeeps ==
    ASSUME IInv, NEW s \in Used, GetKnown(s) \/ GetUnknown(s)
    PROVE  IInv'
<1> USE Names DEF IInv
<1>1. /\ ~InGetter /\ s # "frequency"
      /\ UNCHANGED <<text, cache, mloc, armed>>
      /\ overlap' = IF Changing(s) THEN overlap \cup {s} ELSE overlap
      /\ wloc'.setting = s
      /\ \A u : (Changing(u)' <=> Changing(u)) /\ Fresh(u)' = Fresh(u)
    BY DEF GetKnown, GetUnknown, StartGetter, Changing, Fresh
<1>2. /\ \/ wloc'.at = "return" \/ (wloc'.at = "default" /\ s \in Priorities)
         \/ wloc'.at = "read" /\ s \notin Priorities
      /\ ~InPeriod'
    BY DEF GetKnown, GetUnknown, InPeriod
<1>3. Typed' /\ Places'
    <2>1. Typed'
        BY <1>1 DEF Typed
    <2>2. Places'
        BY <1>1, <1>2 DEF Places, InGetter, InPeriod, Priorities, Converting
    <2> QED BY <2>1, <2>2
<1>4. Rest' /\ Cleared' /\ Armed' /\ PeriodRight'
    <2>1. Gotten = {}
        BY <1>1, Getters
    <2> QED BY <1>1, <1>2, <2>1 DEF Rest, Right, Cleared, Armed, Known, PeriodRight
<1>5. GetterRight'
    <2> SUFFICES ASSUME s \notin overlap' PROVE ~Changing(s) /\ Progress(s)'
        BY <1>1 DEF GetterRight
    <2>1. ~Changing(s) /\ s \notin overlap
        BY <1>1
    <2>2. Right(s)
        BY <2>1, <1>1, Getters DEF Rest
    <2>3. CASE GetKnown(s)
        <3>1. cache[s].value # Unset /\ wloc' = [at |-> "return", setting |-> s,
                                               value |-> cache[s].value]
            BY <2>3 DEF GetKnown, Known, Unset, Typed
        <3>2. cache[s] = Fresh(s) /\ wloc'.value = Fresh(s).value
            BY <2>2, <3>1 DEF Right
        <3> QED BY <2>1, <3>1, <3>2, <1>1 DEF Progress, Converting, InPeriod
    <2>4. CASE GetUnknown(s)
        <3>1. (wloc'.at = "default" /\ s \in Priorities)
              \/ (wloc'.at = "read" /\ s \notin Priorities)
            BY <2>4 DEF GetUnknown
        <3> QED BY <2>1, <2>2, <3>1, <1>1 DEF Progress, Right, Converting, InPeriod
    <2> QED BY <2>3, <2>4
<1> QED BY <1>3, <1>4, <1>5

\* A step of the getter in progress that stores at most the setting it gets.
LEMMA GetterKeeps ==
    ASSUME IInv, InGetter, ~InPeriod, ~InPeriod', UNCHANGED <<text, mloc, armed, overlap>>,
           \A u \in Used \ {wloc.setting} : cache'[u] = cache[u],
           wloc'.setting = wloc.setting,
           ~InGetter' /\ wloc.setting \notin overlap => Right(wloc.setting)'
    PROVE  Rest' /\ Cleared' /\ Armed' /\ PeriodRight'
<1> USE Names DEF IInv
<1>1. \A u : (Changing(u)' <=> Changing(u)) /\ Fresh(u)' = Fresh(u)
    BY DEF Changing, Fresh
<1>2. wloc.setting \in Used \ {"frequency"}
    BY DEF Places
<1>3. Rest'
    <2> SUFFICES ASSUME NEW u \in Used, u \notin overlap, ~Changing(u), u \notin Gotten'
                 PROVE  Right(u)'
        BY <1>1 DEF Rest
    <2>1. CASE u = wloc.setting
        <3>1. ~InGetter'
            BY <2>1 DEF Gotten
        <3> QED BY <3>1, <2>1
    <2>2. CASE u # wloc.setting
        <3>1. Right(u)
            BY <2>2, Getters DEF Rest
        <3> QED BY <3>1, <2>2, <1>1 DEF Right
    <2> QED BY <2>1, <2>2
<1>4. Cleared'
    <2> SUFFICES ASSUME mloc.at = "second", mloc.setting \notin overlap
                 PROVE  cache'[mloc.setting].value = Unset
        BY DEF Cleared
    <2>1. mloc.setting \in Used /\ Changing(mloc.setting)
        BY DEF Places, Changing, Affected
    <2>2. mloc.setting # wloc.setting
        BY <2>1 DEF GetterRight
    <2> QED BY <2>1, <2>2 DEF Cleared
<1>5. Armed'
    BY <1>1, <1>2 DEF Armed, Known
<1>6. PeriodRight'
    BY DEF PeriodRight
<1> QED BY <1>3, <1>4, <1>5, <1>6

LEMMA StoreDefaultKeeps == IInv /\ StoreDefault => IInv'
<1> SUFFICES ASSUME IInv, StoreDefault PROVE IInv'
    OBVIOUS
<1> DEFINE s == wloc.setting
<1> USE DEF IInv
<1>1. s \in Used \cap Priorities /\ s # "frequency" /\ InGetter /\ ~InPeriod
    BY DEF StoreDefault, Places, InGetter, InPeriod, Priorities
<1>2. Levels[s].priority \in Int
    BY <1>1 DEF Levels, Priorities
<1>3. /\ cache' \in [Used -> [value : Int, span : Int]]
      /\ cache'[s].value = Levels[s].priority
      /\ \A u \in Used \ {s} : cache'[u] = cache[u]
    BY <1>1, <1>2 DEF StoreDefault, Typed
<1>4. wloc' = [at |-> "default_span", setting |-> s] /\ InGetter' /\ ~InPeriod'
    BY DEF StoreDefault, InGetter, InPeriod
<1>5. Typed'
    BY <1>1, <1>3 DEF StoreDefault, Typed
<1>6. Places'
    BY <1>1, <1>4 DEF StoreDefault, Places, Converting
<1>7. Rest' /\ Cleared' /\ Armed' /\ PeriodRight'
    BY <1>1, <1>3, <1>4, GetterKeeps DEF StoreDefault
<1>8. GetterRight'
    BY <1>1, <1>3, <1>4
       DEF StoreDefault, GetterRight, Progress, Changing, Converting
<1> QED BY <1>5, <1>6, <1>7, <1>8

LEMMA StoreDefaultSpanKeeps == IInv /\ StoreDefaultSpan => IInv'
<1> SUFFICES ASSUME IInv, StoreDefaultSpan PROVE IInv'
    OBVIOUS
<1> DEFINE s == wloc.setting
<1> USE DEF IInv
<1>1. s \in Used \cap Priorities /\ s # "frequency" /\ InGetter /\ ~InPeriod
    BY DEF StoreDefaultSpan, Places, InGetter, InPeriod, Priorities
<1>2. Levels[s].span \in Int
    BY <1>1 DEF Levels, Priorities
<1>3. /\ cache' \in [Used -> [value : Int, span : Int]]
      /\ cache'[s] = [value |-> cache[s].value, span |-> Levels[s].span]
      /\ \A u \in Used \ {s} : cache'[u] = cache[u]
    BY <1>1, <1>2 DEF StoreDefaultSpan, Typed
<1>4. wloc' = [at |-> "read", setting |-> s] /\ InGetter' /\ ~InPeriod'
    BY DEF StoreDefaultSpan, InGetter, InPeriod
<1>5. Typed'
    BY <1>1, <1>3 DEF StoreDefaultSpan, Typed
<1>6. Places'
    BY <1>1, <1>4 DEF StoreDefaultSpan, Places, Converting
<1>7. Rest' /\ Cleared' /\ Armed' /\ PeriodRight'
    BY <1>1, <1>3, <1>4, GetterKeeps DEF StoreDefaultSpan
<1>8. GetterRight'
    BY <1>1, <1>3, <1>4
       DEF StoreDefaultSpan, GetterRight, Progress, Changing, Default, Converting
<1> QED BY <1>5, <1>6, <1>7, <1>8

LEMMA ReadTextKeeps == IInv /\ ReadText => IInv'
<1> SUFFICES ASSUME IInv, ReadText PROVE IInv'
    OBVIOUS
<1> DEFINE s == wloc.setting
<1> USE DEF IInv
<1>1. s \in Used \ {"frequency"} /\ InGetter /\ wloc.at = "read" /\ ~InPeriod
    BY DEF ReadText, Places, InGetter, InPeriod
<1>2. wloc'.setting = s
      /\ UNCHANGED <<text, cache, mloc, armed, overlap>>
    BY DEF ReadText
<1>3. /\ \A u : (Changing(u)' <=> Changing(u))
      /\ \A u : Fresh(u)' = Fresh(u)
    BY <1>2 DEF Changing, Fresh
<1>4. \/ TooManyFields(s, text[s]) /\ wloc'.at = "got"
      \/ /\ s \in Priorities /\ text[s].fields = 0
         /\ wloc'.at = "return" /\ wloc'.value = Levels[s].priority
      \/ /\ s \in Priorities /\ text[s].fields # 0 /\ ~TooManyFields(s, text[s])
         /\ wloc'.at = "convert" /\ wloc'.text = text[s]
      \/ s = "ttl" /\ text[s].word = "use-period" /\ wloc'.at = "period"
      \/ s \notin Priorities /\ wloc'.at = "store" /\ wloc'.value = Fresh(s).value
    BY DEF ReadText
<1>5. Typed'
    BY <1>2 DEF Typed
<1>6. ~InPeriod'
    BY <1>4 DEF InPeriod
<1>7. Places'
    <2>1. TextOf(text[s]) /\ Fresh(s).value \in Int
        BY <1>1, EachText, FreshType DEF Typed, Fresh
    <2> QED BY <2>1, <1>1, <1>2, <1>4, <1>6 DEF Places, Converting, Priorities
<1>8. ASSUME s \notin overlap
      PROVE  /\ ~Changing(s)
             /\ s \in Priorities => cache[s] = Default(s)
             /\ s \notin Priorities => Right(s)
    BY <1>1, <1>8 DEF GetterRight, Progress
<1>9. TooManyFields(s, text[s]) => s \in Priorities
    BY DEF TooManyFields, Priorities
<1>10. ASSUME s \notin overlap, TooManyFields(s, text[s]) \/ text[s].fields = 0, s \in Priorities
       PROVE  cache[s] = Fresh(s)
    BY <1>8, <1>10, DefaultFresh DEF Fresh
<1>11. Rest' /\ Cleared' /\ Armed' /\ PeriodRight'
    <2>1. ~InGetter' /\ s \notin overlap => Right(s)'
        BY <1>2, <1>3, <1>4, <1>9, <1>10 DEF Right, InGetter
    <2> QED BY <2>1, <1>1, <1>2, <1>6, GetterKeeps
<1>12. GetterRight'
    <2> SUFFICES ASSUME s \notin overlap, InGetter' PROVE ~Changing(s) /\ Progress(s)'
        BY <1>2, <1>3 DEF GetterRight
    <2>1. CASE wloc'.at = "return"
        <3>1. s \in Priorities /\ text[s].fields = 0 /\ wloc'.value = Levels[s].priority
            BY <2>1, <1>4
        <3>2. cache[s] = Fresh(s) /\ wloc'.value = Fresh(s).value
            BY <3>1, <1>8, <1>10 DEF Default
        <3> QED BY <3>1, <3>2, <2>1, <1>2, <1>3, <1>6, <1>8 DEF Progress, Converting
    <2>2. CASE wloc'.at = "convert"
        BY <2>2, <1>2, <1>3, <1>4, <1>6, <1>8 DEF Progress, Converting, Default
    <2>3. CASE wloc'.at = "period"
        <3>1. s \notin Priorities /\ text[s].word = "use-period"
            BY <2>3, <1>4 DEF Priorities
        <3> QED BY <3>1, <2>3, <1>2, <1>3, <1>6, <1>8 DEF Progress, Right, Converting
    <2>4. CASE wloc'.at = "store"
        <3>1. s \notin Priorities /\ wloc'.value = Fresh(s).value
            BY <2>4, <1>4
        <3> QED BY <3>1, <2>4, <1>2, <1>3, <1>6, <1>8 DEF Progress, Right, Converting
    <2> QED BY <2>1, <2>2, <2>3, <2>4, <1>4 DEF InGetter
<1> QED BY <1>5, <1>7, <1>11, <1>12

LEMMA ReturnKeeps == IInv /\ Return => IInv'
<1> SUFFICES ASSUME IInv, Return PROVE IInv'
    OBVIOUS
<1> DEFINE s == wloc.setting
<1> USE DEF IInv
<1>1. /\ InGetter /\ ~InPeriod /\ ~InGetter' /\ ~InPeriod'
      /\ wloc'.setting = s /\ wloc'.at = "got"
      /\ UNCHANGED <<text, cache, mloc, armed, overlap>>
    BY DEF Return, InGetter, InPeriod
<1>2. Typed' /\ Places' /\ GetterRight'
    <2>1. Typed'
        BY <1>1 DEF Typed
    <2>2. Places'
        BY <1>1 DEF Places, Converting
    <2>3. GetterRight'
        BY <1>1 DEF GetterRight
    <2> QED BY <2>1, <2>2, <2>3
<1>3. s \notin overlap => Right(s)'
    BY <1>1 DEF Return, GetterRight, Progress, Right, Fresh
<1>4. Rest' /\ Cleared' /\ Armed' /\ PeriodRight'
    BY <1>1, <1>3, GetterKeeps
<1> QED BY <1>2, <1>4

LEMMA StoreKeeps == IInv /\ Store => IInv'
<1> SUFFICES ASSUME IInv, Store PROVE IInv'
    OBVIOUS
<1> DEFINE s == wloc.setting
<1> USE DEF IInv
<1>1. s \in Used \ ({"frequency"} \cup Priorities) /\ InGetter /\ ~InPeriod /\ wloc.at = "store"
    BY DEF Store, Places, InGetter, InPeriod
<1>2. /\ UNCHANGED <<text, mloc, armed, overlap>>
      /\ wloc' = [at |-> "return", setting |-> s, value |-> wloc.value]
      /\ cache' = IF wloc.value = Unset THEN cache ELSE [cache EXCEPT ![s].value = wloc.value]
    BY DEF Store
<1>3. /\ InGetter' /\ ~InPeriod'
      /\ \A u : (Changing(u)' <=> Changing(u)) /\ Fresh(u)' = Fresh(u)
    BY <1>2 DEF Changing, Fresh, InGetter, InPeriod
<1>4. wloc.value \in Int
    BY <1>1 DEF Places
<1>5. /\ cache' \in [Used -> [value : Int, span : Int]]
      /\ cache'[s] = IF wloc.value = Unset THEN cache[s]
                     ELSE [value |-> wloc.value, span |-> cache[s].span]
      /\ \A u \in Used \ {s} : cache'[u] = cache[u]
    BY <1>1, <1>2, <1>4 DEF Typed
<1>6. Typed'
    <2>1. cache'[s].span = cache[s].span
        BY <1>5
    <2> QED BY <1>1, <1>2, <1>5, <2>1 DEF Typed
<1>7. Places'
    BY <1>1, <1>2, <1>3 DEF Places, Converting
<1>8. Rest' /\ Cleared' /\ Armed' /\ PeriodRight'
    BY <1>1, <1>2, <1>3, <1>5, GetterKeeps
<1>9. GetterRight'
    <2> SUFFICES ASSUME s \notin overlap PROVE ~Changing(s) /\ Progress(s)'
        BY <1>2, <1>3 DEF GetterRight
    <2>1. ~Changing(s) /\ Right(s) /\ wloc.value = Fresh(s).value
        BY <1>1 DEF GetterRight, Progress
    <2>2. /\ Fresh(s) \in [value : Int, span : Int]
          /\ Fresh(s).span = Unset /\ cache[s].span = Unset
        BY <1>1, FreshType DEF Typed, Fresh
    <2>3. cache'[s] = Fresh(s)
        <3>1. CASE wloc.value = Unset
            <4>1. cache[s].value = Fresh(s).value /\ cache[s].span = Fresh(s).span
                BY <3>1, <2>1, <2>2 DEF Right
            <4> QED BY <4>1, <3>1, <1>1, <1>5, <2>2, Records DEF Typed
        <3>2. CASE wloc.value # Unset
            BY <3>2, <2>1, <2>2, <1>5
        <3> QED BY <3>1, <3>2
    <2> QED BY <2>1, <2>3, <1>1, <1>2, <1>3 DEF Progress, Converting
<1> QED BY <1>6, <1>7, <1>8, <1>9

LEMMA ConvertKeeps == IInv /\ Convert => IInv'
<1> SUFFICES ASSUME IInv, Convert PROVE IInv'
    OBVIOUS
<1> DEFINE s == wloc.setting
           first == wloc.text.first
<1> USE DEF IInv
<1>1. s \in Used \cap Priorities /\ s # "frequency" /\ InGetter /\ ~InPeriod /\ wloc.at = "convert"
    BY DEF Convert, Places, InGetter, InPeriod, Priorities, Converting
<1>2. /\ UNCHANGED <<text, mloc, armed, overlap>>
      /\ wloc'.setting = s /\ wloc'.text = wloc.text
      /\ first = <<>> => /\ wloc'.at = "convert_span" /\ wloc'.value = Levels[s].priority
                         /\ cache' = cache
      /\ first # <<>> => /\ wloc'.at = "clamp" /\ wloc'.value = first[1]
                         /\ cache' = [cache EXCEPT ![s].value = first[1]]
    BY DEF Convert
<1>3. /\ InGetter' /\ ~InPeriod'
      /\ \A u : (Changing(u)' <=> Changing(u)) /\ Fresh(u)' = Fresh(u)
    BY <1>2 DEF Changing, Fresh, InGetter, InPeriod
<1>4. TextOf(wloc.text) /\ (first # <<>> => first[1] \in Int)
    BY <1>1 DEF Places, Converting, TextOf
<1>5. /\ cache' \in [Used -> [value : Int, span : Int]]
      /\ first = <<>> => cache'[s] = cache[s]
      /\ first # <<>> => cache'[s] = [value |-> first[1], span |-> cache[s].span]
      /\ \A u \in Used \ {s} : cache'[u] = cache[u]
    <2>1. CASE first = <<>>
        BY <2>1, <1>2 DEF Typed
    <2>2. CASE first # <<>>
        <3> HIDE DEF first
        <3> QED BY <2>2, <1>1, <1>2, <1>4 DEF Typed
    <2> QED BY <2>1, <2>2
<1>6. Typed'
    BY <1>1, <1>2, <1>5 DEF Typed
<1>7. Places'
    BY <1>1, <1>2, <1>3, <1>4 DEF Places, Converting
<1>8. Rest' /\ Cleared' /\ Armed' /\ PeriodRight'
    BY <1>1, <1>2, <1>3, <1>5, GetterKeeps
<1>9. GetterRight'
    <2> SUFFICES ASSUME s \notin overlap PROVE ~Changing(s) /\ Progress(s)'
        BY <1>2, <1>3 DEF GetterRight
    <2>1. /\ ~Changing(s) /\ cache[s] = Default(s) /\ wloc.text = text[s]
          /\ text[s].fields # 0 /\ ~TooManyFields(s, text[s])
        BY <1>1 DEF GetterRight, Progress, Converting
    <2>2. CASE first = <<>>
        <3>1. Fresh(s).value = Levels[s].priority
            BY <2>1, <2>2, <1>1, DefaultFresh DEF Fresh
        <3> QED BY <3>1, <2>1, <2>2, <1>1, <1>2, <1>3, <1>5 DEF Progress, Converting, Default
    <2>3. CASE first # <<>>
        BY <2>1, <2>3, <1>1, <1>2, <1>3, <1>5 DEF Progress, Converting, Default
    <2> QED BY <2>1, <2>2, <2>3
<1> QED BY <1>6, <1>7, <1>8, <1>9

LEMMA ClampType ==
    ASSUME NEW s \in Priorities, NEW n \in Int
    PROVE  Clamped(s, n) \in Int /\ ClampedSpan(s, n) \in Int
BY DEF Priorities, Clamped, ClampedSpan, Levels, Larger

LEMMA ClampKeeps == IInv /\ Clamp => IInv'
<1> SUFFICES ASSUME IInv, Clamp PROVE IInv'
    OBVIOUS
<1> DEFINE s == wloc.setting
<1> USE DEF IInv
<1>1. s \in Used \cap Priorities /\ s # "frequency" /\ InGetter /\ ~InPeriod /\ wloc.at = "clamp"
    BY DEF Clamp, Places, InGetter, InPeriod, Priorities, Converting
<1>2. PICK v \in {cache[s].value, wloc.value} :
            /\ cache' = IF Clamped(s, v) = v THEN cache
                        ELSE [cache EXCEPT ![s].value = Clamped(s, v)]
            /\ wloc' = [at |-> "convert_span", setting |-> s, text |-> wloc.text,
                        value |-> Clamped(s, v)]
    BY DEF Clamp
<1>3. /\ InGetter' /\ ~InPeriod'
      /\ UNCHANGED <<text, mloc, armed, overlap>>
      /\ \A u : (Changing(u)' <=> Changing(u)) /\ Fresh(u)' = Fresh(u)
    BY <1>2 DEF Clamp, Changing, Fresh, InGetter, InPeriod
<1>4. v \in Int /\ Clamped(s, v) \in Int /\ TextOf(wloc.text)
    BY <1>1, ClampType DEF Typed, Places, Converting
<1>5. /\ cache' \in [Used -> [value : Int, span : Int]]
      /\ cache[s].value = v => cache'[s] = [value |-> Clamped(s, v), span |-> cache[s].span]
      /\ \A u \in Used \ {s} : cache'[u] = cache[u]
    BY <1>1, <1>2, <1>4 DEF Typed
<1>6. Typed'
    BY <1>1, <1>3, <1>5 DEF Typed
<1>7. Places'
    BY <1>1, <1>2, <1>3, <1>4 DEF Places, Converting
<1>8. Rest' /\ Cleared' /\ Armed' /\ PeriodRight'
    BY <1>1, <1>2, <1>3, <1>5, GetterKeeps
<1>9. GetterRight'
    <2> SUFFICES ASSUME s \notin overlap PROVE ~Changing(s) /\ Progress(s)'
        BY <1>2, <1>3 DEF GetterRight
    <2>1. /\ ~Changing(s) /\ wloc.text = text[s]
          /\ text[s].fields # 0 /\ ~TooManyFields(s, text[s])
          /\ text[s].first # <<>> /\ wloc.value = text[s].first[1]
          /\ cache[s] = [value |-> wloc.value, span |-> Levels[s].span]
        BY <1>1 DEF GetterRight, Progress, Converting
    <2>2. v = text[s].first[1] /\ v = cache[s].value
        BY <2>1, <1>2
    <2>3. Clamped(s, v) = Fresh(s).value
        BY <2>1, <2>2, <1>1, GivenFresh DEF Fresh
    <2>4. cache'[s] = [value |-> Fresh(s).value, span |-> Levels[s].span]
        BY <2>1, <2>2, <2>3, <1>5
    <2> QED BY <2>1, <2>3, <2>4, <1>2, <1>3 DEF Progress, Converting
<1> QED BY <1>6, <1>7, <1>8, <1>9

LEMMA ConvertSpanKeeps == IInv /\ ConvertSpan => IInv'
<1> SUFFICES ASSUME IInv, ConvertSpan PROVE IInv'
    OBVIOUS
<1> DEFINE s == wloc.setting
           given == wloc.text.fields >= 2 /\ wloc.text.second # <<>>
           second == wloc.text.second
<1> USE DEF IInv
<1>1. /\ s \in Used \cap Priorities /\ s # "frequency" /\ InGetter /\ ~InPeriod
      /\ wloc.at = "convert_span"
    BY DEF ConvertSpan, Places, InGetter, InPeriod, Priorities, Converting
<1>2. /\ UNCHANGED <<text, mloc, armed, overlap>>
      /\ wloc' = [at |-> IF given THEN "clamp_span" ELSE "return",
                  setting |-> s, text |-> wloc.text, value |-> wloc.value]
      /\ cache' = IF given THEN [cache EXCEPT ![s].span = second[1]] ELSE cache
    BY DEF ConvertSpan
<1>3. /\ InGetter' /\ ~InPeriod'
      /\ \A u : (Changing(u)' <=> Changing(u)) /\ Fresh(u)' = Fresh(u)
    BY <1>2 DEF Changing, Fresh, InGetter, InPeriod
<1>4. TextOf(wloc.text) /\ (second # <<>> => second[1] \in Int)
    BY <1>1 DEF Places, Converting, TextOf
<1>5. /\ cache' \in [Used -> [value : Int, span : Int]]
      /\ ~given => cache'[s] = cache[s]
      /\ given => cache'[s] = [value |-> cache[s].value, span |-> second[1]]
      /\ \A u \in Used \ {s} : cache'[u] = cache[u]
    <2>1. CASE ~given
        BY <2>1, <1>2 DEF Typed
    <2>2. CASE given
        <3>1. second[1] \in Int
            BY <2>2, <1>4
        <3> HIDE DEF given, second
        <3> QED BY <2>2, <3>1, <1>1, <1>2 DEF Typed
    <2> QED BY <2>1, <2>2
<1>6. Typed'
    BY <1>1, <1>2, <1>5 DEF Typed
<1>7. Places'
    BY <1>1, <1>2, <1>3, <1>4 DEF Places, Converting
<1>8. Rest' /\ Cleared' /\ Armed' /\ PeriodRight'
    BY <1>1, <1>2, <1>3, <1>5, GetterKeeps
<1>9. GetterRight'
    <2> SUFFICES ASSUME s \notin overlap PROVE ~Changing(s) /\ Progress(s)'
        BY <1>2, <1>3 DEF GetterRight
    <2>1. /\ ~Changing(s) /\ wloc.text = text[s] /\ wloc.value = Fresh(s).value
          /\ text[s].fields # 0 /\ ~TooManyFields(s, text[s])
          /\ cache[s] = [value |-> Fresh(s).value, span |-> Levels[s].span]
        BY <1>1 DEF GetterRight, Progress, Converting
    <2>2. CASE given
        BY <2>1, <2>2, <1>2, <1>3, <1>5 DEF Progress, Converting
    <2>3. CASE ~given
        <3>1. Fresh(s).span = Levels[s].span
            <4>1. text[s].fields \in Nat
                BY <1>4, <2>1 DEF TextOf
            <4>2. text[s].fields < 2 \/ text[s].second = <<>>
                BY <4>1, <2>1, <2>3
            <4> QED BY <4>1, <4>2, <1>1, DefaultFresh DEF Fresh
        <3>2. Fresh(s) \in [value : Int, span : Int]
            BY <1>1, FreshType DEF Typed, Fresh
        <3>3. cache'[s] = Fresh(s)
            BY <3>1, <3>2, <2>1, <2>3, <1>5
        <3> QED BY <3>3, <2>1, <2>3, <1>2, <1>3 DEF Progress, Converting
    <2> QED BY <2>1, <2>2, <2>3
<1> QED BY <1>6, <1>7, <1>8, <1>9

LEMMA ClampSpanKeeps == IInv /\ ClampSpan => IInv'
<1> SUFFICES ASSUME IInv, ClampSpan PROVE IInv'
    OBVIOUS
<1> DEFINE s == wloc.setting
<1> USE DEF IInv
<1>1. /\ s \in Used \cap Priorities /\ s # "frequency" /\ InGetter /\ ~InPeriod
      /\ wloc.at = "clamp_span"
    BY DEF ClampSpan, Places, InGetter, InPeriod, Priorities, Converting
<1>2. PICK v \in {cache[s].span, wloc.text.second[1]} :
            cache' = IF ClampedSpan(s, v) = v THEN cache
                     ELSE [cache EXCEPT ![s].span = ClampedSpan(s, v)]
    BY DEF ClampSpan
<1>3. /\ wloc' = [at |-> "return", setting |-> s, value |-> wloc.value]
      /\ InGetter' /\ ~InPeriod'
      /\ UNCHANGED <<text, mloc, armed, overlap>>
      /\ \A u : (Changing(u)' <=> Changing(u)) /\ Fresh(u)' = Fresh(u)
    BY DEF ClampSpan, Changing, Fresh, InGetter, InPeriod
<1>4. v \in Int /\ ClampedSpan(s, v) \in Int
    <2>1. wloc.text.second[1] \in Int /\ cache[s].span \in Int
        BY <1>1 DEF Places, Converting, TextOf, Typed
    <2> QED BY <2>1, <1>1, <1>2, ClampType
<1>5. /\ cache' \in [Used -> [value : Int, span : Int]]
      /\ cache[s].span = v =>
            cache'[s] = [value |-> cache[s].value, span |-> ClampedSpan(s, v)]
      /\ \A u \in Used \ {s} : cache'[u] = cache[u]
    BY <1>1, <1>2, <1>4 DEF Typed
<1>6. Typed'
    BY <1>1, <1>3, <1>5 DEF Typed
<1>7. Places'
    BY <1>1, <1>3 DEF Places, Converting
<1>8. Rest' /\ Cleared' /\ Armed' /\ PeriodRight'
    BY <1>1, <1>3, <1>5, GetterKeeps
<1>9. GetterRight'
    <2> SUFFICES ASSUME s \notin overlap PROVE ~Changing(s) /\ Progress(s)'
        BY <1>3 DEF GetterRight
    <2>1. /\ ~Changing(s) /\ wloc.text = text[s] /\ wloc.value = Fresh(s).value
          /\ text[s].fields # 0 /\ ~TooManyFields(s, text[s])
          /\ cache[s] = [value |-> Fresh(s).value, span |-> wloc.text.second[1]]
          /\ wloc.text.fields >= 2 /\ wloc.text.second # <<>> /\ text[s].fields \in Nat
        BY <1>1 DEF GetterRight, Progress, Places, Converting, TextOf
    <2>2. v = text[s].second[1] /\ v = cache[s].span
        BY <2>1, <1>2
    <2>3. ClampedSpan(s, v) = Fresh(s).span
        <3>1. ~(text[s].fields < 2)
            BY <2>1
        <3> QED BY <3>1, <2>1, <2>2, <1>1, GivenFresh DEF Fresh
    <2>4. cache'[s] = Fresh(s)
        <3>1. Fresh(s) \in [value : Int, span : Int]
            BY <1>1, FreshType DEF Typed, Fresh
        <3>2. cache'[s] = [value |-> Fresh(s).value, span |-> Fresh(s).span]
            BY <2>1, <2>2, <2>3, <1>5
        <3> QED BY <3>1, <3>2
    <2> QED BY <2>1, <2>4, <1>3 DEF Progress, Converting
<1> QED BY <1>6, <1>7, <1>8, <1>9

-----------------------------------------------------------------------------
(* The getter of the period, called by the one of the TTL, keeps it too *)

\* A step of it that stores at most the period.
LEMMA PeriodKeeps ==
    ASSUME IInv, InGetter, InGetter', wloc.setting = "ttl", wloc'.setting = "ttl",
           UNCHANGED <<text, mloc, armed>>, overlap \subseteq overlap',
           InPeriod' \/ cache' = cache,
           \A u \in Used \ {"period"} : cache'[u] = cache[u],
           cache' # cache => InPeriod,
           InPeriod /\ ~InPeriod' /\ "period" \notin overlap' => Right("period")'
    PROVE  Rest' /\ Cleared' /\ Armed'
<1> USE Names DEF IInv
<1>1. \A u : (Changing(u)' <=> Changing(u)) /\ Fresh(u)' = Fresh(u)
    BY DEF Changing, Fresh
<1>2. Gotten \subseteq {"ttl", "period"} /\ "ttl" \in Gotten'
      /\ (InPeriod' <=> "period" \in Gotten') /\ (InPeriod <=> "period" \in Gotten)
    BY DEF Gotten
<1>3. Rest'
    <2> SUFFICES ASSUME NEW u \in Used, u \notin overlap', ~Changing(u), u \notin Gotten'
                 PROVE  Right(u)'
        BY <1>1 DEF Rest
    <2>1. CASE u = "period" /\ InPeriod
        BY <2>1, <1>2
    <2>2. CASE u # "period" \/ ~InPeriod
        <3>1. u \notin Gotten
            BY <2>2, <1>2
        <3>2. Right(u) /\ cache'[u] = cache[u]
            BY <3>1, <2>2 DEF Rest
        <3> QED BY <3>2, <1>1 DEF Right
    <2> QED BY <2>1, <2>2
<1>4. Cleared'
    <2> SUFFICES ASSUME mloc.at = "second", mloc.setting \notin overlap'
                 PROVE  cache'[mloc.setting].value = Unset
        BY DEF Cleared
    <2>1. mloc.setting \in Used /\ Changing(mloc.setting)
        BY DEF Places, Changing, Affected
    <2>2. cache[mloc.setting].value = Unset
        BY DEF Cleared
    <2>3. CASE mloc.setting = "period" /\ cache' # cache
        BY <2>1, <2>3 DEF PeriodRight
    <2>4. CASE mloc.setting # "period" \/ cache' = cache
        BY <2>1, <2>2, <2>4
    <2> QED BY <2>3, <2>4
<1>5. Armed'
    BY <1>1 DEF Armed, Known
<1> QED BY <1>3, <1>4, <1>5

LEMMA StartPeriodKeeps == IInv /\ StartPeriod => IInv'
<1> SUFFICES ASSUME IInv, StartPeriod PROVE IInv'
    OBVIOUS
<1> USE Names DEF IInv
<1>1. /\ wloc.setting = "ttl" /\ "ttl" \in Used /\ wloc.at = "period" /\ InGetter /\ ~InPeriod
    BY DEF StartPeriod, Places, InGetter, InPeriod
<1>2. /\ UNCHANGED <<text, cache, mloc, armed>>
      /\ overlap \subseteq overlap'
      /\ overlap' \subseteq overlap \cup {"period", "ttl"}
      /\ Changing("period") => "period" \in overlap'
      /\ "ttl" \notin overlap' => "period" \notin overlap'
      /\ ~Changing("period") /\ "period" \notin overlap => overlap' = overlap
      /\ "period" \notin overlap' => ~Changing("period") /\ "period" \notin overlap
    BY DEF StartPeriod
<1>3. \/ /\ Known("period")
         /\ wloc' = [at |-> "period_return", setting |-> "ttl",
                     value |-> cache["period"].value]
      \/ wloc' = [at |-> "period_read", setting |-> "ttl"]
    BY DEF StartPeriod
<1>4. InGetter' /\ InPeriod' /\ wloc'.setting = "ttl"
    BY <1>3 DEF InGetter, InPeriod
<1>5. \A u : (Changing(u)' <=> Changing(u)) /\ Fresh(u)' = Fresh(u)
    BY <1>2 DEF Changing, Fresh
<1>6. Typed'
    BY <1>1, <1>2 DEF Typed
<1>7. Places'
    <2>1. cache["period"].value \in Int
        BY DEF Typed
    <2> QED BY <2>1, <1>1, <1>2, <1>3, <1>4 DEF Places, Converting
<1>8. Rest' /\ Cleared' /\ Armed'
    BY <1>1, <1>2, <1>4, PeriodKeeps
<1>9. GetterRight'
    <2> SUFFICES ASSUME "ttl" \notin overlap' PROVE ~Changing("ttl") /\ Progress("ttl")'
        BY <1>4, <1>5 DEF GetterRight
    <2>1. ~Changing("ttl") /\ Right("ttl") /\ text["ttl"].word = "use-period"
        BY <1>1, <1>2 DEF GetterRight, Progress, Priorities
    <2> QED BY <2>1, <1>2, <1>3, <1>5 DEF Progress, Converting, Right
<1>10. PeriodRight'
    <2> SUFFICES ASSUME "period" \notin overlap' PROVE PeriodRight'
        BY DEF PeriodRight
    <2>1. ~Changing("period") /\ Right("period")
        BY <1>1, <1>2, Getters DEF Rest
    <2>2. Known("period") => cache["period"] = Fresh("period")
        BY <2>1 DEF Right, Known, Unset
    <2> QED BY <2>1, <2>2, <1>2, <1>3, <1>5 DEF PeriodRight, Right
<1> QED BY <1>6, <1>7, <1>8, <1>9, <1>10

LEMMA ReadPeriodKeeps == IInv /\ ReadPeriod => IInv'
<1> SUFFICES ASSUME IInv, ReadPeriod PROVE IInv'
    OBVIOUS
<1> USE Names DEF IInv
<1>1. /\ wloc.setting = "ttl" /\ "ttl" \in Used /\ wloc.at = "period_read"
      /\ InGetter /\ InPeriod
    BY DEF ReadPeriod, Places, InGetter, InPeriod
<1>2. /\ UNCHANGED <<text, cache, mloc, armed, overlap>>
      /\ wloc' = [at |-> "period_store", setting |-> "ttl", value |-> Fresh("period").value]
    BY DEF ReadPeriod
<1>3. InGetter' /\ InPeriod' /\ \A u : (Changing(u)' <=> Changing(u)) /\ Fresh(u)' = Fresh(u)
    BY <1>2 DEF InGetter, InPeriod, Changing, Fresh
<1>4. Typed'
    BY <1>2 DEF Typed
<1>5. Places'
    <2>1. Fresh("period").value \in Int
        BY FreshType DEF Typed, Fresh
    <2> QED BY <2>1, <1>1, <1>2, <1>3 DEF Places, Converting
<1>6. Rest' /\ Cleared' /\ Armed'
    BY <1>1, <1>2, <1>3, PeriodKeeps
<1>7. GetterRight'
    BY <1>1, <1>2, <1>3 DEF GetterRight, Progress, Converting, Right
<1>8. PeriodRight'
    BY <1>1, <1>2, <1>3 DEF PeriodRight, Right
<1> QED BY <1>4, <1>5, <1>6, <1>7, <1>8

LEMMA StorePeriodKeeps == IInv /\ StorePeriod => IInv'
<1> SUFFICES ASSUME IInv, StorePeriod PROVE IInv'
    OBVIOUS
<1> USE Names DEF IInv
<1>1. /\ wloc.setting = "ttl" /\ "ttl" \in Used /\ wloc.at = "period_store"
      /\ InGetter /\ InPeriod /\ wloc.value \in Int
    BY DEF StorePeriod, Places, InGetter, InPeriod
<1>2. /\ UNCHANGED <<text, mloc, armed, overlap>>
      /\ wloc' = [at |-> "period_return", setting |-> "ttl", value |-> wloc.value]
      /\ cache' = [cache EXCEPT !["period"].value = wloc.value]
    BY DEF StorePeriod
<1>3. InGetter' /\ InPeriod' /\ \A u : (Changing(u)' <=> Changing(u)) /\ Fresh(u)' = Fresh(u)
    BY <1>2 DEF InGetter, InPeriod, Changing, Fresh
<1>4. /\ cache' \in [Used -> [value : Int, span : Int]]
      /\ cache'["period"] = [value |-> wloc.value, span |-> cache["period"].span]
      /\ \A u \in Used \ {"period"} : cache'[u] = cache[u]
    BY <1>1, <1>2 DEF Typed
<1>5. Typed'
    BY <1>2, <1>4 DEF Typed
<1>6. Places'
    BY <1>1, <1>2, <1>3 DEF Places, Converting
<1>7. Rest' /\ Cleared' /\ Armed'
    BY <1>1, <1>2, <1>3, <1>4, PeriodKeeps
<1>8. GetterRight'
    <2> SUFFICES ASSUME "ttl" \notin overlap PROVE ~Changing("ttl") /\ Progress("ttl")'
        BY <1>2, <1>3 DEF GetterRight
    <2>1. ~Changing("ttl") /\ Progress("ttl") /\ cache'["ttl"] = cache["ttl"]
        BY <1>1, <1>4 DEF GetterRight
    <2> QED BY <2>1, <1>1, <1>2, <1>3 DEF Progress, Converting, Right
<1>9. PeriodRight'
    <2> SUFFICES ASSUME "period" \notin overlap PROVE PeriodRight'
        BY <1>2 DEF PeriodRight
    <2>1. ~Changing("period") /\ wloc.value = Fresh("period").value
        BY <1>1 DEF PeriodRight
    <2>2. /\ Fresh("period") \in [value : Int, span : Int]
          /\ Fresh("period").span = Unset /\ cache["period"].span = Unset
        BY FreshType DEF Typed, Fresh, Priorities
    <2>3. cache'["period"] = Fresh("period")
        BY <2>1, <2>2, <1>4
    <2> QED BY <2>1, <2>3, <1>2, <1>3 DEF PeriodRight
<1> QED BY <1>5, <1>6, <1>7, <1>8, <1>9

LEMMA ReturnPeriodKeeps == IInv /\ ReturnPeriod => IInv'
<1> SUFFICES ASSUME IInv, ReturnPeriod PROVE IInv'
    OBVIOUS
<1> USE Names DEF IInv
<1>1. /\ wloc.setting = "ttl" /\ "ttl" \in Used /\ wloc.at = "period_return"
      /\ InGetter /\ InPeriod /\ wloc.value \in Int
    BY DEF ReturnPeriod, Places, InGetter, InPeriod
<1>2. PICK v \in {cache["period"].value, wloc.value} :
            wloc' = [at |-> "store", setting |-> "ttl", value |-> v]
    BY DEF ReturnPeriod
<1>3. /\ UNCHANGED <<text, cache, mloc, armed, overlap>>
      /\ InGetter' /\ ~InPeriod'
      /\ \A u : (Changing(u)' <=> Changing(u)) /\ Fresh(u)' = Fresh(u)
    BY <1>2 DEF ReturnPeriod, InGetter, InPeriod, Changing, Fresh
<1>4. Typed'
    BY <1>3 DEF Typed
<1>5. Places'
    <2>1. v \in Int
        BY <1>1 DEF Typed
    <2> QED BY <2>1, <1>1, <1>2, <1>3 DEF Places, Converting, Priorities
<1>6. "period" \notin overlap => cache["period"] = Fresh("period") /\ v = Fresh("period").value
    BY <1>1, <1>2 DEF PeriodRight
<1>7. Rest' /\ Cleared' /\ Armed'
    <2>1. "period" \notin overlap => Right("period")'
        BY <1>3, <1>6 DEF Right
    <2> QED BY <2>1, <1>1, <1>2, <1>3, PeriodKeeps
<1>8. GetterRight'
    <2> SUFFICES ASSUME "ttl" \notin overlap PROVE ~Changing("ttl") /\ Progress("ttl")'
        BY <1>2, <1>3 DEF GetterRight
    <2>1. /\ ~Changing("ttl") /\ Right("ttl") /\ text["ttl"].word = "use-period"
          /\ "period" \notin overlap
        BY <1>1 DEF GetterRight, Progress
    <2>2. Fresh("ttl").value = Fresh("period").value
        <3>1. text["ttl"].word # "off"
            BY <2>1
        <3>2. Fresh("ttl").value = StatisticsTtl(text["ttl"], StatisticsPeriod(text["period"]))
            BY OtherFresh DEF Fresh
        <3>3. Fresh("period").value = StatisticsPeriod(text["period"])
            BY OtherFresh DEF Fresh
        <3> QED BY <2>1, <3>1, <3>2, <3>3 DEF StatisticsTtl
    <2> QED BY <2>1, <2>2, <1>2, <1>3, <1>6 DEF Progress, Converting, Right
<1>9. PeriodRight'
    BY <1>3 DEF PeriodRight
<1> QED BY <1>4, <1>5, <1>7, <1>8, <1>9

-----------------------------------------------------------------------------
(* The theorems *)

LEMMA StepKeepsInvariant == IInv /\ [Next]_vars => IInv'
<1> SUFFICES ASSUME IInv, [Next]_vars PROVE IInv'
    OBVIOUS
<1>1. CASE ProcessTimeout
    BY <1>1, ProcessTimeoutKeeps
<1>2. CASE \E s \in Used : NewValue(s)
    BY <1>2, NewValueKeeps
<1>3. CASE ClearFirst
    BY <1>3, ClearFirstKeeps
<1>4. CASE ClearSecond
    BY <1>4, ClearSecondKeeps
<1>5. CASE \E s \in Used : GetKnown(s) \/ GetUnknown(s)
    BY <1>5, StartKeeps
<1>6. CASE StoreDefault
    BY <1>6, StoreDefaultKeeps
<1>7. CASE StoreDefaultSpan
    BY <1>7, StoreDefaultSpanKeeps
<1>8. CASE ReadText
    BY <1>8, ReadTextKeeps
<1>9. CASE Store \/ Return
    BY <1>9, StoreKeeps, ReturnKeeps
<1>10. CASE Convert \/ Clamp
    BY <1>10, ConvertKeeps, ClampKeeps
<1>11. CASE ConvertSpan \/ ClampSpan
    BY <1>11, ConvertSpanKeeps, ClampSpanKeeps
<1>12. CASE StartPeriod \/ ReadPeriod
    BY <1>12, StartPeriodKeeps, ReadPeriodKeeps
<1>13. CASE StorePeriod \/ ReturnPeriod
    BY <1>13, StorePeriodKeeps, ReturnPeriodKeeps
<1>14. CASE UNCHANGED vars
    BY <1>14 DEF vars, IInv, Typed, Places, Rest, Cleared, GetterRight, PeriodRight, Armed,
       Right, Progress, Changing, InGetter, InPeriod, Gotten, Known, Fresh
<1> QED BY <1>1, <1>2, <1>3, <1>4, <1>5, <1>6, <1>7, <1>8, <1>9, <1>10, <1>11, <1>12,
           <1>13, <1>14 DEF Next, GetterStep

LEMMA InvariantHolds == Spec => []IInv
BY InitInvariant, StepKeepsInvariant, PTL DEF Spec

\* Whatever the settings and their texts, a value that neither thread touches is
\* not stale, unless a getter of it once met a change of it (the getters and
\* clear_cache() of the server).
THEOREM NeverStaleWithoutOverlap == Spec => []CoherentUnlessOverlap
<1>1. IInv => CoherentUnlessOverlap
    BY DEF IInv, Rest, Right, CoherentUnlessOverlap, Coherent, Changing, Idle
<1> QED BY <1>1, InvariantHolds, PTL

\* Whatever else is changed and read meanwhile, the timer runs with the frequency
\* that is current (tick_timer::process_timeout() and clear_cache()).
THEOREM TimerFollowsSetting == Spec => []ArmedWithCurrentFrequency
<1>1. IInv => ArmedWithCurrentFrequency
    BY DEF IInv, Armed, ArmedWithCurrentFrequency, Changing, Idle
<1> QED BY <1>1, InvariantHolds, PTL

-----------------------------------------------------------------------------
(* What the getters return *)

\* The priorities are within their bounds, the default of the critical one too.
LEMMA PriorityBounds ==
    ASSUME NEW s \in Priorities
    PROVE  /\ Levels[s].priority \in Levels[s].min..Levels[s].max
           /\ Levels[s].span >= Levels[s].minSpan
           /\ \A n \in Int : /\ Clamped(s, n) \in Levels[s].min..Levels[s].max
                             /\ ClampedSpan(s, n) >= Levels[s].minSpan
BY DEF Priorities, Clamped, ClampedSpan, Levels, Larger

\* The durations are within theirs, and the period is a number of hours.
LEMMA DurationBounds ==
    ASSUME NEW t, TextOf(t)
    PROVE  /\ StatisticsPeriod(t) >= 3600 /\ StatisticsPeriod(t) % 3600 = 0
           /\ SettleTime(t) >= 60 \/ (t.first = <<>> /\ SettleTime(t) = Unset)
           /\ \A period \in Int : period >= 3600 =>
                StatisticsTtl(t, period) = 0 \/ StatisticsTtl(t, period) >= 3600
<1>1. ValidOr(604800, t.first) \in Int /\ ValidOr(300, t.first) \in Int
    BY DEF TextOf, ValidOr
<1>2. /\ Larger(3600, ValidOr(604800, t.first)) \in Int
      /\ Larger(3600, ValidOr(604800, t.first)) >= 3600
      /\ Larger(60, ValidOr(300, t.first)) >= 60
    BY <1>1 DEF Larger
<1>3. \A n \in Int : n >= 3600 =>
        /\ ((n + 3599) \div 3600) * 3600 >= 3600
        /\ (((n + 3599) \div 3600) * 3600) % 3600 = 0
    OBVIOUS
<1>4. StatisticsPeriod(t) >= 3600 /\ StatisticsPeriod(t) % 3600 = 0
    BY <1>2, <1>3 DEF StatisticsPeriod
<1> QED BY <1>2, <1>4 DEF SettleTime, StatisticsTtl

\* What the texts say is within bounds, but for a settle time that is refused.
LEMMA FreshBounds ==
    ASSUME NEW s \in Used, Typed
    PROVE  /\ \/ Bounded(s, Fresh(s).value)
              \/ s = "settle" /\ Fresh(s).value = Unset /\ text[s].first = <<>>
           /\ BoundedSpan(s, Fresh(s).span)
<1>1. s \in AllSettings /\ TextOf(text[s]) /\ TextOf(text["period"])
    BY Names, EachText DEF Typed
<1>2. CASE s \in Priorities
    <2>1. /\ Fresh(s).value = Levels[s].priority \/ Fresh(s).value = Clamped(s, text[s].first[1])
          /\ Fresh(s).span = Levels[s].span \/ Fresh(s).span = ClampedSpan(s, text[s].second[1])
          /\ Fresh(s).value # Levels[s].priority => text[s].first[1] \in Int
          /\ Fresh(s).span # Levels[s].span => text[s].second[1] \in Int
        BY <1>1, <1>2, PriorityFresh DEF Fresh, Priority, Span, TextOf
    <2> QED BY <2>1, <1>2, PriorityBounds DEF Bounded, BoundedSpan, Priorities
<1>3. CASE s = "period"
    <2>1. Fresh(s).value = StatisticsPeriod(text[s])
        BY <1>3, OtherFresh DEF Fresh
    <2> QED BY <2>1, <1>1, <1>3, DurationBounds DEF Bounded, BoundedSpan, Priorities
<1>4. CASE s = "ttl"
    <2>1. Fresh(s).value = StatisticsTtl(text["ttl"], StatisticsPeriod(text["period"]))
        BY <1>4, OtherFresh DEF Fresh
    <2>2. StatisticsPeriod(text["period"]) \in Int /\ StatisticsPeriod(text["period"]) >= 3600
        BY <1>1, DurationBounds, DurationType
    <2>3. TextOf(text["ttl"])
        BY <1>1, <1>4
    <2>4. LET ttl == StatisticsTtl(text["ttl"], StatisticsPeriod(text["period"]))
          IN  ttl = 0 \/ ttl >= 3600
        BY <2>2, <2>3, DurationBounds
    <2>5. Fresh(s).value = 0 \/ Fresh(s).value >= 3600
        BY <2>1, <2>4
    <2> QED BY <2>5, <1>4 DEF Bounded, BoundedSpan, Priorities
<1>5. CASE s = "settle"
    <2>1. Fresh(s).value = SettleTime(text["settle"])
        BY <1>5, OtherFresh DEF Fresh
    <2> QED BY <2>1, <1>1, <1>5, DurationBounds DEF Bounded, BoundedSpan, Priorities
<1>6. CASE s = "frequency"
    BY <1>6 DEF Bounded, BoundedSpan, Priorities
<1> QED BY <1>1, <1>2, <1>3, <1>4, <1>5, <1>6 DEF AllSettings

Held(s, v) == v = Unset \/ Bounded(s, v)
HeldSpan(s, v) == v = Unset \/ BoundedSpan(s, v)

\* Whatever met whatever: a member is cleared or within its bounds, unless the getter
\* of its setting has just converted a number into it and not compared it yet, and so
\* is what that getter has at hand.
InRange ==
    /\ \A s \in Used :
            /\ (wloc.at = "clamp" /\ wloc.setting = s) \/ Held(s, cache[s].value)
            /\ (wloc.at = "clamp_span" /\ wloc.setting = s) \/ HeldSpan(s, cache[s].span)
    /\ wloc.at = "clamp" => cache[wloc.setting].value \in {wloc.value, Unset}
    /\ wloc.at = "clamp_span" =>
            cache[wloc.setting].span \in {wloc.text.second[1], Unset}
    /\ wloc.at \in {"store", "convert_span", "clamp_span", "return"} =>
            Held(wloc.setting, wloc.value)
    /\ wloc.at \in {"period_store", "period_return"} => Held("period", wloc.value)

\* The TTL may be any period.
LEMMA PeriodAsTtl == \A v : Held("period", v) => Held("ttl", v)
<1> SUFFICES ASSUME NEW v, Bounded("period", v) PROVE Bounded("ttl", v)
    BY DEF Held
<1> QED BY DEF Bounded, Priorities

LEMMA InitInRange == Init => InRange
BY DEF Init, InRange, Held, HeldSpan, Unknown, Idle

\* The main thread changes no getter and puts -1 or a frequency in the members.
LEMMA MainKeepsRange ==
    ASSUME IInv, InRange, ProcessTimeout \/ (\E s \in Used : NewValue(s)) \/ ClearFirst \/ ClearSecond
    PROVE  InRange'
<1>1. wloc' = wloc
    BY DEF ProcessTimeout, NewValue, ClearFirst, ClearSecond
<1>2. /\ \A s \in Used \ {"frequency"} :
            /\ cache'[s].value \in {cache[s].value, Unset}
            /\ cache'[s].span \in {cache[s].span, Unset}
      /\ cache'["frequency"].span \in {cache["frequency"].span, Unset}
    <2>1. CASE ProcessTimeout
        <3>1. Fresh("frequency").span = Unset
            BY OtherFresh DEF Fresh
        <3> QED BY <2>1, <3>1, Names DEF ProcessTimeout, IInv, Typed
    <2>2. CASE \E s \in Used : NewValue(s)
        BY <2>2, Names DEF NewValue
    <2>3. CASE ClearFirst
        BY <2>3, Names DEF ClearFirst, IInv, Typed, Places
    <2>4. CASE ClearSecond
        BY <2>4, Names DEF ClearSecond, IInv, Typed, Places, Affected, Priorities
    <2> QED BY <2>1, <2>2, <2>3, <2>4
<1>3. \A v : Held("frequency", v)
    BY DEF Held, Bounded, Priorities
<1>4. wloc.at \in {"clamp", "clamp_span"} => wloc.setting \in Used \ {"frequency"}
    BY DEF IInv, Places, InGetter
<1> QED BY <1>1, <1>2, <1>3, <1>4 DEF InRange, Held, HeldSpan

LEMMA GetterKeepsRange ==
    ASSUME IInv, InRange, (\E s \in Used : GetKnown(s) \/ GetUnknown(s)) \/ GetterStep
    PROVE  InRange'
<1> DEFINE s == wloc.setting
<1> USE DEF IInv
<1>1. \A u \in Used : Held(u, cache[u].value) \/ wloc.at = "clamp"
    BY DEF InRange
<1>2. InGetter => s \in Used
    BY DEF Places
<1>3. ASSUME NEW u \in Used, GetKnown(u) \/ GetUnknown(u) PROVE InRange'
    <2>1. wloc.at \notin {"clamp", "clamp_span"} /\ cache' = cache
        BY <1>3 DEF GetKnown, GetUnknown, StartGetter, InGetter
    <2>2. wloc'.at \in {"default", "read"} \/
          (wloc'.at = "return" /\ wloc'.setting = u /\ wloc'.value = cache[u].value)
        BY <1>3 DEF GetKnown, GetUnknown
    <2> QED BY <2>1, <2>2, <1>1 DEF InRange
<1>4. CASE StoreDefault
    <2>1. s \in Used \cap Priorities /\ wloc.at = "default"
        BY <1>4, <1>2 DEF StoreDefault, Places, InGetter
    <2>2. Held(s, Levels[s].priority)
        BY <2>1, PriorityBounds DEF Held, Bounded, Priorities
    <2>3. /\ \A u \in Used \ {s} : cache'[u] = cache[u]
          /\ cache'[s].value = Levels[s].priority /\ cache'[s].span = cache[s].span
        BY <1>4, <2>1 DEF StoreDefault, Typed
    <2>4. wloc'.at = "default_span"
        BY <1>4 DEF StoreDefault
    <2> QED BY <2>1, <2>2, <2>3, <2>4 DEF InRange
<1>5. CASE StoreDefaultSpan
    <2>1. s \in Used \cap Priorities /\ wloc.at = "default_span"
        BY <1>5, <1>2 DEF StoreDefaultSpan, Places, InGetter
    <2>2. HeldSpan(s, Levels[s].span)
        BY <2>1, PriorityBounds DEF HeldSpan, BoundedSpan
    <2>3. /\ \A u \in Used \ {s} : cache'[u] = cache[u]
          /\ cache'[s].span = Levels[s].span /\ cache'[s].value = cache[s].value
        BY <1>5, <2>1 DEF StoreDefaultSpan, Typed
    <2>4. wloc'.at = "read"
        BY <1>5 DEF StoreDefaultSpan
    <2> QED BY <2>1, <2>2, <2>3, <2>4 DEF InRange
<1>6. CASE ReadText
    <2>1. s \in Used /\ wloc.at = "read" /\ cache' = cache /\ wloc'.setting = s
        BY <1>6, <1>2 DEF ReadText, InGetter
    <2>2. Held(s, Fresh(s).value)
        BY <2>1, FreshBounds DEF Held
    <2>3. s \in Priorities => Held(s, Levels[s].priority)
        BY PriorityBounds DEF Held, Bounded, Priorities
    <2>4. \/ wloc'.at \in {"got", "convert", "period"}
          \/ s \in Priorities /\ wloc'.at = "return" /\ wloc'.value = Levels[s].priority
          \/ wloc'.at = "store" /\ wloc'.value = Fresh(s).value
        BY <1>6 DEF ReadText
    <2> QED BY <2>1, <2>2, <2>3, <2>4 DEF InRange
<1>7. CASE Store
    <2>1. s \in Used /\ wloc.at = "store" /\ Held(s, wloc.value)
        BY <1>7, <1>2 DEF Store, InGetter, InRange
    <2>2. /\ \A u \in Used \ {s} : cache'[u] = cache[u]
          /\ cache'[s].value \in {cache[s].value, wloc.value} /\ cache'[s].span = cache[s].span
        BY <1>7, <2>1 DEF Store, Typed
    <2>3. wloc'.at = "return" /\ wloc'.setting = s /\ wloc'.value = wloc.value
        BY <1>7 DEF Store
    <2> QED BY <2>1, <2>2, <2>3 DEF InRange
<1>8. CASE Convert
    <2>1. s \in Used \cap Priorities /\ wloc.at = "convert"
        BY <1>8, <1>2 DEF Convert, Places, InGetter, Converting
    <2>2. Held(s, Levels[s].priority)
        BY <2>1, PriorityBounds DEF Held, Bounded, Priorities
    <2>3. /\ \A u \in Used \ {s} : cache'[u] = cache[u]
          /\ cache'[s].span = cache[s].span
          /\ wloc'.setting = s
          /\ \/ wloc'.at = "convert_span" /\ wloc'.value = Levels[s].priority /\ cache' = cache
             \/ wloc'.at = "clamp" /\ cache'[s].value = wloc'.value
        BY <1>8, <2>1 DEF Convert, Typed
    <2> QED BY <2>1, <2>2, <2>3 DEF InRange
<1>9. CASE Clamp
    <2>1. s \in Used \cap Priorities /\ wloc.at = "clamp"
        BY <1>9, <1>2 DEF Clamp, Places, InGetter, Converting
    <2>2. PICK v \in {cache[s].value, wloc.value} :
                /\ cache' = IF Clamped(s, v) = v THEN cache
                            ELSE [cache EXCEPT ![s].value = Clamped(s, v)]
                /\ wloc' = [at |-> "convert_span", setting |-> s, text |-> wloc.text,
                            value |-> Clamped(s, v)]
        BY <1>9 DEF Clamp
    <2>3. v \in Int
        BY <2>1 DEF Typed, Places
    <2>4. Held(s, Clamped(s, v))
        BY <2>1, <2>3, PriorityBounds DEF Held, Bounded, Priorities
    <2>5. /\ \A u \in Used \ {s} : cache'[u] = cache[u]
          /\ cache'[s].span = cache[s].span
        BY <2>1, <2>2 DEF Typed
    <2>6. Held(s, cache'[s].value)
        <3>1. CASE Clamped(s, v) = v /\ v = cache[s].value
            BY <3>1, <2>2, <2>4
        <3>2. CASE Clamped(s, v) # v
            BY <3>2, <2>1, <2>2, <2>4 DEF Typed
        <3>3. CASE Clamped(s, v) = v /\ v # cache[s].value
            <4>1. cache'[s].value = Unset
                BY <3>3, <2>1, <2>2 DEF InRange
            <4> QED BY <4>1 DEF Held
        <3> QED BY <3>1, <3>2, <3>3
    <2> QED BY <2>1, <2>2, <2>4, <2>5, <2>6 DEF InRange
<1>10. CASE ConvertSpan
    <2>1. s \in Used \cap Priorities /\ wloc.at = "convert_span" /\ Held(s, wloc.value)
        BY <1>10, <1>2 DEF ConvertSpan, Places, InGetter, Converting, InRange
    <2>2. /\ \A u \in Used \ {s} : cache'[u] = cache[u]
          /\ cache'[s].value = cache[s].value
          /\ wloc'.setting = s /\ wloc'.value = wloc.value
          /\ \/ wloc'.at = "return" /\ cache' = cache
             \/ wloc'.at = "clamp_span" /\ cache'[s].span = wloc'.text.second[1]
        BY <1>10, <2>1 DEF ConvertSpan, Typed
    <2> QED BY <2>1, <2>2 DEF InRange
<1>11. CASE ClampSpan
    <2>1. s \in Used \cap Priorities /\ wloc.at = "clamp_span" /\ Held(s, wloc.value)
        BY <1>11, <1>2 DEF ClampSpan, Places, InGetter, Converting, InRange
    <2>2. PICK v \in {cache[s].span, wloc.text.second[1]} :
                cache' = IF ClampedSpan(s, v) = v THEN cache
                         ELSE [cache EXCEPT ![s].span = ClampedSpan(s, v)]
        BY <1>11 DEF ClampSpan
    <2>3. v \in Int
        BY <2>1 DEF Typed, Places, Converting, TextOf
    <2>4. HeldSpan(s, ClampedSpan(s, v))
        BY <2>1, <2>3, PriorityBounds DEF HeldSpan, BoundedSpan
    <2>5. /\ \A u \in Used \ {s} : cache'[u] = cache[u]
          /\ cache'[s].value = cache[s].value
        BY <2>1, <2>2 DEF Typed
    <2>6. HeldSpan(s, cache'[s].span)
        <3>1. CASE ClampedSpan(s, v) = v /\ v = cache[s].span
            BY <3>1, <2>2, <2>4
        <3>2. CASE ClampedSpan(s, v) # v
            BY <3>2, <2>1, <2>2, <2>4 DEF Typed
        <3>3. CASE ClampedSpan(s, v) = v /\ v # cache[s].span
            <4>1. cache'[s].span = Unset
                BY <3>3, <2>1, <2>2 DEF InRange
            <4> QED BY <4>1 DEF HeldSpan
        <3> QED BY <3>1, <3>2, <3>3
    <2>7. wloc'.at = "return" /\ wloc'.setting = s /\ wloc'.value = wloc.value
        BY <1>11 DEF ClampSpan
    <2> QED BY <2>1, <2>5, <2>6, <2>7 DEF InRange
<1>12. CASE StartPeriod
    <2>1. wloc.at = "period" /\ cache' = cache
        BY <1>12 DEF StartPeriod
    <2>2. \/ wloc'.at = "period_return" /\ wloc'.value = cache["period"].value
          \/ wloc'.at = "period_read"
        BY <1>12 DEF StartPeriod
    <2>3. Held("period", cache["period"].value)
        BY <2>1, <1>1, Names
    <2> QED BY <2>1, <2>2, <2>3 DEF InRange
<1>13. CASE ReadPeriod
    <2>1. /\ wloc.at = "period_read" /\ cache' = cache
          /\ wloc'.at = "period_store" /\ wloc'.value = Fresh("period").value
        BY <1>13 DEF ReadPeriod
    <2>2. Held("period", Fresh("period").value)
        BY Names, FreshBounds DEF Held
    <2> QED BY <2>1, <2>2 DEF InRange
<1>14. CASE StorePeriod
    <2>1. wloc.at = "period_store" /\ Held("period", wloc.value)
        BY <1>14 DEF StorePeriod, InRange
    <2>2. /\ \A u \in Used \ {"period"} : cache'[u] = cache[u]
          /\ cache'["period"].value = wloc.value
          /\ cache'["period"].span = cache["period"].span
        BY <1>14, Names DEF StorePeriod, Typed
    <2>3. wloc'.at = "period_return" /\ wloc'.value = wloc.value
        BY <1>14 DEF StorePeriod
    <2> QED BY <2>1, <2>2, <2>3 DEF InRange
<1>15. CASE ReturnPeriod
    <2>1. wloc.at = "period_return" /\ Held("period", wloc.value) /\ cache' = cache
        BY <1>15 DEF ReturnPeriod, InRange
    <2>2. /\ wloc'.at = "store" /\ wloc'.setting = "ttl"
          /\ wloc'.value \in {cache["period"].value, wloc.value}
        BY <1>15 DEF ReturnPeriod
    <2>3. Held("ttl", wloc'.value)
        BY <2>1, <2>2, <1>1, Names, PeriodAsTtl
    <2> QED BY <2>1, <2>2, <2>3 DEF InRange
<1>16. CASE Return
    <2>1. wloc.at = "return" /\ cache' = cache /\ wloc'.at = "got"
        BY <1>16 DEF Return
    <2> QED BY <2>1 DEF InRange
<1> QED BY <1>3, <1>4, <1>5, <1>6, <1>7, <1>8, <1>9, <1>10, <1>11, <1>12, <1>13, <1>14, <1>15,
           <1>16 DEF GetterStep

LEMMA RangeHolds == Spec => []InRange
<1>1. IInv /\ InRange /\ [Next]_vars => InRange'
    <2>1. IInv /\ InRange /\ UNCHANGED vars => InRange'
        BY DEF vars, InRange
    <2> QED BY <2>1, MainKeepsRange, GetterKeepsRange, Zenon DEF Next
<1> QED BY <1>1, InitInRange, InvariantHolds, PTL DEF Spec

\* A step that returns: of the getter of a critical priority with three fields, or the
\* last one of any getter.
LEMMA Returning ==
    ASSUME [Next]_vars, wloc' # wloc, wloc'.at = "got"
    PROVE  ReadText \/ Return
<1>1. ~ProcessTimeout /\ (\A u \in Used : ~NewValue(u)) /\ ~ClearFirst /\ ~ClearSecond
    BY DEF ProcessTimeout, NewValue, ClearFirst, ClearSecond
<1>2. \A u \in Used : ~GetKnown(u) /\ ~GetUnknown(u)
    BY DEF GetKnown, GetUnknown
<1>3. ~StoreDefault /\ ~StoreDefaultSpan /\ ~Store /\ ~Convert /\ ~Clamp
    BY DEF StoreDefault, StoreDefaultSpan, Store, Convert, Clamp
<1>4. ~ConvertSpan /\ ~ClampSpan /\ ~StartPeriod /\ ~ReadPeriod /\ ~StorePeriod /\ ~ReturnPeriod
    BY DEF ConvertSpan, ClampSpan, StartPeriod, ReadPeriod, StorePeriod, ReturnPeriod
<1>5. ~ UNCHANGED vars
    BY DEF vars
<1> QED BY <1>1, <1>2, <1>3, <1>4, <1>5, Zenon DEF Next, GetterStep

\* What is returned, where no change was met and where one was.
LEMMA GetterReturns ==
    ASSUME IInv, InRange, [Next]_vars, wloc' # wloc, wloc'.at = "got"
    PROVE  LET s == wloc'.setting  cleared == s \in overlap IN
           /\ \/ Bounded(s, wloc'.value)
              \/ Refused(s, wloc'.value)
              \/ cleared /\ wloc'.value = Unset
           /\ BoundedSpan(s, wloc'.span) \/ (cleared /\ wloc'.span = Unset)
<1> DEFINE s == wloc.setting
<1> USE DEF IInv
<1>1. ReadText \/ Return
    BY Returning
<1>2. InGetter /\ s \in Used /\ wloc'.setting = s /\ wloc'.span = cache[s].span
    BY <1>1 DEF ReadText, Return, InGetter, Places
<1>3. wloc.at \in {"read", "return"}
    BY <1>1 DEF ReadText, Return
<1>4. HeldSpan(s, cache[s].span)
    BY <1>2, <1>3 DEF InRange
<1>5. CASE ReadText
    <2>1. Refused(s, wloc'.value) /\ s \in Priorities /\ wloc.at = "read"
        BY <1>2, <1>5 DEF ReadText, Refused, TooManyFields, Priorities
    <2>2. s \notin overlap => BoundedSpan(s, cache[s].span)
        <3>1. s \notin overlap => cache[s] = Default(s)
            BY <1>2, <2>1 DEF GetterRight, Progress
        <3> QED BY <3>1, <2>1, PriorityBounds DEF Default, BoundedSpan
    <2> QED BY <1>2, <1>4, <2>1, <2>2 DEF HeldSpan
<1>6. CASE Return
    <2>1. wloc.at = "return" /\ wloc'.value \in {cache[s].value, wloc.value}
        BY <1>6 DEF Return
    <2>2. Held(s, wloc'.value)
        BY <1>2, <2>1 DEF InRange
    <2>3. CASE s \in overlap
        BY <1>2, <1>4, <2>2, <2>3 DEF Held, HeldSpan
    <2>4. CASE s \notin overlap
        <3>1. cache[s] = Fresh(s) /\ wloc'.value = Fresh(s).value
            BY <1>2, <2>1, <2>4 DEF GetterRight, Progress
        <3> QED BY <1>2, <3>1, FreshBounds DEF Refused
    <2> QED BY <2>3, <2>4
<1> QED BY <1>1, <1>5, <1>6

\* For any texts, valid or not, and wherever the main thread clears the members, a
\* getter of the worker returns a value within its bounds, or -1 when the setting it
\* returns was changed under a getter (the get_...() functions and clear_cache()).
THEOREM GettersStayInBounds == Spec => ReturnsInBounds
<1>1. IInv /\ InRange /\ [Next]_vars =>
        [wloc'.at = "got" =>
            LET s == wloc'.setting  cleared == s \in overlap IN
            /\ \/ Bounded(s, wloc'.value)
               \/ Refused(s, wloc'.value)
               \/ cleared /\ wloc'.value = Unset
            /\ BoundedSpan(s, wloc'.span) \/ (cleared /\ wloc'.span = Unset)]_wloc
    BY GetterReturns, Zenon
<1> QED BY <1>1, InvariantHolds, RangeHolds, PTL DEF Spec, ReturnsInBounds

=============================================================================
