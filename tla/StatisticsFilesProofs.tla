------------------------ MODULE StatisticsFilesProofs ------------------------
(***************************************************************************)
(* The files of the data directory, for any length of a minute, period and *)
(* frequency.  Two dates with the same name are in the same minute or a    *)
(* whole period apart, and no file holds a reading under another's name.   *)
(***************************************************************************)
EXTENDS StatisticsFiles, TLAPS

\* Every reading is under its own name, and none is of a run still to come.
Named ==
    \A name \in Names :
        files[name] # None => Name(files[name]) = name /\ files[name] <= startDate

\* The next tick is due a minute after the run before the last one started, and
\* once a tick waits, also a minute after the last one.  Of the runs of this daemon
\* the same holds with the frequency for the minute.
Apart ==
    /\ \A i \in 1..3 : starts[i] <= now
    /\ starts[2] # None => nextTick >= starts[2] + Minute
    /\ pending /\ starts[1] # None => nextTick >= starts[1] + Minute
    /\ pending /\ starts[2] # None => now >= starts[2] + Minute

ApartInALife ==
    /\ starts[2] > begun => nextTick >= starts[2] + Frequency
    /\ pending /\ starts[1] > begun => nextTick >= starts[1] + Frequency
    /\ pending /\ starts[2] > begun => now >= starts[2] + Frequency

IInv ==
    /\ TypeOK /\ Named /\ Apart /\ ApartInALife
    /\ KeptUnlessSameMinute /\ NoThirdRunSoon

-----------------------------------------------------------------------------
LEMMA Division ==
    ASSUME NEW a \in Nat, NEW p \in Nat \ {0}
    PROVE  /\ a \div p \in Nat
           /\ a = p * (a \div p) + (a % p)
           /\ a % p \in 0..(p - 1)
OBVIOUS

\* Multiples of the minute that are equal modulo the period, a number of minutes,
\* are equal or at least a period apart.
LEMMA Congruent ==
    ASSUME NEW a \in Nat, NEW b \in Nat, a <= b, NEW p \in Nat \ {0}, a % p = b % p
    PROVE  a = b \/ b - a >= p
<1> DEFINE qa == a \div p
           qb == b \div p
<1>1. /\ qa \in Int /\ qb \in Int
      /\ a % p \in Nat /\ a = p * qa + (a % p) /\ b = p * qb + (a % p)
    BY Division
<1>2. b - a = p * (qb - qa)
    BY <1>1
<1>3. CASE qb - qa <= 0
    <2>1. p * (qb - qa) <= 0
        BY <1>3, <1>1
    <2> QED BY <1>2, <2>1
<1>4. CASE qb - qa >= 1
    <2>1. p * (qb - qa) >= p
        BY <1>4, <1>1
    <2> QED BY <1>2, <2>1
<1> QED BY <1>1, <1>3, <1>4

LEMMA NameType == ASSUME NEW date \in Nat PROVE Name(date) \in Names
<1>1. (date \div Minute) * Minute \in Nat
    BY TimesAssumption
<1> QED BY <1>1, TimesAssumption DEF Name, Names

LEMMA SameName ==
    ASSUME NEW a \in Nat, NEW b \in Nat, a <= b, Name(a) = Name(b)
    PROVE  /\ MinuteOf(b) - MinuteOf(a) \in Nat
           /\ \/ MinuteOf(b) - MinuteOf(a) = 0
              \/ (MinuteOf(b) - MinuteOf(a)) * Minute >= Period
<1> DEFINE ma == a \div Minute
           mb == b \div Minute
<1>1. ma \in Nat /\ mb \in Nat /\ Minute \in Nat \ {0} /\ Period \in Nat \ {0}
    BY TimesAssumption
<1>2. ma <= mb
    <2>1. a = Minute * ma + (a % Minute) /\ a % Minute \in 0..(Minute - 1)
        BY <1>1, Division
    <2>2. b = Minute * mb + (b % Minute) /\ b % Minute \in 0..(Minute - 1)
        BY <1>1, Division
    <2>3. SUFFICES ASSUME ma >= mb + 1 PROVE FALSE
        BY <1>1
    <2>4. Minute * ma >= Minute * (mb + 1)
        BY <2>3, <1>1
    <2>5. Minute * (mb + 1) = Minute * mb + Minute
        BY <1>1
    <2> QED BY <2>1, <2>2, <2>4, <2>5, <1>1
<1>3. ma * Minute \in Nat /\ mb * Minute \in Nat /\ ma * Minute <= mb * Minute
    BY <1>1, <1>2
<1>4. (ma * Minute) % Period = (mb * Minute) % Period
    BY DEF Name
<1>5. ma * Minute = mb * Minute \/ mb * Minute - ma * Minute >= Period
    BY <1>1, <1>3, <1>4, Congruent
<1>6. (mb - ma) * Minute = mb * Minute - ma * Minute
    BY <1>1
<1>7. CASE ma * Minute = mb * Minute
    <2>1. mb = ma
        <3>1. SUFFICES ASSUME mb - ma >= 1 PROVE FALSE
            BY <1>1, <1>2
        <3>2. (mb - ma) * Minute >= Minute
            BY <3>1, <1>1
        <3> QED BY <3>2, <1>1, <1>6, <1>7
    <2> QED BY <2>1, <1>1 DEF MinuteOf
<1>8. CASE mb * Minute - ma * Minute >= Period
    BY <1>1, <1>2, <1>6, <1>8 DEF MinuteOf
<1> QED BY <1>5, <1>7, <1>8

-----------------------------------------------------------------------------
LEMMA InitInvariant == Init => IInv
<1> SUFFICES ASSUME Init PROVE IInv
    OBVIOUS
<1>1. pending \in BOOLEAN
    BY Zenon DEF Init
<1>2. TypeOK
    BY <1>1, TimesAssumption DEF Init, TypeOK, None
<1>3. Named /\ Apart /\ ApartInALife /\ KeptUnlessSameMinute /\ NoThirdRunSoon
    BY TimesAssumption
    DEF Init, Named, Apart, ApartInALife, KeptUnlessSameMinute, NoThirdRunSoon, None
<1> QED BY <1>2, <1>3 DEF IInv

\* Only the end of a run changes a file and the ages, and only the start of a run
\* and the timer the dates.
LEMMA StepKeepsInvariant == IInv /\ [Next]_vars => IInv'
<1> SUFFICES ASSUME IInv, [Next]_vars PROVE IInv'
    OBVIOUS
<1> USE TimesAssumption DEF IInv
<1>1. CASE Tick
    <2>1. TypeOK' /\ Named' /\ KeptUnlessSameMinute' /\ NoThirdRunSoon'
        BY <1>1 DEF Tick, TypeOK, Named, KeptUnlessSameMinute, NoThirdRunSoon
    <2>2. Apart' /\ ApartInALife'
        BY <1>1 DEF Tick, Apart, ApartInALife, TypeOK
    <2> QED BY <2>1, <2>2
<1>2. CASE StartRun
    <2>1. TypeOK' /\ KeptUnlessSameMinute'
        <3>1. pending' \in BOOLEAN
            BY <1>2, Zenon DEF StartRun
        <3> QED BY <1>2, <3>1 DEF StartRun, TypeOK, KeptUnlessSameMinute
    <2>2. Named'
        BY <1>2 DEF StartRun, Named, TypeOK, None
    <2>3. Apart' /\ ApartInALife' /\ NoThirdRunSoon'
        BY <1>2 DEF StartRun, Apart, ApartInALife, TypeOK, NoThirdRunSoon, None
    <2> QED BY <2>1, <2>2, <2>3
<1>3. CASE SaveRun
    <2> DEFINE name == Name(startDate)
               old == files[name]
    <2>1. startDate \in Nat /\ name \in Names
        BY NameType DEF TypeOK
    <2>2. CASE old = None
        BY <1>3, <2>1, <2>2
        DEF SaveRun, TypeOK, Named, Apart, ApartInALife, KeptUnlessSameMinute,
        NoThirdRunSoon, None
    <2>3. CASE old # None
        <3> DEFINE age == MinuteOf(startDate) - MinuteOf(old)
        <3>1. old \in Nat /\ old <= startDate /\ Name(old) = Name(startDate)
            BY <2>1, <2>3 DEF TypeOK, Named
        <3>2. age \in Nat /\ (age = 0 \/ age * Minute >= Period)
            BY <2>1, <3>1, SameName
        <3>3. ages' = ages \cup {age}
            BY <1>3, <2>3 DEF SaveRun
        <3>4. KeptUnlessSameMinute' /\ ages' \subseteq Nat
            BY <3>2, <3>3 DEF KeptUnlessSameMinute, TypeOK
        <3>5. TypeOK' /\ Named' /\ Apart' /\ ApartInALife' /\ NoThirdRunSoon'
            BY <1>3, <2>1, <3>4
            DEF SaveRun, TypeOK, Named, Apart, ApartInALife, NoThirdRunSoon
        <3> QED BY <3>4, <3>5
    <2> QED BY <2>2, <2>3
<1>4. CASE SaveNothing
    BY <1>4
    DEF SaveNothing, TypeOK, Named, Apart, ApartInALife, KeptUnlessSameMinute,
        NoThirdRunSoon, None
<1>5. CASE Advance
    BY <1>5
    DEF Advance, TypeOK, Named, Apart, ApartInALife, KeptUnlessSameMinute,
        NoThirdRunSoon, None
<1>6. CASE Crash
    BY <1>6
    DEF Crash, TypeOK, Named, Apart, ApartInALife, KeptUnlessSameMinute,
        NoThirdRunSoon, None
<1>7. CASE Restart
    <2>1. pending' \in BOOLEAN
        BY <1>7, Zenon DEF Restart
    <2> QED BY <1>7, <2>1
    DEF Restart, TypeOK, Named, Apart, ApartInALife, KeptUnlessSameMinute,
        NoThirdRunSoon, None
<1>8. CASE UNCHANGED vars
    BY <1>8
    DEF vars, TypeOK, Named, Apart, ApartInALife, KeptUnlessSameMinute,
        NoThirdRunSoon, None
<1> QED BY <1>1, <1>2, <1>3, <1>4, <1>5, <1>6, <1>7, <1>8 DEF Next

THEOREM InvariantHolds == Spec => []IInv
BY InitInvariant, StepKeepsInvariant, PTL DEF Spec

\* A reading is kept a whole period unless a run of the same minute replaces it.
THEOREM ReadingsKept == Spec => []KeptUnlessSameMinute
<1>1. IInv => KeptUnlessSameMinute
    BY DEF IInv
<1> QED BY <1>1, InvariantHolds, PTL

\* Of three runs in a row the last starts at least a minute after the first, so at
\* most two share a minute, restarts between them or not; and at least a frequency
\* after the first when one daemon started all three (tick_timer.cpp).
THEOREM TwoRunsAMinute == Spec => []NoThirdRunSoon
<1>1. IInv => NoThirdRunSoon
    BY DEF IInv
<1> QED BY <1>1, InvariantHolds, PTL

\* The names are those of the period, and the dates in order (run_plugins()).
THEOREM TypeCorrect == Spec => []TypeOK
<1>1. IInv => TypeOK
    BY DEF IInv
<1> QED BY <1>1, InvariantHolds, PTL

=============================================================================
