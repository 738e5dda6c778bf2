----------------------------- MODULE WatchProofs -----------------------------
(***************************************************************************)
(* Proofs about the plugins that look at things which change meanwhile.    *)
(*                                                                         *)
(* The disk plugin, for any mounts and usages.  The handler is ours from   *)
(* the step before the alarm is set to the step after it is cleared; a     *)
(* mount that has been steady is still to be looked at, is being looked at *)
(* with the right answer, or was reported as it should.                    *)
(*                                                                         *)
(* The log plugin, for any definitions and files.  What was reported of a  *)
(* definition, and what f_found says of the one at hand, is about the      *)
(* files seen for it; a file that stays is seen or in the queue once its   *)
(* pattern was looked for.                                                 *)
(***************************************************************************)
EXTENDS DiskWatch, LogFiles, TLAPS

-----------------------------------------------------------------------------
(* The disk plugin *)

Trying == wpc \in {"handler", "alarm", "enter", "call", "clear", "restore", "judge"}

\* The alarm and the handler, by the position of the worker; the default action of
\* SIGALRM is never taken.
Guarded ==
    /\ armed => wpc \in {"enter", "call", "clear"}
    /\ wpc \in {"alarm", "enter", "call", "clear", "restore"} => handler

\* The mounts that are still to be judged.
Pending(m) == m \in todo \/ (Trying /\ m = mount)

ReportsOf(m) == {e[2] : e \in {x \in errors : x[1] = m}}

ReportsFor(u) ==
    IF u >= 999 THEN {100} ELSE IF u >= 950 THEN {80} ELSE IF u >= 900 THEN {55} ELSE {}

\* Each mount is judged once.
Once ==
    /\ Trying => mount \in Mounts /\ mount \notin todo
    /\ wpc = "idle" => todo = {}
    /\ \A m \in Mounts : Pending(m) => ReportsOf(m) = {}

\* An interrupted call is not about a steady mount, nor is a wrong answer.
Answered ==
    /\ \A m \in steady : usage[m] # Unmounted
    /\ wpc = "call" /\ interrupted => mount \notin steady
    /\ wpc \in {"clear", "restore", "judge"} /\ mount \in steady => answer = usage[mount]

Expected(m) == IF m \in Ignored THEN {} ELSE ReportsFor(usage[m])

\* After a bad pattern the run is not over.
Judged == wpc # "down" => \A m \in steady : Pending(m) \/ ReportsOf(m) = Expected(m)

IInv == TypeOK /\ Guarded /\ Once /\ Answered /\ Judged

-----------------------------------------------------------------------------
LEMMA InitInvariant == Init => IInv
<1> SUFFICES ASSUME Init PROVE IInv
    OBVIOUS
<1>1. TypeOK
    <2>1. handler \in BOOLEAN /\ armed \in BOOLEAN /\ interrupted \in BOOLEAN
              /\ strayed \in BOOLEAN
        BY Zenon DEF Init
    <2> QED BY <2>1 DEF Init, TypeOK
<1>2. Guarded /\ Once /\ Answered /\ Judged
    BY DEF Init, Guarded, Once, Answered, Judged, Trying, Pending, ReportsOf, Expected
<1> QED BY <1>1, <1>2 DEF IInv

\* The steps that only change the position of the worker, the handler or the alarm.
Moves ==
    \/ EndRun \/ SetHandler \/ SetAlarm \/ EnterCall \/ ClearAlarm \/ RestoreHandler

LEMMA MoveKeepsInvariant == IInv /\ Moves => IInv'
<1> SUFFICES ASSUME IInv, Moves PROVE IInv'
    OBVIOUS
<1> USE DEF IInv, Moves, EndRun, SetHandler, SetAlarm, EnterCall, ClearAlarm,
            RestoreHandler
<1>1. handler' \in BOOLEAN /\ armed' \in BOOLEAN /\ interrupted' \in BOOLEAN
          /\ strayed' \in BOOLEAN
    BY Zenon DEF TypeOK
<1>2. TypeOK'
    BY <1>1 DEF TypeOK, machine
<1>3. Guarded'
    BY DEF Guarded
<1>4. /\ errors' = errors /\ todo' = todo /\ mount' = mount /\ usage' = usage
      /\ steady' = steady /\ answer' = answer
      /\ ~EndRun => Trying' /\ Trying
      /\ EndRun => ~Trying' /\ ~Trying
    BY DEF machine, Trying
<1>5. Once'
    BY <1>4 DEF Once, Pending, ReportsOf, Trying
<1>6. Answered'
    BY <1>4 DEF Answered
<1>7. Judged'
    BY <1>4 DEF Judged, Pending, ReportsOf, Expected
<1> QED BY <1>2, <1>3, <1>5, <1>6, <1>7

-----------------------------------------------------------------------------
LEMMA RunStepKeepsInvariant ==
    ASSUME IInv, BeginRun \/ NextMount \/ ReturnFromCall
    PROVE  IInv'
<1> USE DEF IInv
<1>1. CASE BeginRun
    <2>1. TypeOK' /\ Guarded'
        BY <1>1 DEF BeginRun, machine, TypeOK, Guarded
    <2>2. (Once /\ Answered /\ Judged)'
        BY <1>1 DEF BeginRun, machine, Once, Answered, Judged, Trying, Pending, ReportsOf,
                    Expected, TypeOK
    <2> QED BY <2>1, <2>2
<1>2. CASE NextMount
    <2>1. TypeOK' /\ Guarded'
        BY <1>2 DEF NextMount, machine, TypeOK, Guarded
    <2>2. Once' /\ Answered'
        BY <1>2 DEF NextMount, machine, Once, Answered, Trying, Pending, ReportsOf, TypeOK
    <2>3. Judged'
        BY <1>2 DEF NextMount, machine, Judged, Trying, Pending, ReportsOf, Expected
    <2> QED BY <2>1, <2>2, <2>3
<1>3. CASE ReturnFromCall
    <2>1. mount \in Mounts
        BY <1>3 DEF ReturnFromCall, Once, Trying
    <2>2. TypeOK' /\ Guarded'
        BY <1>3, <2>1 DEF ReturnFromCall, machine, TypeOK, Guarded
    <2>3. Once' /\ Judged'
        BY <1>3 DEF ReturnFromCall, machine, Once, Judged, Trying, Pending, ReportsOf,
                    Expected
    <2>4. Answered'
        BY <1>3 DEF ReturnFromCall, machine, Answered
    <2> QED BY <2>2, <2>3, <2>4
<1> QED BY <1>1, <1>2, <1>3

\* The mount at hand is reported as its usage requires, and no other is.
LEMMA JudgeKeepsInvariant == IInv /\ Judge => IInv'
<1> SUFFICES ASSUME IInv, Judge PROVE IInv'
    OBVIOUS
<1> USE DEF IInv
<1>1. mount \in Mounts /\ mount \notin todo /\ ReportsOf(mount) = {}
    BY DEF Judge, Once, Trying, Pending
<1>2. TypeOK'
    BY <1>1 DEF Judge, machine, TypeOK, Priority
<1>3. Guarded' /\ Answered'
    BY DEF Judge, machine, Guarded, Answered
<1>4. ASSUME NEW m, m # mount
      PROVE  ReportsOf(m)' = ReportsOf(m)
    BY <1>4 DEF Judge, ReportsOf
<1>5. Once'
    BY <1>1, <1>4 DEF Judge, machine, Once, Trying, Pending
<1>6. ASSUME mount \in steady, wpc' # "down"
      PROVE  ReportsOf(mount)' = Expected(mount)
    <2>1. answer = usage[mount] /\ answer # Unmounted /\ answer \in Int
        BY <1>6, DiskAssumption DEF Judge, Answered, TypeOK, Failed
    <2>2. CASE answer >= 900 /\ mount \notin Ignored
        <3>1. errors' = errors \cup {<<mount, Priority(answer)>>}
            BY <2>2, <1>6 DEF Judge
        <3>2. \A e \in errors : e[1] # mount
            BY <1>1 DEF ReportsOf
        <3>3. {x \in errors' : x[1] = mount} = {<<mount, Priority(answer)>>}
            BY <3>1, <3>2
        <3>4. mount' = mount
            BY DEF Judge
        <3>5. ReportsOf(mount)' = {e[2] : e \in {x \in errors' : x[1] = mount}}
            BY <3>4 DEF ReportsOf
        <3>6. ReportsOf(mount)' = {e[2] : e \in {<<mount, Priority(answer)>>}}
            BY <3>3, <3>5
        <3>7. ReportsOf(mount)' = {Priority(answer)}
            BY <3>6
        <3> QED BY <3>7, <2>1, <2>2 DEF Priority, ReportsFor, Expected
    <2>3. CASE ~(answer >= 900 /\ mount \notin Ignored)
        BY <2>3, <2>1, <1>1 DEF Judge, ReportsOf, ReportsFor, Expected
    <2> QED BY <2>2, <2>3
<1>7. Judged'
    <2> SUFFICES ASSUME wpc' # "down", NEW m \in steady'
                 PROVE  Pending(m)' \/ ReportsOf(m)' = Expected(m)'
        BY DEF Judged
    <2>1. /\ steady' = steady /\ usage' = usage /\ todo' = todo /\ mount' = mount
          /\ ~Trying'
        BY DEF Judge, machine, Trying
    <2>2. CASE m = mount
        BY <2>1, <2>2, <1>6 DEF ReportsOf, Expected
    <2>3. CASE m # mount
        BY <2>1, <2>3, <1>4 DEF Judge, Judged, Pending, Expected
    <2> QED BY <2>2, <2>3
<1> QED BY <1>2, <1>3, <1>5, <1>7

-----------------------------------------------------------------------------
LEMMA OutsideStepKeepsInvariant ==
    ASSUME IInv,
           AlarmFires \/ Restart \/ \E m \in Mounts : ChangeUsage(m) \/ HangOrRecover(m)
    PROVE  IInv'
<1> USE DEF IInv
<1>1. CASE AlarmFires
    <2>1. handler /\ wpc' = wpc
        BY <1>1 DEF AlarmFires, Guarded
    <2>2. armed' \in BOOLEAN /\ interrupted' \in BOOLEAN /\ strayed' \in BOOLEAN
        BY <1>1, Zenon DEF AlarmFires, TypeOK
    <2>3. TypeOK' /\ Guarded'
        BY <1>1, <2>1, <2>2 DEF AlarmFires, machine, TypeOK, Guarded
    <2>4. (Once /\ Answered /\ Judged)'
        BY <1>1, <2>1 DEF AlarmFires, machine, Once, Answered, Judged, Trying, Pending,
                          ReportsOf, Expected
    <2> QED BY <2>3, <2>4
<1>2. CASE Restart
    <2>1. TypeOK' /\ Guarded'
        BY <1>2 DEF Restart, machine, TypeOK, Guarded
    <2>2. (Once /\ Answered /\ Judged)'
        BY <1>2 DEF Restart, machine, Once, Answered, Judged, Trying, Pending, ReportsOf, Expected
    <2> QED BY <2>1, <2>2
<1>3. ASSUME NEW m \in Mounts, ChangeUsage(m)
      PROVE  IInv'
    <2>1. TypeOK' /\ Guarded'
        BY <1>3 DEF ChangeUsage, TypeOK, Guarded
    <2>2. \A n \in steady' : n \in steady /\ usage'[n] = usage[n]
        BY <1>3 DEF ChangeUsage, TypeOK
    <2>3. (Once /\ Answered /\ Judged)'
        BY <1>3, <2>2 DEF ChangeUsage, Once, Answered, Judged, Trying, Pending, ReportsOf,
                         Expected
    <2> QED BY <2>1, <2>3
<1>4. ASSUME NEW m \in Mounts, HangOrRecover(m)
      PROVE  IInv'
    <2>1. TypeOK' /\ Guarded'
        BY <1>4 DEF HangOrRecover, TypeOK, Guarded
    <2>2. (Once /\ Answered /\ Judged)'
        BY <1>4 DEF HangOrRecover, Once, Answered, Judged, Trying, Pending, ReportsOf,
                    Expected
    <2> QED BY <2>1, <2>2
<1> QED BY <1>1, <1>2, <1>3, <1>4

LEMMA StutterKeepsInvariant == IInv /\ UNCHANGED vars => IInv'
BY DEF IInv, vars, machine, TypeOK, Guarded, Once, Answered, Judged, Trying, Pending,
       ReportsOf, Expected

-----------------------------------------------------------------------------
\* The inductive invariant holds, whatever hangs and whoever gets the signals.
THEOREM InvariantHolds == Spec => []IInv
<1>1. IInv /\ [Next]_vars => IInv'
    BY MoveKeepsInvariant, RunStepKeepsInvariant, JudgeKeepsInvariant,
       OutsideStepKeepsInvariant, StutterKeepsInvariant
       DEF Next, WorkerStep, Moves
<1> QED BY <1>1, InitInvariant, PTL DEF Spec

\* statvfs_try() never leaves the daemon with an alarm and the default action.
THEOREM SignalHandled == Spec => []HandlerWhileArmed
<1>1. IInv => HandlerWhileArmed
    BY DEF IInv, Guarded, HandlerWhileArmed
<1> QED BY <1>1, InvariantHolds, PTL

\* A run of the disk plugin that ends has reported the mounts that were steady, and
\* those only, whatever happened to the others.
THEOREM SteadyReported == Spec => []SteadyMountsReported
<1>1. IInv => SteadyMountsReported
    BY DEF IInv, Once, Judged, Pending, Trying, ReportsOf, ReportsFor,
           Expected, SteadyMountsReported
<1> QED BY <1>1, InvariantHolds, PTL

\* The worker is at one of the steps of statvfs_try(), and what it reports has one of
\* the three priorities.
THEOREM TypeCorrect == Spec => []TypeOK
<1>1. IInv => TypeOK
    BY DEF IInv
<1> QED BY <1>1, InvariantHolds, PTL

-----------------------------------------------------------------------------
(* The modes of the log plugin *)

LEMMA NoBits == BitsOf(0) = {}
BY DEF BitsOf, Bits

\* A mode in letters that has no permission of the users has the upper bits alone.
LEMMA UpperBitsAlone ==
    ASSUME NEW who, NEW perms, perms \subseteq {"s", "t"}
    PROVE  BitsOf(Digit(perms) * Flags(who)) = {}
<1>1. Digit(perms) = 0 /\ Flags(who) \in Int
    BY DEF Digit, Flags
<1>2. Digit(perms) * Flags(who) = 0
    BY <1>1
<1> QED BY <1>2, NoBits

\* For every text whose meaning the code follows, and every mode of a file, an error is
\* what the README says is one.
THEOREM ModeAsDocumented ==
    ASSUME NEW text, text.kind \in {"none", "numeric", "letters"}, Documented(text),
           NEW stMode
    PROVE  ModeWrong(ParseMode(text), stMode) <=> ~Accepts(text, stMode)
<1>1. CASE text.kind = "none"
    BY <1>1 DEF ModeWrong, ParseMode, Accepts
<1>2. CASE text.kind = "numeric"
    <2> DEFINE mode == BitsOf(Octal(text.digits))
               mask == BitsOf(Octal(text.mask))
    <2>1. mode # {} /\ (text.mask = <<>> \/ mask # {})
        BY <1>2 DEF Documented
    <2>2. ParseMode(text) =
            [mode |-> mode, mask |-> IF text.mask = <<>> THEN BitsOf(\o7777) ELSE mask]
        BY <1>2, <2>1 DEF ParseMode, Numeric, MaskOr7777
    <2>3. Accepts(text, stMode) <=>
            IF text.mask = <<>> THEN stMode \cap BitsOf(\o7777) = mode
            ELSE stMode \cap mask = mode
        BY <1>2 DEF Accepts, DocumentedNumeric, Exactly
    <2> HIDE DEF mode, mask
    <2> QED BY <2>1, <2>2, <2>3 DEF ModeWrong
<1>3. CASE text.kind = "letters"
    <2> DEFINE upper == UpperBits(text.who, text.perms)
    <2>1. text.perms \subseteq {"s", "t"}
        BY <1>3 DEF Documented
    <2>2. BitsOf(Digit(text.perms) * Flags(text.who)) \cup upper = upper
        BY <2>1, UpperBitsAlone
    <2>3. text.perms \cap {"r", "w", "x"} = {}
        BY <2>1
    <2>4. CASE text.op = "+"
        <3>1. ParseMode(text) = [mode |-> upper, mask |-> MaskOr7777(upper)]
            BY <1>3, <2>2, <2>4 DEF ParseMode, Letters
        <3>2. Accepts(text, stMode) <=> stMode \cap upper = upper
            BY <1>3, <2>3, <2>4 DEF Accepts, DocumentedLetters
        <3> HIDE DEF upper
        <3> QED BY <3>1, <3>2 DEF ModeWrong, MaskOr7777
    <2>5. CASE text.op = "="
        <3>1. ParseMode(text).mode = upper /\ ParseMode(text).mask = BitsOf(\o7777)
            <4>1. ParseMode(text) = Letters(text.who, "=", text.perms)
                BY <1>3, <2>5 DEF ParseMode
            <4>2. /\ Letters(text.who, "=", text.perms).mode =
                        BitsOf(Digit(text.perms) * Flags(text.who)) \cup upper
                  /\ Letters(text.who, "=", text.perms).mask = BitsOf(\o7777)
                BY DEF Letters
            <4> HIDE DEF upper
            <4>3. ParseMode(text).mode = upper
                <5>1. Letters(text.who, "=", text.perms).mode =
                        BitsOf(Digit(text.perms) * Flags(text.who)) \cup upper
                    BY <4>2
                <5> QED BY <2>2, <4>1, <5>1, Zenon
            <4> QED BY <4>1, <4>2, <4>3
        <3>2. Accepts(text, stMode) <=> Exactly(stMode, upper)
            BY <1>3, <2>3, <2>5 DEF Accepts, DocumentedLetters
        <3>3. upper # {}
            BY <1>3, <2>5 DEF Documented
        <3> HIDE DEF upper
        <3> QED BY <3>1, <3>2, <3>3 DEF ModeWrong, Exactly
    <2> QED BY <1>3, <2>4, <2>5 DEF Documented
<1> QED BY <1>1, <1>2, <1>3

-----------------------------------------------------------------------------
(* The invariant of the log plugin *)

Searching == at \in {"glob", "check"}

LogsTyped ==
    /\ definitions \in Configurations
    /\ at \in {"idle", "glob", "check", "down"}
    /\ idx \in Nat /\ next \in Nat
    /\ Searching => idx \in DOMAIN definitions
    /\ queue \subseteq Files /\ (at # "check" => queue = {})
    /\ present \subseteq Existing

\* What was seen and reported is of the definitions looked at so far, and that there is
\* no log is said of those that are over.
SoFar ==
    /\ \A s \in seen : s.def \in 1..idx /\ s.file \in Files
    /\ \A e \in reported : e.def \in 1..idx /\ (e.def = idx => e.file \in Files)

\* f_found is about the definition at hand.
FoundOwn == Searching => (found <=> \E s \in seen : s.def = idx)

Finds(i, k, f) ==
    Place[f] = <<PathOf(definitions[i]), PatternsOf(definitions[i])[k]>>
Looked(i, f) == \E s \in seen : s.def = i /\ s.file = f

\* A file that stays was seen for every definition that is over, and is seen or in the
\* queue for each pattern of the one at hand that was looked for.
PresentLooked ==
    /\ \A i \in DOMAIN definitions, f \in present : Done(i) =>
        \A k \in DOMAIN PatternsOf(definitions[i]) : Finds(i, k, f) => Looked(i, f)
    /\ Searching => \A f \in present : \A k \in DOMAIN PatternsOf(Definition) :
        k < next /\ Finds(idx, k, f) => f \in queue \/ Looked(idx, f)

LogsInv ==
    LogsTyped /\ SoFar /\ FoundOwn /\ PresentLooked /\ NoLogsMeansNone /\ ModeReported

-----------------------------------------------------------------------------
LEMMA LogsInitInvariant == LogsInit => LogsInv
<1> SUFFICES ASSUME LogsInit PROVE LogsInv
    OBVIOUS
<1>1. LogsTyped /\ SoFar
    BY DEF LogsInit, LogsTyped, SoFar, Searching
<1>2. FoundOwn /\ PresentLooked /\ NoLogsMeansNone
    <2>1. at = "idle" /\ present = {} /\ seen = {} /\ reported = {} /\ idx = 0
        BY DEF LogsInit
    <2>2. \A i \in DOMAIN definitions : ~Done(i)
        BY <2>1, LogsAssumption DEF LogsInit, Done
    <2> QED
        BY <2>1, <2>2 DEF FoundOwn, PresentLooked, NoLogsMeansNone, Searching
<1>3. ModeReported
    BY DEF LogsInit, ModeReported
<1> QED
    BY <1>1, <1>2, <1>3 DEF LogsInv

LEMMA LoadKeepsInvariant == LogsInv /\ LoadDefinitions => LogsInv'
<1> SUFFICES ASSUME LogsInv, LoadDefinitions PROVE LogsInv'
    OBVIOUS
<1>1. /\ definitions \in Configurations /\ definitions' = definitions
      /\ disk' = disk /\ idx' = 1 /\ next' = 1 /\ queue' = {} /\ found' = FALSE
      /\ reported' = {} /\ seen' = {} /\ present' = Existing
      /\ at' \in {"idle", "glob", "down"}
      /\ at' = "glob" => definitions # <<>>
    BY DEF LogsInv, LogsTyped, LoadDefinitions
<1>2. definitions' # <<>> => 1 \in DOMAIN definitions'
    BY <1>1, LogsAssumption
<1>3. \A i \in DOMAIN definitions : ~Done(i)'
    BY <1>1, LogsAssumption DEF Done
<1>4. LogsTyped'
    BY <1>1, <1>2 DEF LogsTyped, Searching, Existing
<1>5. SoFar' /\ ModeReported'
    BY <1>1 DEF SoFar, ModeReported
<1>6. FoundOwn' /\ NoLogsMeansNone'
    BY <1>1, <1>3 DEF FoundOwn, NoLogsMeansNone
<1>7. PresentLooked'
    <2>1. \A k \in DOMAIN PatternsOf(Definition)' : Searching' => ~(k < next')
        BY <1>1, <1>2, LogsAssumption DEF PatternsOf, Definition, Searching
    <2> QED
        BY <1>1, <1>3, <2>1 DEF PresentLooked
<1> QED
    BY <1>4, <1>5, <1>6, <1>7 DEF LogsInv

LEMMA GlobKeepsInvariant == LogsInv /\ Glob => LogsInv'
<1> SUFFICES ASSUME LogsInv, Glob PROVE LogsInv'
    OBVIOUS
<1>1. /\ definitions' = definitions /\ disk' = disk /\ idx' = idx /\ found' = found
      /\ reported' = reported /\ seen' = seen /\ present' = present
      /\ at = "glob" /\ at' = "check" /\ next' = next + 1 /\ next \in Nat
      /\ queue' = {f \in Existing :
            Place[f] = <<PathOf(Definition), PatternsOf(Definition)[next]>>}
    BY DEF LogsInv, LogsTyped, Glob
<1>2. LogsTyped'
    BY <1>1 DEF LogsInv, LogsTyped, Searching, Existing
<1>3. SoFar' /\ ModeReported'
    BY <1>1 DEF LogsInv, SoFar, ModeReported
<1>4. FoundOwn' /\ NoLogsMeansNone'
    BY <1>1 DEF LogsInv, FoundOwn, NoLogsMeansNone, Searching, Done
<1>5. PresentLooked'
    <2>1. ASSUME NEW f \in present, NEW k \in DOMAIN PatternsOf(Definition),
                 k < next', Finds(idx, k, f)
          PROVE  f \in queue' \/ Looked(idx, f)
        <3>1. k \in Nat
            BY <1>1, LogsAssumption DEF PatternsOf, Definition, LogsInv, LogsTyped, Searching
        <3>2. CASE k = next
            BY <1>1, <2>1, <3>2 DEF Finds, Definition, LogsInv, LogsTyped
        <3>3. CASE k < next
            <4>1. f \in queue \/ Looked(idx, f)
                BY <1>1, <2>1, <3>3 DEF LogsInv, PresentLooked, Searching
            <4> QED
                BY <1>1, <4>1 DEF LogsInv, LogsTyped
        <3> QED
            BY <1>1, <2>1, <3>1, <3>2, <3>3
    <2> QED
        BY <1>1, <2>1 DEF LogsInv, PresentLooked, Searching, Done, Finds, Looked, Definition
<1> QED
    BY <1>2, <1>3, <1>4, <1>5 DEF LogsInv

LEMMA EndPatternKeepsInvariant == LogsInv /\ EndPattern => LogsInv'
<1> SUFFICES ASSUME LogsInv, EndPattern PROVE LogsInv'
    OBVIOUS
<1>1. /\ definitions' = definitions /\ disk' = disk /\ idx' = idx /\ found' = found
      /\ reported' = reported /\ seen' = seen /\ present' = present
      /\ next' = next /\ queue' = queue /\ queue = {}
      /\ at = "check" /\ at' = "glob"
    BY DEF EndPattern
<1>2. LogsTyped'
    BY <1>1 DEF LogsInv, LogsTyped, Searching, Existing
<1>3. SoFar' /\ ModeReported'
    BY <1>1 DEF LogsInv, SoFar, ModeReported
<1>4. FoundOwn' /\ NoLogsMeansNone'
    BY <1>1 DEF LogsInv, FoundOwn, NoLogsMeansNone, Searching, Done
<1>5. PresentLooked'
    BY <1>1 DEF LogsInv, PresentLooked, Searching, Done, Finds, Looked, Definition
<1> QED
    BY <1>2, <1>3, <1>4, <1>5 DEF LogsInv

LEMMA ChangeFileKeepsInvariant ==
    ASSUME LogsInv, NEW g \in Files, ChangeFile(g) PROVE LogsInv'
<1>1. /\ definitions' = definitions /\ idx' = idx /\ found' = found
      /\ reported' = reported /\ seen' = seen /\ at' = at
      /\ next' = next /\ queue' = queue
      /\ present' = present \cap {f \in Files : disk'[f] # Gone}
    BY DEF ChangeFile
<1>2. LogsTyped'
    BY <1>1 DEF LogsInv, LogsTyped, Searching, Existing
<1>3. SoFar' /\ ModeReported'
    BY <1>1 DEF LogsInv, SoFar, ModeReported
<1>4. FoundOwn' /\ NoLogsMeansNone'
    BY <1>1 DEF LogsInv, FoundOwn, NoLogsMeansNone, Searching, Done
<1>5. PresentLooked'
    <2>1. present' \subseteq present
        BY <1>1
    <2> QED
        BY <1>1, <2>1
           DEF LogsInv, PresentLooked, Searching, Done, Finds, Looked, Definition
<1> QED
    BY <1>2, <1>3, <1>4, <1>5 DEF LogsInv

LEMMA RestartKeepsInvariant == LogsInv /\ RestartLogs => LogsInv'
<1> SUFFICES ASSUME LogsInv, RestartLogs PROVE LogsInv'
    OBVIOUS
<1>1. /\ definitions' \in Configurations /\ at' = "idle" /\ idx' = 0 /\ next' = 0
      /\ queue' = {} /\ reported' = {} /\ seen' = {} /\ present' = {}
    BY DEF RestartLogs
<1>2. LogsTyped' /\ SoFar' /\ ModeReported'
    BY <1>1 DEF LogsTyped, SoFar, ModeReported, Searching
<1>3. \A i \in DOMAIN definitions' : ~Done(i)'
    BY <1>1, LogsAssumption DEF Done
<1>4. FoundOwn' /\ NoLogsMeansNone' /\ PresentLooked'
    BY <1>1, <1>3 DEF FoundOwn, NoLogsMeansNone, PresentLooked, Searching
<1> QED
    BY <1>2, <1>4 DEF LogsInv

LEMMA LogsStutterKeepsInvariant == LogsInv /\ UNCHANGED logVars => LogsInv'
<1> SUFFICES ASSUME LogsInv, UNCHANGED logVars PROVE LogsInv'
    OBVIOUS
<1> USE DEF logVars
<1>1. LogsTyped' /\ SoFar' /\ ModeReported'
    BY DEF LogsInv, LogsTyped, SoFar, ModeReported, Searching, Existing
<1>2. FoundOwn' /\ NoLogsMeansNone' /\ PresentLooked'
    BY DEF LogsInv, FoundOwn, NoLogsMeansNone, PresentLooked, Searching, Done, Finds,
           Looked, Definition
<1> QED
    BY <1>1, <1>2 DEF LogsInv

-----------------------------------------------------------------------------
\* The error about the mode, of a definition whose mode means what the text says.
LEMMA ErrorOfMode ==
    ASSUME NEW d, d.mode.kind \in {"none", "numeric", "letters"}, Documented(d.mode),
           NEW st
    PROVE  64 \in ErrorsOf(d, st) <=> ~Accepts(d.mode, st.mode)
<1>1. 64 \in ErrorsOf(d, st) <=> ModeWrong(ParseMode(d.mode), st.mode)
    BY DEF ErrorsOf
<1> QED
    BY <1>1, ModeAsDocumented

LEMMA NotOfMode == ASSUME NEW d, NEW st PROVE ErrorsOf(d, st) \subseteq {73, 58, 63, 59, 64}
BY DEF ErrorsOf

LEMMA CheckLogKeepsInvariant == LogsInv /\ CheckLog => LogsInv'
<1> SUFFICES ASSUME LogsInv, CheckLog PROVE LogsInv'
    OBVIOUS
<1>1. /\ definitions' = definitions /\ disk' = disk /\ idx' = idx /\ next' = next
      /\ at = "check" /\ at' = at /\ present' = present
    BY DEF CheckLog
<1>2. PICK f \in queue :
        /\ queue' = queue \ {f}
        /\ IF disk[f] = Gone THEN UNCHANGED <<found, reported, seen>>
           ELSE /\ found' = TRUE
                /\ seen' = seen \cup {[def |-> idx, file |-> f, stat |-> disk[f]]}
                /\ reported' = reported \cup {[def |-> idx, file |-> f, priority |-> p]
                                             : p \in ErrorsOf(Definition, disk[f])}
    BY DEF CheckLog
<1>3. /\ f \in Files /\ idx \in DOMAIN definitions /\ idx \in Nat
      /\ definitions \in Configurations
      /\ DOMAIN definitions = 1..Len(definitions) /\ Len(definitions) \in Nat
    BY <1>1, LogsAssumption DEF LogsInv, LogsTyped, Searching
<1>4. LogsTyped'
    BY <1>1, <1>2 DEF LogsInv, LogsTyped, Searching, Existing
<1>5. CASE disk[f] = Gone
    <2>1. found' = found /\ reported' = reported /\ seen' = seen
        BY <1>2, <1>5
    <2>2. SoFar' /\ ModeReported'
        BY <1>1, <2>1 DEF LogsInv, SoFar, ModeReported
    <2>3. FoundOwn' /\ NoLogsMeansNone'
        BY <1>1, <2>1 DEF LogsInv, FoundOwn, NoLogsMeansNone, Searching, Done
    <2>4. f \notin present
        BY <1>5 DEF LogsInv, LogsTyped, Existing
    <2>5. PresentLooked'
        BY <1>1, <1>2, <2>1, <2>4
           DEF LogsInv, PresentLooked, Searching, Done, Finds, Looked, Definition
    <2> QED
        BY <1>4, <2>2, <2>3, <2>5 DEF LogsInv
<1>6. CASE disk[f] # Gone
    <2> DEFINE look == [def |-> idx, file |-> f, stat |-> disk[f]]
               new == {[def |-> idx, file |-> f, priority |-> p]
                        : p \in ErrorsOf(Definition, disk[f])}
    <2>1. found' = TRUE /\ seen' = seen \cup {look} /\ reported' = reported \cup new
        BY <1>2, <1>6
    <2>2. look.def = idx /\ look.file = f /\ look.stat = disk[f]
        OBVIOUS
    <2>3. \A e \in new : e.def = idx /\ e.file = f
        OBVIOUS
    <2>4. \A i, g, q : [def |-> i, file |-> g, priority |-> q] \in new
                        <=> i = idx /\ g = f /\ q \in ErrorsOf(Definition, disk[f])
        OBVIOUS
    <2> HIDE DEF look, new
    <2>5. SoFar'
        BY <1>1, <1>3, <2>1, <2>2, <2>3 DEF LogsInv, SoFar
    <2>6. FoundOwn'
        BY <1>1, <2>1, <2>2 DEF FoundOwn
    <2>7. NoLogsMeansNone'
        <3> SUFFICES ASSUME NEW i \in DOMAIN definitions, Done(i)
                     PROVE  [def |-> i, file |-> NoFile, priority |-> 85] \in reported'
                                <=> \A s \in seen' : s.def # i
            BY <1>1 DEF NoLogsMeansNone, Done
        <3>1. i # idx
            BY <1>3 DEF Done
        <3>2. [def |-> i, file |-> NoFile, priority |-> 85] \in reported
                <=> \A s \in seen : s.def # i
            BY DEF LogsInv, NoLogsMeansNone
        <3> QED
            BY <2>1, <2>2, <2>4, <3>1, <3>2
    <2>8. ModeReported'
        <3> SUFFICES ASSUME NEW i \in DOMAIN definitions, NEW g \in Files,
                            Documented(definitions[i].mode)
                     PROVE  [def |-> i, file |-> g, priority |-> 64] \in reported'
                                <=> \E s \in seen' :
                                        /\ s.def = i /\ s.file = g
                                        /\ ~Accepts(definitions[i].mode, s.stat.mode)
            BY <1>1 DEF ModeReported
        <3>1. [def |-> i, file |-> g, priority |-> 64] \in reported
                <=> \E s \in seen : /\ s.def = i /\ s.file = g
                                    /\ ~Accepts(definitions[i].mode, s.stat.mode)
            BY DEF LogsInv, ModeReported
        <3>2. [def |-> i, file |-> g, priority |-> 64] \in new
                <=> /\ look.def = i /\ look.file = g
                    /\ ~Accepts(definitions[i].mode, look.stat.mode)
            <4>1. CASE i = idx /\ g = f
                <5>1. definitions[i].mode.kind \in {"none", "numeric", "letters"}
                    BY <1>3, LogsAssumption
                <5>2. 64 \in ErrorsOf(definitions[i], disk[f])
                        <=> ~Accepts(definitions[i].mode, disk[f].mode)
                    BY <5>1, ErrorOfMode
                <5> QED
                    BY <2>2, <2>4, <4>1, <5>2 DEF Definition
            <4>2. CASE ~(i = idx /\ g = f)
                BY <2>2, <2>4, <4>2
            <4> QED
                BY <4>1, <4>2
        <3> QED
            BY <2>1, <3>1, <3>2
    <2>9. PresentLooked'
        <3>1. \A i, g : Looked(i, g)' <=> Looked(i, g) \/ (i = idx /\ g = f)
            BY <2>1, <2>2 DEF Looked
        <3>2. \A g \in queue : g \in queue' \/ g = f
            BY <1>2
        <3>3. \A i : Done(i)' <=> Done(i)
            BY <1>1 DEF Done
        <3>4. \A i, k, g : Finds(i, k, g)' <=> Finds(i, k, g)
            BY <1>1 DEF Finds
        <3> QED
            BY <1>1, <3>1, <3>2, <3>3, <3>4
               DEF LogsInv, PresentLooked, Searching, Definition
    <2> QED
        BY <1>4, <2>5, <2>6, <2>7, <2>8, <2>9 DEF LogsInv
<1> QED
    BY <1>5, <1>6

LEMMA EndDefinitionKeepsInvariant == LogsInv /\ EndDefinition => LogsInv'
<1> SUFFICES ASSUME LogsInv, EndDefinition PROVE LogsInv'
    OBVIOUS
<1> DEFINE none == [def |-> idx, file |-> NoFile, priority |-> 85]
<1>1. /\ definitions' = definitions /\ disk' = disk /\ idx' = idx + 1 /\ next' = 1
      /\ queue' = queue /\ present' = present /\ seen' = seen /\ found' = FALSE
      /\ at = "glob" /\ next > Len(PatternsOf(Definition))
      /\ at' = IF idx < Len(definitions) THEN "glob" ELSE "idle"
      /\ reported' = IF found THEN reported ELSE reported \cup {none}
    BY DEF EndDefinition
<1>2. /\ idx \in DOMAIN definitions /\ idx \in Nat /\ definitions \in Configurations
      /\ DOMAIN definitions = 1..Len(definitions) /\ Len(definitions) \in Nat
      /\ queue = {} /\ next \in Nat
    BY <1>1, LogsAssumption DEF LogsInv, LogsTyped, Searching
<1>3. \A i \in DOMAIN definitions : Done(i)' <=> Done(i) \/ i = idx
    BY <1>1, <1>2 DEF Done
<1>4. found <=> \E s \in seen : s.def = idx
    BY <1>1 DEF LogsInv, FoundOwn, Searching
<1>5. /\ none.def = idx /\ none.file = NoFile /\ none.priority = 85
      /\ \A i, g, q : [def |-> i, file |-> g, priority |-> q] = none
                        <=> i = idx /\ g = NoFile /\ q = 85
    OBVIOUS
<1> HIDE DEF none
<1>6. LogsTyped'
    <2>1. at' \in {"idle", "glob"} /\ (at' = "glob" => idx' \in DOMAIN definitions')
        BY <1>1, <1>2
    <2> QED
        BY <1>1, <1>2, <2>1 DEF LogsInv, LogsTyped, Searching, Existing
<1>7. SoFar'
    BY <1>1, <1>2, <1>5 DEF LogsInv, SoFar
<1>8. FoundOwn'
    <2>1. \A s \in seen' : s.def # idx'
        BY <1>1, <1>2 DEF LogsInv, SoFar
    <2> QED
        BY <1>1, <2>1 DEF FoundOwn
<1>9. NoLogsMeansNone'
    <2> SUFFICES ASSUME NEW i \in DOMAIN definitions, Done(i)'
                 PROVE  [def |-> i, file |-> NoFile, priority |-> 85] \in reported'
                            <=> \A s \in seen : s.def # i
        BY <1>1 DEF NoLogsMeansNone
    <2>1. CASE i = idx
        <3>1. [def |-> i, file |-> NoFile, priority |-> 85] \notin reported
            BY <2>1, LogsAssumption DEF LogsInv, SoFar
        <3> QED
            BY <1>1, <1>4, <1>5, <2>1, <3>1
    <2>2. CASE i # idx
        <3>1. [def |-> i, file |-> NoFile, priority |-> 85] \in reported
                <=> \A s \in seen : s.def # i
            BY <1>3, <2>2 DEF LogsInv, NoLogsMeansNone
        <3> QED
            BY <1>1, <1>5, <2>2, <3>1
    <2> QED
        BY <2>1, <2>2
<1>10. ModeReported'
    BY <1>1, <1>5 DEF LogsInv, ModeReported
<1>11. PresentLooked'
    <2>1. ASSUME NEW i \in DOMAIN definitions, NEW f \in present, Done(i)',
                 NEW k \in DOMAIN PatternsOf(definitions[i]), Finds(i, k, f)
          PROVE  Looked(i, f)
        <3>1. CASE i = idx
            <4>1. k < next
                BY <1>1, <1>2, <3>1, LogsAssumption DEF PatternsOf, Definition
            <4> QED
                BY <1>1, <1>2, <2>1, <3>1, <4>1
                   DEF LogsInv, PresentLooked, Searching, Definition
        <3>2. CASE i # idx
            BY <1>3, <2>1, <3>2 DEF LogsInv, PresentLooked
        <3> QED
            BY <3>1, <3>2
    <2>2. \A k \in DOMAIN PatternsOf(Definition)' : Searching' => ~(k < next')
        BY <1>1, <1>2, <1>6, LogsAssumption
           DEF PatternsOf, Definition, Searching, LogsTyped
    <2>3. \A i, k, f : Finds(i, k, f)' <=> Finds(i, k, f)
        BY <1>1 DEF Finds
    <2>4. \A i, f : Looked(i, f)' <=> Looked(i, f)
        BY <1>1 DEF Looked
    <2> QED
        BY <1>1, <2>1, <2>2, <2>3, <2>4 DEF PresentLooked
<1> QED
    BY <1>6, <1>7, <1>8, <1>9, <1>10, <1>11 DEF LogsInv

-----------------------------------------------------------------------------
\* The inductive invariant of the log plugin: what is known of each definition is about
\* its own files.
THEOREM LogsInvariant == LogsSpec => []LogsInv
<1>1. LogsInv /\ [LogsNext]_logVars => LogsInv'
    BY LoadKeepsInvariant, GlobKeepsInvariant, CheckLogKeepsInvariant,
       EndPatternKeepsInvariant, EndDefinitionKeepsInvariant, ChangeFileKeepsInvariant,
       RestartKeepsInvariant, LogsStutterKeepsInvariant, Zenon DEF LogsNext
<1> QED
    BY <1>1, LogsInitInvariant, PTL DEF LogsSpec

\* "No logs found" is reported of the definitions none of whose files could be looked
\* at, however many definitions there are (f_found is reset by each of them).
THEOREM NoLogsIsMeant == LogsSpec => []NoLogsMeansNone
<1>1. LogsInv => NoLogsMeansNone
    BY DEF LogsInv
<1> QED
    BY <1>1, LogsInvariant, PTL

\* A log that was there during the whole run was checked, whatever was rotated
\* meanwhile (check_log() ignores a file that vanished).
THEOREM SteadyFilesAreChecked == LogsSpec => []SteadyFilesChecked
<1>1. LogsInv => SteadyFilesChecked
    <2> SUFFICES ASSUME LogsInv, NEW i \in DOMAIN definitions, NEW f \in present, Done(i),
                        NEW p \in ToSet(PatternsOf(definitions[i])),
                        Place[f] = <<PathOf(definitions[i]), p>>
                 PROVE  \E s \in seen : s.def = i /\ s.file = f
        BY DEF SteadyFilesChecked
    <2>1. PICK k \in DOMAIN PatternsOf(definitions[i]) : p = PatternsOf(definitions[i])[k]
        BY DEF ToSet
    <2>2. Finds(i, k, f)
        BY <2>1 DEF Finds
    <2> QED
        BY <2>2 DEF LogsInv, PresentLooked, Looked
<1> QED
    BY <1>1, LogsInvariant, PTL

\* An error about the mode is reported of a file if and only if one that was seen has
\* not the mode the definition's text means (load_config() and check_log()).
THEOREM ModesAreReported == LogsSpec => []ModeReported
<1>1. LogsInv => ModeReported
    BY DEF LogsInv
<1> QED
    BY <1>1, LogsInvariant, PTL

=============================================================================
