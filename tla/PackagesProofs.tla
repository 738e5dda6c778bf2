---------------------------- MODULE PackagesProofs ----------------------------
(***************************************************************************)
(* Proofs about Packages, for any packages and any definition files.       *)
(*                                                                         *)
(* That two definitions in conflict agree is about the end of a run: the   *)
(* invariant says what was reported of the definitions already looked at,  *)
(* in terms of the answers in memory, and that an answer, once given, is   *)
(* the one every later question of the run gets.                           *)
(***************************************************************************)
EXTENDS Packages, TLAPS

Statuses == [known : BOOLEAN, answer : BOOLEAN]
InRun == wpc \in {"name", "conflicts", "save"}

Typed ==
    /\ definitions \in Configurations
    /\ memory \in [Names -> Statuses] /\ file \in [Names -> Statuses]
    /\ loaded \in BOOLEAN
    /\ InRun => idx \in Nat \ {0}
    /\ wpc \in {"name", "conflicts"} => idx \in DOMAIN definitions
    /\ wpc = "save" => idx > Len(definitions)

\* What is known of a package stays so for the rest of the run.
Asked(name) == loaded /\ memory[name] # Unknown

\* What the run made of an optional definition that conflicts with one package.
Judged(i) ==
    \A c \in Names :
        Installation(definitions[i]) = "optional" /\ definitions[i].conflicts = {c} =>
            /\ Asked(definitions[i].name)
            /\ memory[definitions[i].name].answer => Asked(c)
            /\ <<i, "conflict">> \in errors <=>
                    memory[definitions[i].name].answer /\ memory[c].answer

Past == InRun => \A i \in DOMAIN definitions : i < idx => Judged(i)

Ahead == InRun => \A i \in DOMAIN definitions : i >= idx => <<i, "conflict">> \notin errors

\* The conflicts of an installed package, as far as they were looked at.
Current ==
    /\ wpc = "name" => todo = {} /\ inConflict = {}
    /\ wpc = "conflicts" =>
        /\ Asked(Definition.name) /\ memory[Definition.name].answer
        /\ todo \subseteq Definition.conflicts
        /\ inConflict \subseteq Definition.conflicts \ todo
        /\ \A c \in Definition.conflicts \ todo :
                Asked(c) /\ (c \in inConflict <=> memory[c].answer)

Honest == InventsNothing /\ installed \subseteq ever

IInv == Typed /\ Past /\ Ahead /\ Current /\ Honest

-----------------------------------------------------------------------------
(* Questions *)

LEMMA EachDefinition ==
    ASSUME definitions \in Configurations
    PROVE  /\ definitions \in Seq([name : Names, conflicts : SUBSET Names,
                                   misspelled : BOOLEAN, installation : STRING,
                                   priority : Int])
           /\ DOMAIN definitions = 1..Len(definitions) /\ Len(definitions) \in Nat
           /\ \A i \in DOMAIN definitions :
                definitions[i].name \in Names /\ definitions[i].conflicts \subseteq Names
<1> DEFINE D == [name : Names, conflicts : SUBSET Names, misspelled : BOOLEAN,
                 installation : STRING, priority : Int]
<1>1. definitions \in Seq(D)
    BY PackagesAssumption
<1>2. \A i \in 1..Len(definitions) : definitions[i] \in D
    <2> HIDE DEF D
    <2> QED BY <1>1
<1> QED BY <1>1, <1>2

\* What a question does to the answers.
LEMMA AskFacts ==
    ASSUME IInv, NEW name \in Names, NEW answer \in BOOLEAN, Ask(name, answer)
    PROVE  /\ memory' \in [Names -> Statuses] /\ loaded' = TRUE
           /\ memory'[name] # Unknown /\ memory'[name].answer = answer
           /\ \A n \in Names : Asked(n) => memory'[n] = memory[n]
           /\ \A n \in Names : memory'[n].answer => n \in ever
<1>1. Loaded \in [Names -> Statuses]
    BY DEF Loaded, IInv, Typed
<1>2. \A n \in Names : (Loaded[n].answer => n \in ever) /\ (Asked(n) => Loaded[n] = memory[n])
    BY DEF Loaded, IInv, Honest, InventsNothing, Asked
<1>3. Answer(answer) \in Statuses /\ Answer(answer) # Unknown /\ Answer(answer).answer = answer
    BY DEF Answer, Statuses, Unknown
<1>4. answer => name \in ever
    BY <1>2 DEF Ask, IInv, Honest
<1>5. CASE Loaded[name] # Unknown
    BY <1>1, <1>2, <1>5 DEF Ask
<1>6. CASE Loaded[name] = Unknown
    <2>1. memory' = [Loaded EXCEPT ![name] = Answer(answer)] /\ loaded' = TRUE
        BY <1>6 DEF Ask
    <2>2. memory' \in [Names -> Statuses]
        BY <2>1, <1>1, <1>3
    <2>3. memory'[name] = Answer(answer)
        BY <2>1, <1>1
    <2>4. \A n \in Names \ {name} : memory'[n] = Loaded[n]
        BY <2>1, <1>1
    <2>5. ~Asked(name)
        BY <1>2, <1>6 DEF Asked
    <2> QED BY <2>1, <2>2, <2>3, <2>4, <2>5, <1>2, <1>3, <1>4
<1> QED BY <1>5, <1>6

\* Later questions do not change what was made of a definition.
LEMMA JudgedKept ==
    ASSUME IInv, NEW i \in DOMAIN definitions, Judged(i), definitions' = definitions,
           (<<i, "conflict">> \in errors') = (<<i, "conflict">> \in errors),
           loaded => loaded',
           \A n \in Names : Asked(n) => memory'[n] = memory[n]
    PROVE  Judged(i)'
<1>1. definitions[i].name \in Names
    BY EachDefinition DEF IInv, Typed
<1>2. \A n \in Names : Asked(n) => Asked(n)'
    BY DEF Asked
<1> QED BY <1>1, <1>2 DEF Judged, Installation

-----------------------------------------------------------------------------
LEMMA InitInvariant == Init => IInv
<1> SUFFICES ASSUME Init PROVE IInv
    OBVIOUS
<1>1. Nothing \in [Names -> Statuses] /\ \A n \in Names : ~Nothing[n].answer
    BY DEF Nothing, Statuses, Unknown
<1> QED BY <1>1 DEF Init, IInv, Typed, Past, Ahead, Current, Honest, InventsNothing, InRun

LEMMA LoadPackagesKeeps == IInv /\ LoadPackages => IInv'
<1> SUFFICES ASSUME IInv, LoadPackages PROVE IInv'
    OBVIOUS
<1> USE DEF IInv
<1>1. DOMAIN definitions = 1..Len(definitions) /\ Len(definitions) \in Nat
    BY EachDefinition DEF Typed
<1>2. wpc' \in {"down", "save", "name"}
      /\ (wpc' = "save" => definitions = <<>>) /\ (wpc' = "name" => definitions # <<>>)
    BY DEF LoadPackages
<1>3. definitions # <<>> => 1 \in DOMAIN definitions
    BY <1>1, EachDefinition DEF Typed
<1>4. Typed'
    BY <1>1, <1>2, <1>3 DEF LoadPackages, Typed, InRun
<1>5. Past' /\ Ahead' /\ Current'
    BY <1>1, <1>2 DEF LoadPackages, Past, Ahead, Current
<1>6. Honest'
    BY DEF LoadPackages, Honest, InventsNothing
<1> QED BY <1>4, <1>5, <1>6

-----------------------------------------------------------------------------
(* The definitions, one after the other *)

\* What a step that keeps the answers must show to go on to the next definition.
LEMMA ContinueKeeps ==
    ASSUME IInv, Continue, wpc \in {"name", "conflicts"}, definitions' = definitions,
           file' = file, loaded' \in BOOLEAN, loaded => loaded',
           memory' \in [Names -> Statuses],
           \A n \in Names : Asked(n) => memory'[n] = memory[n],
           \A i \in DOMAIN definitions : i # idx =>
                (<<i, "conflict">> \in errors') = (<<i, "conflict">> \in errors),
           \A i \in DOMAIN definitions : i = idx => Judged(i)'
    PROVE  Typed' /\ Past' /\ Ahead' /\ Current'
<1> USE DEF IInv
<1>1. /\ DOMAIN definitions = 1..Len(definitions) /\ Len(definitions) \in Nat
      /\ idx \in 1..Len(definitions) /\ InRun
    BY EachDefinition DEF Typed, InRun
<1>2. /\ idx' = idx + 1 /\ todo' = {} /\ inConflict' = {}
      /\ wpc' = IF idx < Len(definitions) THEN "name" ELSE "save"
    BY DEF Continue
<1>3. Typed'
    BY <1>1, <1>2 DEF Typed, InRun
<1>4. Past'
    <2> SUFFICES ASSUME NEW i \in DOMAIN definitions, i < idx + 1 PROVE Judged(i)'
        BY <1>2 DEF Past
    <2>1. CASE i = idx
        BY <2>1
    <2>2. CASE i # idx
        <3>1. Judged(i)
            BY <2>2, <1>1 DEF Past
        <3>2. (<<i, "conflict">> \in errors)' = (<<i, "conflict">> \in errors)
            BY <2>2
        <3> QED BY <3>1, <3>2, JudgedKept
    <2> QED BY <2>1, <2>2
<1>5. Ahead'
    BY <1>1, <1>2 DEF Ahead
<1>6. Current'
    BY <1>2 DEF Current
<1> QED BY <1>3, <1>4, <1>5, <1>6

\* After append_error() has thrown, the run is over.
LEMMA DownKeeps ==
    ASSUME IInv, wpc' = "down", definitions' = definitions, file' \in [Names -> Statuses],
           loaded' \in BOOLEAN, memory' \in [Names -> Statuses]
    PROVE  Typed' /\ Past' /\ Ahead' /\ Current'
BY DEF IInv, Typed, Past, Ahead, Current, InRun

LEMMA CheckNameKeeps == IInv /\ CheckName => IInv'
<1> SUFFICES ASSUME IInv, CheckName PROVE IInv'
    OBVIOUS
<1> USE DEF IInv
<1> DEFINE name == Definition.name
           kind == Installation(Definition)
<1>1. PICK isInstalled \in BOOLEAN :
        /\ Ask(name, isInstalled)
        /\ \/ kind = "required" /\ ~isInstalled /\ Report("required")
           \/ kind = "unwanted" /\ isInstalled /\ Report("unwanted")
           \/ kind # "required" /\ ~isInstalled /\ Continue /\ UNCHANGED errors
           \/ /\ kind # "unwanted" /\ isInstalled
              /\ IF Definition.conflicts = {} THEN Continue
                 ELSE /\ wpc' = "conflicts" /\ todo' = Definition.conflicts
                      /\ UNCHANGED <<idx, inConflict>>
              /\ UNCHANGED errors
    BY DEF CheckName
<1>2. /\ wpc = "name" /\ idx \in DOMAIN definitions /\ InRun /\ name \in Names
      /\ Definition.conflicts \subseteq Names
      /\ idx \in Nat
      /\ UNCHANGED <<definitions, installed, file, ever>>
    BY EachDefinition DEF CheckName, Typed, InRun, Definition
<1>3. /\ memory' \in [Names -> Statuses] /\ loaded' = TRUE
      /\ memory'[name] # Unknown /\ memory'[name].answer = isInstalled
      /\ \A n \in Names : Asked(n) => memory'[n] = memory[n]
      /\ \A n \in Names : memory'[n].answer => n \in ever
    BY <1>1, <1>2, AskFacts
<1>4. Honest'
    BY <1>2, <1>3 DEF Honest, InventsNothing
<1>5. \A i \in DOMAIN definitions :
        (<<i, "conflict">> \in errors') = (<<i, "conflict">> \in errors)
    BY <1>1 DEF Report
<1>6. <<idx, "conflict">> \notin errors'
    BY <1>2, <1>5 DEF Ahead
<1>7. CASE wpc' = "down"
    BY <1>2, <1>3, <1>4, <1>7, DownKeeps DEF Typed
<1>8. CASE Continue /\ (kind # "optional" \/ ~isInstalled \/ Definition.conflicts = {})
    <2>1. \A i \in DOMAIN definitions : i = idx => Judged(i)'
        BY <1>2, <1>3, <1>6, <1>8 DEF Judged, Asked, Definition, Installation
    <2> QED BY <2>1, <1>2, <1>3, <1>4, <1>5, <1>8, ContinueKeeps
<1>9. CASE /\ wpc' = "conflicts" /\ todo' = Definition.conflicts /\ isInstalled
           /\ UNCHANGED <<idx, inConflict, errors>>
    <2>1. Typed'
        BY <1>2, <1>3, <1>9 DEF Typed, InRun
    <2>2. Past'
        <3> SUFFICES ASSUME NEW i \in DOMAIN definitions, i < idx PROVE Judged(i)'
            BY <1>2, <1>9 DEF Past
        <3>1. Judged(i)
            BY <1>2 DEF Past
        <3> QED BY <3>1, <1>2, <1>3, <1>5, JudgedKept
    <2>3. Ahead'
        BY <1>2, <1>9 DEF Ahead
    <2>4. Current'
        BY <1>2, <1>3, <1>9 DEF Current, Asked, Definition
    <2> QED BY <2>1, <2>2, <2>3, <2>4, <1>4
<1> QED BY <1>1, <1>7, <1>8, <1>9 DEF Report

LEMMA CheckConflictKeeps == IInv /\ CheckConflict => IInv'
<1> SUFFICES ASSUME IInv, CheckConflict PROVE IInv'
    OBVIOUS
<1> USE DEF IInv
<1>1. PICK name \in todo, isInstalled \in BOOLEAN :
        /\ Ask(name, isInstalled)
        /\ inConflict' = IF isInstalled THEN inConflict \cup {name} ELSE inConflict
        /\ todo' = todo \ {name}
    BY DEF CheckConflict
<1>2. /\ wpc = "conflicts" /\ idx \in DOMAIN definitions /\ InRun
      /\ Definition.name \in Names /\ Definition.conflicts \subseteq Names
      /\ todo \subseteq Definition.conflicts
      /\ UNCHANGED <<definitions, installed, file, wpc, idx, errors, ever>>
    BY EachDefinition DEF CheckConflict, Typed, InRun, Definition, Current
<1>3. /\ memory' \in [Names -> Statuses] /\ loaded' = TRUE
      /\ memory'[name] # Unknown /\ memory'[name].answer = isInstalled
      /\ \A n \in Names : Asked(n) => memory'[n] = memory[n]
      /\ \A n \in Names : memory'[n].answer => n \in ever
    BY <1>1, <1>2, AskFacts
<1>4. Honest'
    BY <1>2, <1>3 DEF Honest, InventsNothing
<1>5. Typed'
    BY <1>2, <1>3 DEF Typed, InRun
<1>6. Past'
    <2> SUFFICES ASSUME NEW i \in DOMAIN definitions, i < idx PROVE Judged(i)'
        BY <1>2 DEF Past
    <2>1. Judged(i)
        BY <1>2 DEF Past
    <2> QED BY <2>1, <1>2, <1>3, JudgedKept
<1>7. Ahead'
    BY <1>2 DEF Ahead, InRun
<1>8. Current'
    <2>1. Definition' = Definition
        BY <1>2 DEF Definition
    <2>2. \A n \in Names : Asked(n) => Asked(n)'
        BY <1>3 DEF Asked
    <2>3. Asked(Definition.name)' /\ memory'[Definition.name].answer
        BY <1>2, <1>3, <2>1 DEF Current, Asked
    <2>4. name \notin inConflict /\ Asked(name)' /\ name \in Names
        BY <1>1, <1>2, <1>3 DEF Current, Asked
    <2>5. /\ todo' \subseteq Definition.conflicts
          /\ inConflict' \subseteq Definition.conflicts \ todo'
        BY <1>1, <1>2 DEF Current
    <2>6. ASSUME NEW c \in Definition.conflicts \ todo'
          PROVE  Asked(c)' /\ (c \in inConflict' <=> memory'[c].answer)
        <3>1. CASE c = name
            BY <3>1, <2>4, <1>1, <1>3
        <3>2. CASE c # name
            <4>1. Asked(c) /\ (c \in inConflict <=> memory[c].answer) /\ c \in Names
                BY <3>2, <1>1, <1>2 DEF Current
            <4> QED BY <4>1, <3>2, <2>2, <1>1, <1>3
        <3> QED BY <3>1, <3>2
    <2> QED BY <2>1, <2>3, <2>5, <2>6, <1>2 DEF Current
<1> QED BY <1>4, <1>5, <1>6, <1>7, <1>8

LEMMA EndConflictsKeeps == IInv /\ EndConflicts => IInv'
<1> SUFFICES ASSUME IInv, EndConflicts PROVE IInv'
    OBVIOUS
<1> USE DEF IInv
<1>1. /\ wpc = "conflicts" /\ todo = {} /\ idx \in DOMAIN definitions /\ InRun
      /\ UNCHANGED <<definitions, installed, memory, loaded, file, ever>>
      /\ Definition.name \in Names /\ Definition.conflicts \subseteq Names /\ idx \in Nat
    BY EachDefinition DEF EndConflicts, Typed, InRun, Definition
<1>2. Honest'
    BY <1>1 DEF Honest, InventsNothing
<1>3. errors' = IF inConflict # {} THEN errors \cup {<<idx, "conflict">>} ELSE errors
    BY DEF EndConflicts, Report
<1>4. Continue \/ wpc' = "down"
    BY DEF EndConflicts, Report
<1>5. CASE wpc' = "down"
    BY <1>1, <1>2, <1>5, DownKeeps DEF Typed
<1>6. CASE Continue
    <2>1. <<idx, "conflict">> \in errors' <=> inConflict # {}
        BY <1>1, <1>3 DEF Ahead
    <2>2. ASSUME NEW c \in Names, Definition.conflicts = {c}
          PROVE  Asked(c) /\ (inConflict # {} <=> memory[c].answer)
        BY <2>2, <1>1 DEF Current
    <2>3. Asked(Definition.name) /\ memory[Definition.name].answer
        BY <1>1 DEF Current
    <2>4. \A i \in DOMAIN definitions : i = idx => Judged(i)'
        BY <2>1, <2>2, <2>3, <1>1 DEF Judged, Asked, Definition, Installation
    <2>5. \A i \in DOMAIN definitions : i # idx =>
            (<<i, "conflict">> \in errors') = (<<i, "conflict">> \in errors)
        BY <1>3
    <2> QED BY <2>4, <2>5, <1>1, <1>2, <1>6, ContinueKeeps DEF Typed
<1> QED BY <1>4, <1>5, <1>6

-----------------------------------------------------------------------------
(* The file, and what happens around the run *)

LEMMA SaveKeeps == IInv /\ (SaveCache \/ SaveCut) => IInv'
<1> SUFFICES ASSUME IInv, SaveCache \/ SaveCut PROVE IInv'
    OBVIOUS
<1> USE DEF IInv
<1>1. /\ UNCHANGED <<definitions, installed, memory, loaded, ever>>
      /\ wpc' \in {"idle", "down"}
    BY DEF SaveCache, SaveCut
<1>2. ASSUME NEW lines, \A n \in Names : lines[n] = "t" => Lines[n] = "t"
      PROVE  /\ FileOf(lines) \in [Names -> Statuses]
             /\ \A n \in Names : FileOf(lines)[n].answer => n \in ever
    <2>1. \A n \in Names : Lines[n] = "t" => n \in ever
        BY DEF Lines, Honest, InventsNothing
    <2>2. Unknown \in Statuses /\ ~Unknown.answer
        BY DEF Unknown, Statuses
    <2>3. ASSUME NEW n \in Names
          PROVE  /\ FileOf(lines)[n] \in Statuses
                 /\ FileOf(lines)[n].answer => n \in ever
        <3>1. FileOf(lines)[n] = IF lines[n] = "none" THEN Unknown
                                 ELSE Answer(ReadLine(lines[n]))
            BY DEF FileOf
        <3>2. CASE lines[n] = "none"
            BY <3>1, <3>2, <2>2
        <3>3. CASE lines[n] # "none"
            <4>1. PICK isInstalled \in BOOLEAN : isInstalled = ReadLine(lines[n])
                BY DEF ReadLine
            <4>2. isInstalled => n \in ever
                BY <4>1, <2>1, <1>2 DEF ReadLine
            <4>3. Answer(isInstalled) \in Statuses /\ Answer(isInstalled).answer = isInstalled
                BY DEF Answer, Statuses
            <4>4. FileOf(lines)[n] = Answer(isInstalled)
                BY <3>1, <3>3, <4>1, Zenon
            <4> QED BY <4>2, <4>3, <4>4
        <3> QED BY <3>2, <3>3
    <2>4. FileOf(lines) = [n \in Names |-> FileOf(lines)[n]]
        BY DEF FileOf
    <2> QED BY <2>3, <2>4
<1>3. file' \in [Names -> Statuses] /\ \A n \in Names : file'[n].answer => n \in ever
    <2>1. CASE file' = file
        BY <2>1 DEF Typed, Honest, InventsNothing
    <2>2. CASE file' = FileOf(Lines)
        BY <2>2, <1>2
    <2>3. ASSUME NEW last \in Names, NEW rest \in {"none", ""},
                 file' = FileOf([n \in Names |-> IF n < last THEN Lines[n]
                                              ELSE IF n = last THEN rest ELSE "none"])
          PROVE  file' \in [Names -> Statuses] /\ \A n \in Names : file'[n].answer => n \in ever
        <3> DEFINE lines == [n \in Names |-> IF n < last THEN Lines[n]
                                            ELSE IF n = last THEN rest ELSE "none"]
        <3>1. \A n \in Names : lines[n] = "t" => Lines[n] = "t"
            OBVIOUS
        <3> HIDE DEF lines
        <3>2. /\ FileOf(lines) \in [Names -> Statuses]
              /\ \A n \in Names : FileOf(lines)[n].answer => n \in ever
            BY <3>1, <1>2
        <3> QED BY <3>2, <2>3 DEF lines
    <2> QED BY <2>1, <2>2, <2>3 DEF SaveCache, SaveCut
<1>4. Typed' /\ Past' /\ Ahead' /\ Current'
    BY <1>1, <1>3 DEF Typed, Past, Ahead, Current, InRun
<1>5. Honest'
    BY <1>1, <1>3 DEF Honest, InventsNothing
<1> QED BY <1>4, <1>5

LEMMA OutsideKeeps ==
    IInv /\ ((\E name \in Names : ChangePackage(name)) \/ Cron \/ Crash \/ Restart
             \/ UNCHANGED vars) => IInv'
<1> SUFFICES ASSUME IInv,
                    (\E name \in Names : ChangePackage(name)) \/ Cron \/ Crash \/ Restart
                    \/ UNCHANGED vars
             PROVE  IInv'
    OBVIOUS
<1> USE DEF IInv
<1>1. Nothing \in [Names -> Statuses] /\ \A n \in Names : ~Nothing[n].answer
    BY DEF Nothing, Statuses, Unknown
<1>2. CASE \E name \in Names : ChangePackage(name)
    <2>1. /\ UNCHANGED <<definitions, memory, loaded, modified, file>> /\ UNCHANGED run
          /\ ever' = ever \cup installed'
        BY <1>2 DEF ChangePackage
    <2>2. Typed' /\ Past' /\ Ahead' /\ Current'
        BY <2>1 DEF run, Typed, Past, Ahead, Current, InRun, Judged, Asked, Definition,
           Installation
    <2>3. Honest'
        BY <2>1 DEF Honest, InventsNothing
    <2> QED BY <2>2, <2>3
<1>3. CASE Cron
    BY <1>1, <1>3 DEF Cron, run, Typed, Past, Ahead, Current, Honest, InventsNothing,
       InRun, Judged, Asked, Definition, Installation
<1>4. CASE Crash
    BY <1>4 DEF Crash, Typed, Past, Ahead, Current, Honest, InventsNothing, InRun
<1>5. CASE Restart
    BY <1>1, <1>5 DEF Restart, Typed, Past, Ahead, Current, Honest, InventsNothing, InRun
<1>6. CASE UNCHANGED vars
    BY <1>6 DEF vars, Typed, Past, Ahead, Current, Honest, InventsNothing,
       InRun, Judged, Asked, Definition, Installation
<1> QED BY <1>2, <1>3, <1>4, <1>5, <1>6

-----------------------------------------------------------------------------
(* The theorems *)

LEMMA InvariantHolds == Spec => []IInv
<1>1. IInv /\ [Next]_vars => IInv'
    BY LoadPackagesKeeps, CheckNameKeeps, CheckConflictKeeps, EndConflictsKeeps, SaveKeeps,
       OutsideKeeps DEF Next
<1> QED BY <1>1, InitInvariant, PTL DEF Spec

\* However packages come and go during a run, two definitions in conflict with each
\* other are judged on the same answers (is_package_installed() and is_in_conflict()).
THEOREM RunsSeeOneState == Spec => []ConflictsAgree
<1>1. IInv => ConflictsAgree
    <2> SUFFICES ASSUME IInv, wpc = "save",
                        NEW i \in DOMAIN definitions, NEW j \in DOMAIN definitions,
                        Installation(definitions[i]) = "optional",
                        Installation(definitions[j]) = "optional",
                        definitions[i].conflicts = {definitions[j].name},
                        definitions[j].conflicts = {definitions[i].name}
                 PROVE  <<i, "conflict">> \in errors <=> <<j, "conflict">> \in errors
        BY DEF ConflictsAgree
    <2>1. definitions[i].name \in Names /\ definitions[j].name \in Names
        BY EachDefinition DEF IInv, Typed
    <2>2. i < idx /\ j < idx
        BY EachDefinition DEF IInv, Typed, InRun
    <2>3. Judged(i) /\ Judged(j)
        BY <2>2 DEF IInv, Past, InRun
    <2> QED BY <2>1, <2>3 DEF Judged
<1> QED BY <1>1, InvariantHolds, PTL

\* Whatever is left of the file after a crash or the cron job, an answer "installed"
\* was once true (ReadLine() of a line cut short, save_cache()).
THEOREM NothingInvented == Spec => []InventsNothing
<1>1. IInv => InventsNothing
    BY DEF IInv, Honest
<1> QED BY <1>1, InvariantHolds, PTL

=============================================================================
