---------------------------- MODULE ProcessesProofs ----------------------------
(***************************************************************************)
(* Proofs about Processes, for any definition files, processes and         *)
(* services.                                                               *)
(*                                                                         *)
(* What was reported missing is about the whole run: the files that were   *)
(* loaded into one entry, the processes that were taken for others, and    *)
(* the configuration that was read for the first backend.  The invariant   *)
(* follows the entries that are left in the list, which stay in the order  *)
(* of the first files with their names.                                    *)
(***************************************************************************)
EXTENDS Processes, TLAPS

\* The definitions as they are loaded.
Entries == [name : STRING, mandatory : BOOLEAN, duplicates : BOOLEAN, command : STRING,
            match : SUBSET STRING, service : Services \cup {NoService}, backend : BOOLEAN,
            isEnabled : BOOLEAN, isActive : BOOLEAN]

\* The files that are loaded.
Done == {i \in DOMAIN files : wpc = "load" => i < idx}

Typed ==
    /\ files \in Configurations
    /\ list \in Seq(Entries)
    /\ wpc \in {"idle", "load", "list", "missing", "down"}
    /\ wpc = "load" => idx \in Nat \ {0}
    /\ confSeen = <<>> \/ \E c \in Confs : confSeen = <<c>>
    /\ conf \in Confs
    /\ todo \subseteq snapshot
    /\ wpc \in {"load", "down"} => taken = {} /\ errors = {} /\ snapshot = {}
    /\ wpc = "missing" => idx \in Nat \ {0} /\ (list = <<>> \/ todo = {})

\* An entry is what the first file with its name says, and which of the files it is
\* about grows along the list.
Place(k) == DefinitionOf(list[k].name)

FromFiles ==
    /\ \A k \in DOMAIN list :
        /\ Place(k) \in Done
        /\ LET d == files[Place(k)]
           IN  /\ d.name = list[k].name
               /\ d.command = list[k].command /\ d.match = list[k].match
               /\ d.service = list[k].service
               /\ list[k].backend <=> d.service # NoService /\ d.backend
    /\ \A k, l \in DOMAIN list : k < l => Place(k) < Place(l)

\* While the files are loaded each name is in the list, once.
Complete ==
    wpc = "load" => \A i \in Done : \E k \in DOMAIN list : list[k].name = files[i].name

\* An entry is mandatory if a file says so.
Mandatory ==
    wpc # "down" =>
        \A i \in Done : \A k \in DOMAIN list :
            list[k].name = files[i].name /\ files[i].mandatory => list[k].mandatory

\* Of what is left in the list, each process already seen that matches it was taken
\* for an earlier entry; what was taken is in neither list any more.
Taken ==
    /\ EachTakenOnce
    /\ \A t \in taken :
        /\ t = <<t[1], t[2]>> /\ t[2] \in snapshot \ todo
        /\ \A k \in DOMAIN list : list[k].name # t[1]
    /\ \A k \in DOMAIN list : \A p \in snapshot \ todo :
        Match(list[k], p) => \E t \in taken : t[2] = p /\ DefinitionOf(t[1]) < Place(k)

\* What the configuration that was read says of a backend.
Listed(service) ==
    confSeen # <<>> /\ ~confSeen[1].disabled /\ service \in confSeen[1].backends
Unlisted(service) ==
    confSeen # <<>> /\ (confSeen[1].disabled \/ service \notin confSeen[1].backends)

\* An error is about an entry that is still in the list, or about a backend that runs.
Reported ==
    \A e \in errors :
        /\ e[2] # 35 =>
            /\ wpc \in {"missing", "idle"} /\ todo = {}
            /\ \E k \in DOMAIN list :
                /\ list[k].name = e[1]
                /\ e[2] = 60 => ~list[k].mandatory
                /\ list[k].backend => Listed(list[k].service)
        /\ e[2] = 35 =>
            /\ files[DefinitionOf(e[1])].service # NoService
            /\ Unlisted(files[DefinitionOf(e[1])].service)

IInv == Typed /\ FromFiles /\ Complete /\ Mandatory /\ Taken /\ Reported

-----------------------------------------------------------------------------
(* The files and the list *)

LEMMA EachFile ==
    ASSUME files \in Configurations
    PROVE  /\ DOMAIN files = 1..Len(files) /\ Len(files) \in Nat
           /\ \A i \in DOMAIN files : files[i] \in Definitions
<1>1. files \in Seq(Definitions)
    BY ConfigurationsAssumption
<1> QED BY <1>1

LEMMA FirstFile ==
    ASSUME files \in Configurations, NEW i \in DOMAIN files,
           \A j \in 1..(i - 1) : files[j].name # files[i].name
    PROVE  DefinitionOf(files[i].name) = i
<1> DEFINE First(j) == files[j].name = files[i].name
                       /\ \A l \in 1..(j - 1) : files[l].name # files[i].name
<1>1. \A j \in DOMAIN files : First(j) => j = i
    BY EachFile
<1> QED BY <1>1 DEF DefinitionOf

LEMMA SameFiles ==
    ASSUME files' = files
    PROVE  \A name : DefinitionOf(name)' = DefinitionOf(name)
BY DEF DefinitionOf

LEMMA EachEntry ==
    ASSUME list \in Seq(Entries)
    PROVE  /\ DOMAIN list = 1..Len(list) /\ Len(list) \in Nat
           /\ \A k \in DOMAIN list : list[k] \in Entries
OBVIOUS

LEMMA RemoveAtFacts ==
    ASSUME NEW S, NEW s \in Seq(S), NEW i \in DOMAIN s
    PROVE  /\ RemoveAt(s, i) \in Seq(S)
           /\ Len(RemoveAt(s, i)) = Len(s) - 1
           /\ \A k \in 1..(Len(s) - 1) :
                RemoveAt(s, i)[k] = IF k < i THEN s[k] ELSE s[k + 1]
<1> DEFINE before == SubSeq(s, 1, i - 1)
           after == SubSeq(s, i + 1, Len(s))
<1>1. i \in 1..Len(s) /\ Len(s) \in Nat
    OBVIOUS
<1>2. before \in Seq(S) /\ Len(before) = i - 1 /\ \A k \in 1..(i - 1) : before[k] = s[k]
    BY <1>1
<1>3. /\ after \in Seq(S) /\ Len(after) = Len(s) - i
      /\ \A k \in 1..(Len(s) - i) : after[k] = s[i + k]
    BY <1>1
<1>4. RemoveAt(s, i) = before \o after
    BY DEF RemoveAt
<1> HIDE DEF before, after
<1>5. /\ before \o after \in Seq(S) /\ Len(before \o after) = Len(s) - 1
      /\ \A k \in 1..(Len(s) - 1) :
            (before \o after)[k] = IF k < i THEN before[k] ELSE after[k - (i - 1)]
    BY <1>1, <1>2, <1>3
<1>6. ASSUME NEW k \in 1..(Len(s) - 1)
      PROVE  (before \o after)[k] = IF k < i THEN s[k] ELSE s[k + 1]
    <2>1. CASE k < i
        BY <2>1, <1>1, <1>2, <1>5
    <2>2. CASE ~(k < i)
        <3>1. k - (i - 1) \in 1..(Len(s) - i) /\ i + (k - (i - 1)) = k + 1
            BY <2>2, <1>1
        <3>2. (before \o after)[k] = after[k - (i - 1)]
            BY <2>2, <1>5
        <3> QED BY <2>2, <3>1, <3>2, <1>3
    <2> QED BY <2>1, <2>2
<1> QED BY <1>4, <1>5, <1>6

\* The names of a list are distinct.
LEMMA OnePlace ==
    ASSUME Typed, FromFiles, NEW k \in DOMAIN list, NEW l \in DOMAIN list,
           list[k].name = list[l].name
    PROVE  k = l
BY EachFile, EachEntry DEF Typed, FromFiles, Place, Done

\* A definition with what systemctl says of its service.
LEMMA WithServiceFacts ==
    ASSUME NEW d \in Definitions
    PROVE  /\ WithService(d) \in Entries
           /\ WithService(d).name = d.name /\ WithService(d).mandatory = d.mandatory
           /\ WithService(d).command = d.command /\ WithService(d).match = d.match
           /\ WithService(d).service = d.service
           /\ WithService(d).backend <=> d.service # NoService /\ d.backend
BY DEF WithService, Definitions, Entries, NoService, IsServiceEnabled, IsServiceActive

-----------------------------------------------------------------------------
(* The steps *)

LEMMA InitInvariant == Init => IInv
<1> SUFFICES ASSUME Init PROVE IInv
    OBVIOUS
<1>1. list = <<>> /\ DOMAIN list = {}
    BY DEF Init
<1> QED BY <1>1 DEF Init, IInv, Typed, FromFiles, Complete, Mandatory, Taken, EachTakenOnce,
            Reported

LEMMA BeginLoadKeeps == IInv /\ BeginLoad => IInv'
<1> SUFFICES ASSUME IInv, BeginLoad PROVE IInv'
    OBVIOUS
<1>1. list' = <<>> /\ DOMAIN list' = {} /\ Done' = {}
    BY EachFile DEF BeginLoad, Done, IInv, Typed, fixed
<1> QED BY <1>1 DEF BeginLoad, IInv, Typed, FromFiles, Complete, Mandatory, Taken,
            EachTakenOnce, Reported, environment, fixed

\* A file with a new name becomes the last entry.
LEMMA NewEntryKeeps ==
    ASSUME IInv, wpc = "load", idx <= Len(files), UNCHANGED <<environment, fixed>>,
           Duplicates(files[idx]) = {}, list' = Append(list, WithService(files[idx])),
           wpc' \in {"load", "down"}, wpc' = "load" \/ ~files[idx].valid,
           idx' = idx + 1, UNCHANGED <<confSeen, snapshot, todo, taken, errors>>
    PROVE  IInv'
<1> USE DEF IInv
<1> DEFINE d == files[idx]
<1>1. files' = files /\ idx \in DOMAIN files /\ d \in Definitions /\ idx \in Nat \ {0}
    BY EachFile DEF Typed, fixed
<1>2. Done = 1..(idx - 1) /\ Done \cup {idx} \subseteq Done' /\ Done' \subseteq DOMAIN files
    BY <1>1, EachFile DEF Done, Typed, fixed
<1>3. DefinitionOf(d.name) = idx
    <2>1. \A i \in 1..(idx - 1) : files[i].name # d.name
        BY <1>2 DEF Complete, Duplicates
    <2> QED BY <1>1, <2>1, FirstFile DEF Typed
<1>4. /\ list' \in Seq(Entries) /\ DOMAIN list' = DOMAIN list \cup {Len(list) + 1}
      /\ \A k \in DOMAIN list : list'[k] = list[k] /\ k < Len(list) + 1
      /\ list'[Len(list) + 1] = WithService(d)
    BY <1>1, WithServiceFacts, EachEntry DEF Typed
<1>5. Typed'
    BY <1>1, <1>4 DEF Typed, environment
<1>6. /\ \A k \in DOMAIN list : Place(k)' = Place(k)
      /\ \A k : k = Len(list) + 1 => Place(k)' = idx
    <2>1. WithService(d).name = d.name
        BY <1>1, WithServiceFacts
    <2>2. \A k : Place(k)' = DefinitionOf(list'[k].name)
        BY <1>1, SameFiles DEF Place
    <2>3. \A k \in DOMAIN list : Place(k)' = Place(k)
        BY <2>2, <1>4 DEF Place
    <2>4. \A k : k = Len(list) + 1 => Place(k)' = idx
        BY <2>1, <2>2, <1>3, <1>4
    <2> QED BY <2>3, <2>4
<1>7. FromFiles'
    <2>1. \A k \in DOMAIN list : Place(k) < idx
        BY <1>2, <1>1 DEF FromFiles
    <2>2. ASSUME NEW k \in DOMAIN list'
          PROVE  /\ Place(k)' \in Done'
                 /\ files[Place(k)'].name = list'[k].name
                 /\ files[Place(k)'].command = list'[k].command
                 /\ files[Place(k)'].match = list'[k].match
                 /\ files[Place(k)'].service = list'[k].service
                 /\ list'[k].backend <=> files[Place(k)'].service # NoService
                                         /\ files[Place(k)'].backend
        <3>1. CASE k \in DOMAIN list
            BY <3>1, <1>2, <1>4, <1>6 DEF FromFiles
        <3>2. CASE k = Len(list) + 1
            BY <3>2, <1>1, <1>2, <1>4, <1>6, WithServiceFacts
        <3> QED BY <3>1, <3>2, <1>4
    <2>3. ASSUME NEW k \in DOMAIN list', NEW l \in DOMAIN list', k < l
          PROVE  Place(k)' < Place(l)'
        BY <2>1, <2>3, <1>4, <1>6, EachEntry DEF FromFiles, Typed
    <2> QED BY <2>2, <2>3, <1>1 DEF FromFiles
<1>8. Complete'
    <2> SUFFICES ASSUME wpc' = "load", NEW i \in Done'
                 PROVE  \E k \in DOMAIN list' : list'[k].name = files[i].name
        BY <1>1 DEF Complete
    <2>1. i \in Done \cup {idx}
        BY <1>1, <1>2, EachFile DEF Done, Typed
    <2>2. CASE i \in Done
        BY <2>2, <1>4 DEF Complete
    <2>3. CASE i = idx
        BY <2>3, <1>1, <1>4, WithServiceFacts
    <2> QED BY <2>1, <2>2, <2>3
<1>9. Mandatory'
    <2> SUFFICES ASSUME wpc' = "load", NEW i \in Done', NEW k \in DOMAIN list',
                        list'[k].name = files[i].name, files[i].mandatory
                 PROVE  list'[k].mandatory
        BY <1>1 DEF Mandatory
    <2>1. i \in Done \cup {idx}
        BY <1>1, <1>2, EachFile DEF Done, Typed
    <2>2. CASE i \in Done /\ k \in DOMAIN list
        BY <2>2, <1>4 DEF Mandatory
    <2>3. CASE i \in Done /\ k = Len(list) + 1
        BY <2>3, <1>1, <1>4, WithServiceFacts DEF Complete, Duplicates
    <2>4. CASE i = idx /\ k \in DOMAIN list
        BY <2>4, <1>4 DEF Duplicates
    <2>5. CASE i = idx /\ k = Len(list) + 1
        BY <2>5, <1>1, <1>4, WithServiceFacts
    <2> QED BY <2>1, <2>2, <2>3, <2>4, <2>5, <1>4
<1>10. Taken' /\ Reported'
    BY DEF Typed, Taken, Reported, EachTakenOnce
<1> QED BY <1>5, <1>7, <1>8, <1>9, <1>10

\* A file with a name that is in the list only says whether its entry is mandatory.
LEMMA SecondFileKeeps ==
    ASSUME IInv, wpc = "load", idx <= Len(files), UNCHANGED <<environment, fixed>>,
           NEW i \in Duplicates(files[idx]),
           list' = [list EXCEPT ![i].mandatory = @ \/ files[idx].mandatory],
           idx' = idx + 1, UNCHANGED <<confSeen, wpc, snapshot, todo, taken, errors>>
    PROVE  IInv'
<1> USE DEF IInv
<1> DEFINE d == files[idx]
<1>1. files' = files /\ idx \in DOMAIN files /\ d \in Definitions /\ idx \in Nat \ {0}
    BY EachFile DEF Typed, fixed
<1>2. /\ Done = 1..(idx - 1) /\ Done' = Done \cup {idx}
      /\ i \in DOMAIN list /\ list[i].name = d.name
    BY <1>1, EachFile DEF Done, Duplicates, Typed
<1>3. DOMAIN list' = DOMAIN list /\ list' \in Seq(Entries)
    <2>1. [list[i] EXCEPT !.mandatory = @ \/ d.mandatory] \in Entries
        BY <1>1, <1>2, EachEntry DEF Typed, Entries, Definitions
    <2> QED BY <2>1, <1>2 DEF Typed
<1>4. ASSUME NEW k \in DOMAIN list
      PROVE  /\ list'[k].name = list[k].name /\ list'[k].service = list[k].service
             /\ list'[k].command = list[k].command /\ list'[k].match = list[k].match
             /\ list'[k].backend = list[k].backend
             /\ list[k].mandatory => list'[k].mandatory
             /\ k = i /\ d.mandatory => list'[k].mandatory
    <2>1. list[k] \in Entries
        BY EachEntry DEF Typed
    <2>2. CASE k = i
        BY <2>1, <2>2 DEF Entries, Typed
    <2>3. CASE k # i
        BY <2>3
    <2> QED BY <2>2, <2>3
<1>5. Typed'
    BY <1>1, <1>3 DEF Typed, environment
<1>6. \A k \in DOMAIN list : Place(k)' = Place(k)
    BY <1>1, <1>4, SameFiles DEF Place
<1>7. FromFiles'
    BY <1>1, <1>2, <1>3, <1>4, <1>6 DEF FromFiles
<1>8. Complete'
    BY <1>1, <1>2, <1>3, <1>4 DEF Complete
<1>9. Mandatory'
    <2> SUFFICES ASSUME NEW j \in Done', NEW k \in DOMAIN list,
                        list[k].name = files[j].name, files[j].mandatory
                 PROVE  list'[k].mandatory
        BY <1>1, <1>3, <1>4 DEF Mandatory
    <2>1. CASE j \in Done
        BY <2>1, <1>4 DEF Mandatory
    <2>2. CASE j = idx
        BY <2>2, <1>2, <1>4, OnePlace
    <2> QED BY <2>1, <2>2, <1>2
<1>10. Taken' /\ Reported'
    BY <1>3, <1>4 DEF Typed, Taken, Reported, EachTakenOnce
<1> QED BY <1>5, <1>7, <1>8, <1>9, <1>10

\* A name found twice that may not be ends the daemon.
LEMMA RefusalKeeps ==
    ASSUME IInv, wpc = "load", idx <= Len(files), UNCHANGED <<environment, fixed>>,
           wpc' = "down", idx' = idx + 1,
           UNCHANGED <<confSeen, list, snapshot, todo, taken, errors>>
    PROVE  IInv'
<1> USE DEF IInv
<1>1. files' = files /\ Done \subseteq Done'
    BY DEF Done, fixed
<1>2. \A k : Place(k)' = Place(k)
    BY <1>1, SameFiles DEF Place
<1>3. Typed'
    BY <1>1 DEF Typed, environment
<1>4. FromFiles'
    BY <1>1, <1>2 DEF FromFiles
<1> QED BY <1>3, <1>4 DEF Complete, Mandatory, Taken, Reported, Typed, EachTakenOnce

LEMMA LoadProcessKeeps == IInv /\ LoadProcess => IInv'
<1> SUFFICES ASSUME IInv, LoadProcess PROVE IInv'
    OBVIOUS
<1> DEFINE d == files[idx]
<1>1. CASE Duplicates(d) = {} /\ list' = Append(list, WithService(d))
           /\ wpc' = IF d.valid THEN wpc ELSE "down"
    BY <1>1, NewEntryKeeps DEF LoadProcess
<1>2. CASE \E i \in Duplicates(d) :
            list' = [list EXCEPT ![i].mandatory = @ \/ d.mandatory] /\ UNCHANGED wpc
    BY <1>2, SecondFileKeeps DEF LoadProcess
<1>3. CASE wpc' = "down" /\ UNCHANGED list
    BY <1>3, RefusalKeeps DEF LoadProcess
<1> QED BY <1>1, <1>2, <1>3 DEF LoadProcess

\* Steps that leave the files and the list as they are.
LEMMA ListKept ==
    ASSUME IInv, UNCHANGED <<fixed, list>>, Done' = Done, wpc' # "load" \/ wpc = "load",
           wpc = "down" => wpc' = "down"
    PROVE  FromFiles' /\ Complete' /\ Mandatory' /\ \A k : Place(k)' = Place(k)
<1> USE DEF IInv
<1>1. files' = files /\ list' = list
    BY DEF fixed
<1>2. \A k : Place(k)' = Place(k)
    BY <1>1, SameFiles DEF Place
<1>3. FromFiles'
    BY <1>1, <1>2 DEF FromFiles
<1> QED BY <1>1, <1>2, <1>3 DEF Complete, Mandatory

\* Steps that take no process.
LEMMA TakenKept ==
    ASSUME Taken, UNCHANGED <<fixed, list, snapshot, todo, taken>>
    PROVE  Taken'
<1>1. files' = files /\ list' = list
    BY DEF fixed
<1>2. \A name : DefinitionOf(name)' = DefinitionOf(name)
    BY <1>1, SameFiles
<1>3. \A k \in DOMAIN list : \A t \in taken :
        (DefinitionOf(t[1]) < Place(k))' = (DefinitionOf(t[1]) < Place(k))
    BY <1>1, <1>2 DEF Place
<1>4. \A k, p : Match(list[k], p)' = Match(list[k], p)
    BY <1>1 DEF Match
<1> QED BY <1>1, <1>3, <1>4 DEF Taken, EachTakenOnce

LEMMA ListProcessesKeeps == IInv /\ ListProcesses => IInv'
<1> SUFFICES ASSUME IInv, ListProcesses PROVE IInv'
    OBVIOUS
<1> USE DEF IInv
<1>1. files' = files /\ list' = list /\ Done' = Done
    BY EachFile DEF ListProcesses, Done, fixed, Typed
<1>2. FromFiles' /\ Complete' /\ Mandatory'
    BY <1>1, ListKept DEF ListProcesses
<1>3. Typed' /\ Taken' /\ Reported'
    BY <1>1 DEF ListProcesses, Typed, Taken, Reported, EachTakenOnce, environment, fixed
<1> QED BY <1>2, <1>3

LEMMA EndListKeeps == IInv /\ EndList => IInv'
<1> SUFFICES ASSUME IInv, EndList PROVE IInv'
    OBVIOUS
<1> USE DEF IInv
<1>1. files' = files /\ list' = list /\ Done' = Done
    BY DEF EndList, Done, fixed
<1>2. FromFiles' /\ Complete' /\ Mandatory' /\ \A k : Place(k)' = Place(k)
    BY <1>1, ListKept DEF EndList
<1>3. \A name : DefinitionOf(name)' = DefinitionOf(name)
    BY <1>1, SameFiles
<1>4. Typed'
    BY <1>1 DEF EndList, Typed, environment
<1>5. Taken'
    BY TakenKept DEF EndList
<1>6. Reported'
    BY <1>1, <1>3 DEF EndList, Reported, Unlisted
<1> QED BY <1>2, <1>4, <1>5, <1>6

LEMMA EndRunKeeps == IInv /\ EndRun => IInv'
<1> SUFFICES ASSUME IInv, EndRun PROVE IInv'
    OBVIOUS
<1> USE DEF IInv
<1>1. files' = files /\ Done' = Done
    BY DEF EndRun, Done, fixed
<1>2. FromFiles' /\ Complete' /\ Mandatory' /\ Taken'
    BY <1>1, ListKept, TakenKept DEF EndRun
<1>3. \A name : DefinitionOf(name)' = DefinitionOf(name)
    BY <1>1, SameFiles
<1>4. Typed'
    BY <1>1 DEF EndRun, Typed, environment
<1>5. todo = {} \/ list = <<>>
    BY DEF EndRun, Typed
<1>6. Reported'
    BY <1>1, <1>3 DEF EndRun, Reported, Unlisted, Listed
<1> QED BY <1>2, <1>4, <1>6

\* Once the configuration was read, it is what every later question gets.
LEMMA AskConfFacts ==
    ASSUME Typed, NEW d, AskConf(d)
    PROVE  /\ confSeen' = <<>> \/ \E c \in Confs : confSeen' = <<c>>
           /\ d.backend => confSeen' = <<ConfNow>>
           /\ \A service : Listed(service) => Listed(service)'
           /\ \A service : Unlisted(service) => Unlisted(service)'
<1>1. CASE confSeen = <<>>
    BY <1>1 DEF Typed, AskConf, ConfNow, Listed, Unlisted
<1>2. CASE confSeen # <<>>
    <2>1. PICK c \in Confs : confSeen = <<c>>
        BY <1>2 DEF Typed
    <2>2. confSeen' = confSeen
        BY <1>2, <2>1 DEF AskConf, ConfNow
    <2> QED BY <1>2, <2>1, <2>2 DEF ConfNow, Listed, Unlisted
<1> QED BY <1>1, <1>2

\* What a question about a backend says of its service.
LEMMA ExpectedFacts ==
    ASSUME Typed, NEW d, AskConf(d), d.backend, d.service # NoService
    PROVE  \A service : d.service = service =>
                IF IsProcessExpectedToRun(d) THEN Listed(service)' ELSE Unlisted(service)'
<1>1. confSeen' = <<ConfNow>> /\ confSeen'[1] = ConfNow /\ confSeen' # <<>>
    BY AskConfFacts
<1> QED BY <1>1 DEF IsProcessExpectedToRun, Listed, Unlisted

LEMMA ReportMissingKeeps == IInv /\ ReportMissing => IInv'
<1> SUFFICES ASSUME IInv, ReportMissing PROVE IInv'
    OBVIOUS
<1> USE DEF IInv
<1> DEFINE d == list[idx]
<1>1. /\ files' = files /\ list' = list /\ Done' = Done
      /\ wpc = "missing" /\ wpc' = "missing" /\ todo' = todo
    BY DEF ReportMissing, Done, fixed
<1>2. FromFiles' /\ Complete' /\ Mandatory' /\ Taken'
    BY <1>1, ListKept, TakenKept DEF ReportMissing
<1>3. \A name : DefinitionOf(name)' = DefinitionOf(name)
    BY <1>1, SameFiles
<1>4. idx \in DOMAIN list /\ d \in Entries /\ todo = {}
    BY EachEntry DEF ReportMissing, Typed
<1>5. AskConf(d)
    BY DEF ReportMissing
<1>6. Typed'
    BY <1>1, <1>4, <1>5, AskConfFacts DEF ReportMissing, Typed, environment
<1>7. /\ \A service : Listed(service) => Listed(service)'
      /\ \A service : Unlisted(service) => Unlisted(service)'
    BY <1>5, AskConfFacts
<1>8. ASSUME IsProcessExpectedToRun(d)
      PROVE  /\ MissingPriority(d) # 35
             /\ MissingPriority(d) = 60 => ~d.mandatory
             /\ \A service : d.backend /\ d.service = service => Listed(service)'
    <2>1. MissingPriority(d) # 35 /\ (MissingPriority(d) = 60 => ~d.mandatory)
        BY DEF MissingPriority
    <2>2. ASSUME d.backend PROVE \A service : d.service = service => Listed(service)'
        BY <1>4, <1>5, <1>8, <2>2, ExpectedFacts DEF FromFiles
    <2> QED BY <2>1, <2>2
<1>9. Reported'
    <2> SUFFICES ASSUME NEW e \in errors'
                 PROVE  /\ e[2] # 35 =>
                            \E k \in DOMAIN list :
                                /\ list[k].name = e[1]
                                /\ e[2] = 60 => ~list[k].mandatory
                                /\ \A service : list[k].backend /\ list[k].service = service
                                        => Listed(service)'
                        /\ e[2] = 35 =>
                            /\ files[DefinitionOf(e[1])].service # NoService
                            /\ \A service : files[DefinitionOf(e[1])].service = service
                                        => Unlisted(service)'
        BY <1>1, <1>3, <1>4 DEF Reported
    <2>1. CASE e \in errors
        BY <2>1, <1>1, <1>3, <1>7 DEF Reported
    <2>2. CASE e = <<d.name, MissingPriority(d)>> /\ IsProcessExpectedToRun(d)
        BY <2>2, <1>1, <1>4, <1>8
    <2> QED BY <2>1, <2>2 DEF ReportMissing
<1> QED BY <1>2, <1>6, <1>9

LEMMA EnvironmentKeeps ==
    ASSUME IInv, UNCHANGED <<fixed, confSeen, wpc, idx, list, snapshot, todo, taken, errors>>,
           conf' \in Confs
    PROVE  IInv'
<1> USE DEF IInv
<1>1. files' = files /\ Done' = Done
    BY DEF Done, fixed
<1>2. FromFiles' /\ Complete' /\ Mandatory' /\ Taken'
    BY <1>1, ListKept, TakenKept
<1>3. \A name : DefinitionOf(name)' = DefinitionOf(name)
    BY <1>1, SameFiles
<1>4. Typed'
    BY <1>1 DEF Typed
<1>5. Reported'
    BY <1>1, <1>3 DEF Reported, Unlisted, Listed
<1> QED BY <1>2, <1>4, <1>5

LEMMA RestartKeeps == IInv /\ Restart => IInv'
<1> SUFFICES ASSUME IInv, Restart PROVE IInv'
    OBVIOUS
<1>1. list' = <<>> /\ DOMAIN list' = {}
    BY DEF Restart
<1> QED BY <1>1 DEF Restart, IInv, Typed, FromFiles, Complete, Mandatory, Taken,
            EachTakenOnce, Reported, environment

\* A process that no entry matches.
LEMMA NoMatchKeeps ==
    ASSUME IInv, wpc = "list", NEW p \in todo, todo' = todo \ {p},
           \A k \in DOMAIN list : ~Match(list[k], p),
           UNCHANGED <<environment, fixed, confSeen, wpc, idx, list, snapshot, taken, errors>>
    PROVE  IInv'
<1> USE DEF IInv
<1>1. files' = files /\ list' = list /\ Done' = Done
    BY DEF Done, fixed
<1>2. FromFiles' /\ Complete' /\ Mandatory' /\ \A k : Place(k)' = Place(k)
    BY <1>1, ListKept
<1>3. \A name : DefinitionOf(name)' = DefinitionOf(name)
    BY <1>1, SameFiles
<1>4. Typed'
    BY <1>1 DEF Typed, environment
<1>5. Taken'
    <2>1. \A q \in snapshot' \ todo' : q = p \/ q \in snapshot \ todo
        OBVIOUS
    <2>2. EachTakenOnce' /\ \A t \in taken' : t[2] \in snapshot' \ todo'
        BY DEF Taken, EachTakenOnce
    <2>3. ASSUME NEW k \in DOMAIN list, NEW q \in snapshot' \ todo', Match(list[k], q)
          PROVE  \E t \in taken : t[2] = q /\ DefinitionOf(t[1])' < Place(k)'
        BY <2>1, <2>3, <1>2, <1>3 DEF Taken
    <2> QED BY <2>2, <2>3, <1>1 DEF Taken
<1>6. Reported'
    BY <1>1, <1>3 DEF Reported, Unlisted
<1> QED BY <1>2, <1>4, <1>5, <1>6

\* A process that is crossed out as the first entry it matches.
LEMMA FoundKeeps ==
    ASSUME IInv, wpc = "list", NEW p \in todo, todo' = todo \ {p},
           NEW i \in DOMAIN list, Match(list[i], p),
           \A k \in DOMAIN list : Match(list[k], p) => i <= k, Found(i, p),
           UNCHANGED <<environment, fixed, wpc, idx, snapshot>>
    PROVE  IInv'
<1> USE DEF IInv
<1> DEFINE at(k) == IF k < i THEN k ELSE k + 1
           new == <<list[i].name, p>>
<1>1. /\ files' = files /\ Done' = Done
      /\ \A name : DefinitionOf(name)' = DefinitionOf(name)
    BY SameFiles DEF Done, fixed
<1>2. /\ list' \in Seq(Entries) /\ DOMAIN list' = 1..(Len(list) - 1)
      /\ i \in 1..Len(list) /\ Len(list) \in Nat
      /\ \A k \in DOMAIN list' : list'[k] = list[at(k)]
    <2>1. list' = RemoveAt(list, i)
        BY DEF Found, CrossOut
    <2>2. list \in Seq(Entries)
        BY DEF Typed
    <2>3. /\ RemoveAt(list, i) \in Seq(Entries) /\ Len(RemoveAt(list, i)) = Len(list) - 1
          /\ \A k \in 1..(Len(list) - 1) : RemoveAt(list, i)[k] = list[at(k)]
        BY <2>2, RemoveAtFacts
    <2>4. DOMAIN list' = 1..(Len(list) - 1)
        BY <2>1, <2>3
    <2> QED BY <2>1, <2>2, <2>3, <2>4, EachEntry
<1>3. /\ \A k \in DOMAIN list' : at(k) \in DOMAIN list /\ at(k) # i
      /\ \A k, l \in DOMAIN list' : k < l => at(k) < at(l)
    BY <1>2
<1>4. \A k \in DOMAIN list' : Place(k)' = Place(at(k))
    BY <1>1, <1>2 DEF Place
<1>5. taken' = taken \cup {new} /\ AskConf(list[i])
    BY DEF Found
<1>6. Typed'
    BY <1>1, <1>2, <1>5, AskConfFacts DEF Typed, environment
<1> HIDE DEF at
<1>7. FromFiles'
    BY <1>1, <1>2, <1>3, <1>4 DEF FromFiles
<1>8. Complete' /\ Mandatory'
    BY <1>1, <1>2, <1>3 DEF Complete, Mandatory
<1>9. Taken'
    <2>1. \A t \in taken : t[2] # p /\ t[1] # list[i].name
        BY DEF Taken
    <2>2. EachTakenOnce'
        BY <1>5, <2>1 DEF Taken, EachTakenOnce
    <2>3. ASSUME NEW t \in taken'
          PROVE  /\ t = <<t[1], t[2]>> /\ t[2] \in snapshot' \ todo'
                 /\ \A k \in DOMAIN list' : list'[k].name # t[1]
        <3>1. CASE t \in taken
            BY <3>1, <1>2, <1>3 DEF Taken
        <3>2. CASE t = new
            BY <3>2, <1>2, <1>3, OnePlace DEF Typed
        <3> QED BY <3>1, <3>2, <1>5
    <2>4. ASSUME NEW k \in DOMAIN list', NEW q \in snapshot' \ todo', Match(list'[k], q)
          PROVE  \E t \in taken' : t[2] = q /\ DefinitionOf(t[1]) < Place(at(k))
        <3>1. at(k) \in DOMAIN list /\ Match(list[at(k)], q)
            BY <2>4, <1>2, <1>3
        <3>2. CASE q = p
            <4>1. i < at(k)
                BY <3>1, <3>2, <1>2, <1>3, EachEntry DEF Typed
            <4>2. Place(i) < Place(at(k))
                BY <4>1, <3>1 DEF FromFiles
            <4>3. DefinitionOf(new[1]) < Place(at(k)) /\ new[2] = q /\ new \in taken'
                BY <4>2, <3>2, <1>5 DEF Place
            <4> QED BY <4>3
        <3>3. CASE q # p
            BY <3>1, <3>3, <1>5 DEF Taken
        <3> QED BY <3>2, <3>3
    <2> QED BY <2>2, <2>3, <2>4, <1>1, <1>4 DEF Taken
<1>10. Reported'
    <2>1. /\ \A service : Unlisted(service) => Unlisted(service)'
          /\ list[i].backend /\ ~IsProcessExpectedToRun(list[i]) =>
                \A service : list[i].service = service => Unlisted(service)'
        BY <1>5, AskConfFacts, ExpectedFacts DEF FromFiles
    <2>2. ASSUME NEW e \in errors'
          PROVE  /\ e[2] = 35
                 /\ files[DefinitionOf(e[1])].service # NoService
                 /\ \A service : files[DefinitionOf(e[1])].service = service
                        => Unlisted(service)'
        <3>1. CASE e \in errors
            BY <3>1, <2>1 DEF Reported
        <3>2. CASE /\ e = <<list[i].name, 35>>
                   /\ list[i].backend /\ ~IsProcessExpectedToRun(list[i])
            BY <3>2, <2>1 DEF FromFiles, Place
        <3> QED BY <3>1, <3>2 DEF Found
    <2> QED BY <2>2, <1>1 DEF Reported
<1> QED BY <1>6, <1>7, <1>8, <1>9, <1>10

LEMMA TakeProcessKeeps == IInv /\ TakeProcess => IInv'
<1> SUFFICES ASSUME IInv, TakeProcess PROVE IInv'
    OBVIOUS
<1>1. PICK p \in todo :
        /\ todo' = todo \ {p}
        /\ \/ /\ \A k \in DOMAIN list : ~Match(list[k], p)
              /\ UNCHANGED <<confSeen, list, taken, errors>>
           \/ \E i \in DOMAIN list :
                /\ Match(list[i], p) /\ Found(i, p)
                /\ \A k \in DOMAIN list : Match(list[k], p) => i <= k
    BY DEF TakeProcess
<1>2. wpc = "list" /\ UNCHANGED <<environment, fixed, wpc, idx, snapshot>>
    BY DEF TakeProcess
<1> QED BY <1>1, <1>2, NoMatchKeeps, FoundKeeps

LEMMA StepInvariant == IInv /\ [Next]_vars => IInv'
<1> SUFFICES ASSUME IInv, [Next]_vars PROVE IInv'
    OBVIOUS
<1>1. CASE BeginLoad \/ LoadProcess \/ ListProcesses
    BY <1>1, BeginLoadKeeps, LoadProcessKeeps, ListProcessesKeeps
<1>2. CASE TakeProcess \/ EndList \/ ReportMissing \/ EndRun
    BY <1>2, TakeProcessKeeps, EndListKeeps, ReportMissingKeeps, EndRunKeeps
<1>3. CASE \E p \in Processes : ChangeProcess(p)
    BY <1>3, EnvironmentKeeps DEF ChangeProcess, Unmoved, IInv, Typed
<1>4. CASE \E service \in Services : ChangeService(service)
    BY <1>4, EnvironmentKeeps DEF ChangeService, Unmoved, IInv, Typed
<1>5. CASE ChangeConf
    BY <1>5, EnvironmentKeeps DEF ChangeConf, Unmoved, IInv, Typed
<1>6. CASE Restart
    BY <1>6, RestartKeeps
<1>7. CASE UNCHANGED vars
    BY <1>7, EnvironmentKeeps DEF vars, environment, IInv, Typed
<1> QED BY <1>1, <1>2, <1>3, <1>4, <1>5, <1>6, <1>7 DEF Next

\* The invariant holds for any files, processes and services.
THEOREM InvariantHolds == Spec => []IInv
BY InitInvariant, StepInvariant, PTL DEF Spec

-----------------------------------------------------------------------------
(* What follows *)

\* One process for one definition, one definition for one process.
THEOREM TakenOnce == Spec => []EachTakenOnce
<1>1. IInv => EachTakenOnce
    BY DEF IInv, Taken
<1> QED BY <1>1, InvariantHolds, PTL

\* A process is reported missing only if all those that it could have been were taken
\* for definitions that come earlier.
THEOREM MissingOnesMissing == Spec => []MissingJustified
<1>1. IInv => MissingJustified
    <2> SUFFICES ASSUME IInv, NEW e \in errors, e[2] # 35
                 PROVE  LET d == files[DefinitionOf(e[1])]
                        IN  /\ \A t \in taken : t[1] # e[1]
                            /\ \A p \in snapshot : Match(d, p) =>
                                 \E t \in taken :
                                    t[2] = p /\ DefinitionOf(t[1]) < DefinitionOf(e[1])
        BY DEF MissingJustified
    <2>1. PICK k \in DOMAIN list : list[k].name = e[1] /\ todo = {}
        BY DEF IInv, Reported
    <2>2. \A p \in snapshot : Match(files[Place(k)], p) => Match(list[k], p)
        BY DEF IInv, FromFiles, Match
    <2> QED BY <2>1, <2>2 DEF IInv, Taken, Place
<1> QED BY <1>1, InvariantHolds, PTL

\* What any file says is mandatory is reported as mandatory.
THEOREM MandatoryReported == Spec => []MandatoryKept
<1>1. IInv => MandatoryKept
    <2> SUFFICES ASSUME IInv, NEW e \in errors, e[2] = 60, NEW i \in DOMAIN files,
                        files[i].name = e[1], files[i].mandatory
                 PROVE  FALSE
        BY DEF MandatoryKept, IInv, Typed
    <2>1. PICK k \in DOMAIN list : list[k].name = e[1] /\ ~list[k].mandatory
        BY DEF IInv, Reported
    <2>2. wpc \in {"missing", "idle"} /\ i \in Done
        BY DEF IInv, Reported, Done
    <2> QED BY <2>1, <2>2 DEF IInv, Mandatory
<1> QED BY <1>1, InvariantHolds, PTL

\* All the processes of a backend are judged by one reading of the configuration.
THEOREM BackendsJudgedOnce == Spec => []BackendsAgree
<1>1. IInv => BackendsAgree
    <2> SUFFICES ASSUME IInv, NEW e \in errors, NEW f \in errors, e[2] = 35, f[2] # 35,
                        files[DefinitionOf(f[1])].backend,
                        files[DefinitionOf(f[1])].service
                            = files[DefinitionOf(e[1])].service
                 PROVE  FALSE
        BY DEF BackendsAgree
    <2>1. /\ files[DefinitionOf(e[1])].service # NoService
          /\ Unlisted(files[DefinitionOf(e[1])].service)
        BY DEF IInv, Reported
    <2>2. PICK k \in DOMAIN list :
            list[k].name = f[1] /\ (list[k].backend => Listed(list[k].service))
        BY DEF IInv, Reported
    <2>3. list[k].backend /\ list[k].service = files[DefinitionOf(e[1])].service
        BY <2>1, <2>2 DEF IInv, FromFiles, Place
    <2> QED BY <2>1, <2>2, <2>3 DEF Listed, Unlisted
<1> QED BY <1>1, InvariantHolds, PTL

=============================================================================
