----------------------------- MODULE PluginProofs -----------------------------
(***************************************************************************)
(* Proofs about the runs of the plugins: for any scripts, readings, lists  *)
(* of plugins and orders of them, what a run mails is what its plugins     *)
(* found, and it is counted, judged and logged as such.                    *)
(*                                                                         *)
(* And about the alarms that depend on time: for any delays, retention and *)
(* length of time, an alarm is that of the calls that agree with the last, *)
(* whatever was restarted in between, and rises while they do.             *)
(***************************************************************************)
EXTENDS PluginRun, PluginAlarms, FiniteSetTheorems, WellFoundedInduction, TLAPS

-----------------------------------------------------------------------------
(* The greatest element of a set of integers *)

\* A set of naturals has a least element: the order of the naturals is well-founded.
LEMMA LeastNat ==
    ASSUME NEW S \in SUBSET Nat, S # {}
    PROVE \E m \in S : \A n \in S : m <= n
<1> DEFINE Less == {ss \in Nat \X Nat : ss[1] < ss[2]}
<1>1. IsWellFoundedOn(Less, Nat)
  BY NatLessThanWellFounded, Zenon DEF OpToRel
<1> HIDE DEF Less
<1>2. PICK m \in S : \A n \in S : ~ (<<n, m>> \in Less)
  BY <1>1, WFMin, Zenon
<1>3. \A n \in S : ~ (n < m)
  BY <1>2 DEF Less
<1> QED
  BY <1>3

\* A finite set of integers has a greatest element: of the finite sets that have none,
\* a least one would have an element less, and it would have none either.
LEMMA GreatestInt ==
    ASSUME NEW S \in SUBSET Int, IsFiniteSet(S), S # {}
    PROVE \E m \in S : \A n \in S : n <= m
<1> DEFINE Fails(T) == T # {} /\ ~ \E m \in T : \A n \in T : n <= m
           Bad == {T \in FiniteSubsetsOf(Int) : Fails(T)}
           Sub == StrictSubsetOrdering(Int)
<1>1. SUFFICES ASSUME Bad # {} PROVE FALSE
  BY DEF FiniteSubsetsOf
<1>2. PICK T \in Bad : \A U \in Bad : ~ (<<U, T>> \in Sub)
  <2>1. Bad \subseteq FiniteSubsetsOf(Int)
    OBVIOUS
  <2> HIDE DEF Bad
  <2> QED
    BY <1>1, <2>1, FS_StrictSubsetOrderingWellFounded, WFMin, Zenon
<1>3. T \in SUBSET Int /\ IsFiniteSet(T) /\ Fails(T)
  BY DEF FiniteSubsetsOf
<1>4. PICK x \in T : TRUE
  BY <1>3
<1> DEFINE U == T \ {x}
<1>5. U \in SUBSET Int /\ IsFiniteSet(U)
  BY <1>3, FS_RemoveElement
<1>6. <<U, T>> \in Sub
  BY <1>3, <1>4, <1>5 DEF StrictSubsetOrdering
<1>7. ~Fails(U)
  BY <1>2, <1>5, <1>6 DEF FiniteSubsetsOf
<1>8. CASE U = {}
  BY <1>3, <1>4, <1>8
<1>9. CASE U # {}
  <2>1. PICK m \in U : \A n \in U : n <= m
    BY <1>7, <1>9
  <2> DEFINE worst == IF x <= m THEN m ELSE x
  <2>2. worst \in T /\ \A n \in T : n <= worst
    BY <1>3, <1>4, <2>1
  <2> QED
    BY <1>3, <2>2
<1> QED
  BY <1>8, <1>9

LEMMA MaxIsGreatest ==
    ASSUME NEW S \in SUBSET Int, IsFiniteSet(S), S # {}
    PROVE Max(S) \in S /\ \A n \in S : n <= Max(S)
<1>1. \E m \in S : \A n \in S : m >= n
  BY GreatestInt
<1> QED
  BY <1>1 DEF Max

LEMMA GreatestIsMax ==
    ASSUME NEW S \in SUBSET Int, NEW m \in S, \A n \in S : n <= m
    PROVE m = Max(S)
<1>1. Max(S) \in S /\ \A n \in S : Max(S) >= n
  <2>1. \A n \in S : m >= n
    OBVIOUS
  <2> QED
    BY <2>1 DEF Max
<1> DEFINE greatest == Max(S)
<1>2. greatest \in S /\ greatest <= m /\ m <= greatest
  BY <1>1
<1> HIDE DEF greatest
<1>3. m = greatest
  BY <1>2
<1> QED
  BY <1>3 DEF greatest

-----------------------------------------------------------------------------
(* The inductive invariant *)

\* A run is being made.
Running == turn # "none"

\* What is where.
TypeInv ==
    /\ loaded \subseteq Plugins /\ todo \subseteq loaded
    /\ turn \in {"none", "server", "cpu", "scripts"}
    /\ run \in Nat
    /\ seen = [p \in Plugins |-> seen[p]]
    /\ sent \subseteq 1..run
    /\ Running => run \in (1..run) \ sent

Topics == {"missing", "unchecked", "garbled", "out of date", "updates", "security",
           "memory", "swap", "raised", "ipwall", "load", "output", "error"}

AnyError == [plugin : Plugins, about : Topics,
             subject : ScriptFiles \cup {"none"}, priority : 0..100]

\* All through a run, the count and the priority are those of the document.
Worst(priority, errors) ==
    /\ priority \in {0} \cup {errors[i].priority : i \in DOMAIN errors}
    /\ \A i \in DOMAIN errors : errors[i].priority <= priority

CountsInv ==
    /\ document \in Seq(AnyError)
    /\ Running => errorCount = Len(document) /\ Worst(maxPriority, document)

\* Why a plugin may have appended nothing so far.
AptSilent ==
    ErrorsOf("apt") = {} =>
        \A file \in seen["apt"] : file.kind = "counts" /\ ~file.updates /\ file.age <= 25
MemorySilent ==
    ErrorsOf("memory") = {} =>
        \A info \in seen["memory"] : info.available > 512 \/ 5 * info.available >= info.total
FlagsSilent == ErrorsOf("flags") = {} => seen["flags"] \subseteq {{}}
FirewallSilent == ErrorsOf("firewall") = {} => seen["firewall"] \subseteq {TRUE}

SilentInv == Running => AptSilent /\ MemorySilent /\ FlagsSilent /\ FirewallSilent

\* Where the plugin is in its list: what is left has not run.
ProgressInv ==
    /\ result \in [ScriptFiles -> Results]
    /\ step \in {"off", "next", "wait", "output", "report_output", "error", "report_error"}
    /\ step = "off" <=> turn # "scripts"
    /\ queue \in Seq(ScriptFiles)
    /\ \A i, j \in DOMAIN queue : queue[i] = queue[j] => i = j
    /\ turn = "scripts" => "scripts" \in loaded \ todo
    /\ turn = "scripts" => \A i \in DOMAIN queue : result[queue[i]] = NotRun
    /\ step \notin {"off", "next"} =>
          script \in ScriptFiles /\ \A i \in DOMAIN queue : queue[i] # script
    /\ step = "wait" => result[script] = NotRun
    /\ step = "report_output" => result[script].failed /\ result[script].output
    /\ step = "report_error" => result[script].error

\* What a script did that was to be reported by now.
OutputDue(s) ==
    /\ result[s].failed /\ result[s].output
    /\ ~(s = script /\ step \in {"output", "report_output"})
ErrorDue(s) ==
    /\ result[s].error
    /\ ~(s = script /\ step \in {"output", "report_output", "error", "report_error"})

\* It is reported once if it is due, and never if it is not.
Settled(places, due) ==
    IF due THEN \E i \in DOMAIN document : places = {i} ELSE places = {}

JudgedInv ==
    Running =>
        IF "scripts" \in loaded \ todo
        THEN \A s \in ScriptFiles :
                /\ Settled(Reported("output", s), OutputDue(s))
                /\ Settled(Reported("error", s), ErrorDue(s))
        ELSE ErrorsOf("scripts") = {}

\* What a log holds, of the run that is being made, was or is about to be reported.
LogInv(log, about, reporting) ==
    /\ log[2] \in 0..run
    /\ log[2] \in sent => <<about, log[1], log[2]>> \in mailed
    /\ Running /\ log[2] = run =>
          Reported(about, log[1]) # {} \/ (step = reporting /\ script = log[1])

LogsInv ==
    \A log \in {outputLog, errorLog} :
        /\ log = outputLog => LogInv(log, "output", "report_output")
        /\ log = errorLog => LogInv(log, "error", "report_error")

\* While the members of a file are held, every value read from it is of their moment;
\* the map of vmstat loses them when it is asked again, and then all its values.
StatsInv ==
    /\ moment \in Nat \ {0}
    /\ defined \subseteq Files
    /\ held \in [Files -> Nat]
    /\ asked \in 0..Len(Asking)
    /\ answer \in [DOMAIN Asking -> Int]
    /\ \A file \in Files :
          IF file \in defined
          THEN /\ \A a, b \in Readings(file) : a = b
               /\ file # "vmstat" => Readings(file) \subseteq {held[file]}
          ELSE Readings(file) = {}

IInv ==
    /\ TypeInv /\ CountsInv /\ SilentInv /\ ProgressInv /\ JudgedInv
    /\ LogsInv /\ StatsInv


-----------------------------------------------------------------------------
(* The document *)

\* What a plugin passes to append_error(), valid or not.
AnyCall == [plugin : Plugins, about : Topics,
            subject : ScriptFiles \cup {"none"}, priority : Int]

Extends(all, d, e) ==
    /\ Len(all) = Len(d) + Len(e)
    /\ \A i \in DOMAIN d : i \in DOMAIN all /\ all[i] = d[i]
    /\ \A i \in DOMAIN e : Len(d) + i \in DOMAIN all /\ all[Len(d) + i] = e[i]
    /\ \A k \in DOMAIN all : k \in DOMAIN d \/ \E i \in DOMAIN e : k = Len(d) + i

LEMMA Appended ==
    ASSUME NEW S, NEW d \in Seq(S), NEW e \in Seq(S), NEW all, all = d \o e
    PROVE all \in Seq(S) /\ Extends(all, d, e)
<1>1. all \in Seq(S) /\ Len(all) = Len(d) + Len(e)
  OBVIOUS
<1>2. /\ DOMAIN d = 1..Len(d) /\ DOMAIN e = 1..Len(e)
      /\ DOMAIN all = 1..(Len(d) + Len(e))
      /\ Len(d) \in Nat /\ Len(e) \in Nat
  BY <1>1
<1>3. \A i \in DOMAIN d : i \in DOMAIN all /\ all[i] = d[i]
  OBVIOUS
<1>4. \A i \in DOMAIN e : Len(d) + i \in DOMAIN all /\ all[Len(d) + i] = e[i]
  OBVIOUS
<1>5. ASSUME NEW k \in DOMAIN all, k \notin DOMAIN d
      PROVE \E i \in DOMAIN e : k = Len(d) + i
  <2>1. k - Len(d) \in 1..Len(e) /\ k = Len(d) + (k - Len(d))
    BY <1>2, <1>5
  <2> QED
    BY <1>2, <2>1
<1> QED
  BY <1>1, <1>3, <1>4, <1>5, Zenon DEF Extends

LEMMA PriorityIsInt ==
    ASSUME NEW error \in AnyError
    PROVE error.priority \in 0..100 /\ error.priority \in Int
BY DEF AnyError

\* An error that is let through has a priority of 0 to 100.
LEMMA ValidErrors ==
    ASSUME NEW errors \in Seq(AnyCall), AllValid(errors)
    PROVE errors \in Seq(AnyError)
<1>1. \A i \in 1..Len(errors) : errors[i] \in AnyError
  <2> SUFFICES ASSUME NEW i \in 1..Len(errors) PROVE errors[i] \in AnyError
    OBVIOUS
  <2>1. errors[i] \in AnyCall
    OBVIOUS
  <2>2. errors[i].priority \in 0..100
    <3>1. i \in DOMAIN errors
      OBVIOUS
    <3> QED
      BY <3>1, Zenon DEF AllValid, Valid
  <2> QED
    BY <2>1, <2>2 DEF AnyCall, AnyError
<1> QED
  BY <1>1

\* The maximum that append_error() keeps is the worst priority of all.
LEMMA WorstOfBoth ==
    ASSUME NEW d \in Seq(AnyError), NEW e \in Seq(AnyError), NEW worst, Worst(worst, d)
    PROVE Worst(Max({worst} \cup {e[i].priority : i \in DOMAIN e}), d \o e)
<1> DEFINE new == {e[i].priority : i \in DOMAIN e}
           both == {worst} \cup new
           most == Max(both)
           all == d \o e
<1>1. /\ \A i \in DOMAIN d : d[i].priority \in Int
      /\ \A i \in DOMAIN e : e[i].priority \in Int
  <2>1. \A error \in AnyError : error.priority \in Int
    BY PriorityIsInt
  <2>2. (\A i \in DOMAIN d : d[i] \in AnyError) /\ (\A i \in DOMAIN e : e[i] \in AnyError)
    OBVIOUS
  <2> QED
    BY <2>1, <2>2
<1>2. worst \in Int
  BY <1>1 DEF Worst
<1>3. both \in SUBSET Int
  BY <1>1, <1>2
<1>4. IsFiniteSet(both)
  <2>1. IsFiniteSet(DOMAIN e)
    BY FS_Interval
  <2>2. [i \in DOMAIN e |-> e[i].priority] \in Surjection(DOMAIN e, new)
    BY DEF Surjection
  <2>3. IsFiniteSet(new)
    <3> HIDE DEF new
    <3> QED
      BY <2>1, <2>2, FS_Surjection, Zenon
  <2> QED
    BY <2>3, FS_Singleton, FS_Union
<1>5. most \in both /\ \A n \in both : n <= most
  <2> HIDE DEF both
  <2>1. both # {}
    BY DEF both
  <2> QED
    BY <1>3, <1>4, <2>1, MaxIsGreatest
<1> HIDE DEF most
<1>6. /\ \A i \in DOMAIN d : i \in DOMAIN all /\ all[i] = d[i]
      /\ \A i \in DOMAIN e : Len(d) + i \in DOMAIN all /\ all[Len(d) + i] = e[i]
      /\ \A k \in DOMAIN all : k \in DOMAIN d \/ \E i \in DOMAIN e : k = Len(d) + i
  <2>1. Extends(all, d, e)
    BY Appended, Zenon
  <2> QED
    BY <2>1, Zenon DEF Extends
<1> HIDE DEF all
<1>7. most \in {0} \cup {all[i].priority : i \in DOMAIN all}
  BY <1>5, <1>6 DEF Worst
<1>8. ASSUME NEW k \in DOMAIN all PROVE all[k].priority <= most
  <2>1. CASE k \in DOMAIN d
    <3>1. all[k].priority <= worst
      BY <1>6, <2>1 DEF Worst
    <3>2. all[k].priority \in Int
      BY <1>1, <1>6, <2>1
    <3>3. worst <= most /\ most \in Int
      BY <1>3, <1>5
    <3> QED
      BY <3>1, <3>2, <3>3, <1>2
  <2>2. CASE \E i \in DOMAIN e : k = Len(d) + i
    BY <1>5, <1>6, <2>2
  <2> QED
    BY <1>6, <2>1, <2>2
<1> QED
  BY <1>7, <1>8 DEF Worst, most, all

\* append_error() keeps the count and the priority in step with the document.
LEMMA AppendCounts ==
    ASSUME CountsInv, Running, NEW errors \in Seq(AnyCall), AppendErrors(errors)
    PROVE /\ document' \in Seq(AnyError)
          /\ AllValid(errors) =>
                errorCount' = Len(document') /\ Worst(maxPriority', document')
<1>1. CASE ~AllValid(errors)
  BY <1>1 DEF AppendErrors, CountsInv
<1>2. CASE AllValid(errors)
  <2>1. errors \in Seq(AnyError)
    BY <1>2, ValidErrors
  <2>2. document' = document \o errors
    BY <1>2 DEF AppendErrors
  <2>3. Worst(maxPriority', document')
    BY <2>1, <2>2, WorstOfBoth, Zenon DEF AppendErrors, CountsInv
  <2>4. errorCount' = Len(document') /\ document' \in Seq(AnyError)
    <3>1. /\ document \in Seq(AnyError) /\ errorCount = Len(document)
          /\ errorCount' = errorCount + Len(errors)
      BY DEF AppendErrors, CountsInv
    <3>2. document' \in Seq(AnyError) /\ Extends(document', document, errors)
      BY <2>1, <2>2, <3>1, Appended, Zenon
    <3> QED
      BY <3>1, <3>2, Zenon DEF Extends
  <2> QED
    BY <2>3, <2>4
<1> QED
  BY <1>1, <1>2

\* What is in the document stays, and what comes is of the plugin whose turn it is.
LEMMA AppendPlaces ==
    ASSUME CountsInv, NEW errors \in Seq(AnyCall), AllValid(errors), AppendErrors(errors),
           NEW p, \A i \in DOMAIN errors : errors[i].plugin = p
    PROVE /\ \A q : q # p => ErrorsOf(q)' = ErrorsOf(q)
          /\ ErrorsOf(p) # {} => ErrorsOf(p)' # {}
          /\ errors # <<>> => ErrorsOf(p)' # {}
          /\ \A i \in DOMAIN document : i \in DOMAIN document' /\ document'[i] = document[i]
<1>1. /\ errors \in Seq(AnyError) /\ document \in Seq(AnyError)
      /\ document' = document \o errors
  BY ValidErrors DEF AppendErrors, CountsInv
<1>2. /\ \A i \in DOMAIN document : i \in DOMAIN document' /\ document'[i] = document[i]
      /\ \A i \in DOMAIN errors :
            Len(document) + i \in DOMAIN document'
            /\ document'[Len(document) + i] = errors[i]
      /\ \A k \in DOMAIN document' :
            k \in DOMAIN document \/ \E i \in DOMAIN errors : k = Len(document) + i
  <2>1. Extends(document', document, errors)
    BY <1>1, Appended, Zenon
  <2> QED
    BY <2>1, Zenon DEF Extends
<1>4. \A q : q # p => ErrorsOf(q)' = ErrorsOf(q)
  BY <1>2 DEF ErrorsOf
<1>5. ErrorsOf(p) # {} => ErrorsOf(p)' # {}
  BY <1>2 DEF ErrorsOf
<1>6. ASSUME errors # <<>> PROVE ErrorsOf(p)' # {}
  <2>1. 1 \in DOMAIN errors
    BY <1>6
  <2> QED
    BY <1>2, <2>1 DEF ErrorsOf
<1> QED
  BY <1>2, <1>4, <1>5, <1>6

-----------------------------------------------------------------------------
(* What the plugins append *)

IsCall(errors, p) ==
    /\ errors \in Seq(AnyCall)
    /\ \A i \in DOMAIN errors : errors[i].plugin = p

LEMMA NoError == ASSUME NEW p PROVE IsCall(<<>>, p) /\ AllValid(<<>>)
BY DEF IsCall, AllValid

LEMMA OneError ==
    ASSUME NEW e \in AnyCall
    PROVE IsCall(<<e>>, e.plugin) /\ <<e>> # <<>> /\ (Valid(e) => AllValid(<<e>>))
<1>1. <<e>> \in Seq(AnyCall) /\ DOMAIN <<e>> = {1} /\ <<e>>[1] = e
  OBVIOUS
<1> QED
  BY <1>1 DEF IsCall, AllValid

LEMMA PluginError ==
    ASSUME NEW p \in Plugins, NEW about \in Topics, NEW priority, priority \in Int
    PROVE /\ IsCall(<<Error(p, about, priority)>>, p)
          /\ <<Error(p, about, priority)>> # <<>>
          /\ priority \in 0..100 => AllValid(<<Error(p, about, priority)>>)
<1>1. /\ Error(p, about, priority) \in AnyCall
      /\ Error(p, about, priority).plugin = p
      /\ Error(p, about, priority).priority = priority
  BY DEF Error, AnyCall
<1> QED
  BY <1>1, OneError, Zenon DEF Valid

LEMMA ValidError ==
    ASSUME NEW p \in Plugins, NEW about \in Topics, NEW priority \in 0..100
    PROVE /\ IsCall(<<Error(p, about, priority)>>, p)
          /\ AllValid(<<Error(p, about, priority)>>)
          /\ <<Error(p, about, priority)>> # <<>>
<1>1. priority \in Int
  OBVIOUS
<1> QED
  BY <1>1, PluginError, Zenon

LEMMA TwoCalls ==
    ASSUME NEW p, NEW d, NEW e, IsCall(d, p), AllValid(d), IsCall(e, p), AllValid(e)
    PROVE IsCall(d \o e, p) /\ AllValid(d \o e) /\ (d \o e = <<>> => d = <<>> /\ e = <<>>)
<1> DEFINE all == d \o e
<1>1. d \in Seq(AnyCall) /\ e \in Seq(AnyCall)
  BY DEF IsCall
<1>2. all \in Seq(AnyCall) /\ Extends(all, d, e)
  BY <1>1, Appended, Zenon
<1>3. all = <<>> => d = <<>> /\ e = <<>>
  BY <1>1
<1> HIDE DEF all
<1>4. \A i \in DOMAIN all : all[i].plugin = p /\ Valid(all[i])
  <2>1. ASSUME NEW i \in DOMAIN all, i \in DOMAIN d
        PROVE all[i].plugin = p /\ Valid(all[i])
    <3>1. all[i] = d[i]
      BY <1>2, <2>1 DEF Extends
    <3> QED
      BY <2>1, <3>1 DEF IsCall, AllValid
  <2>2. ASSUME NEW k \in DOMAIN e
        PROVE all[Len(d) + k].plugin = p /\ Valid(all[Len(d) + k])
    <3>1. all[Len(d) + k] = e[k]
      BY <1>2, <2>2 DEF Extends
    <3> QED
      BY <2>2, <3>1 DEF IsCall, AllValid
  <2> QED
    BY <1>2, <2>1, <2>2 DEF Extends
<1> QED
  BY <1>2, <1>3, <1>4, Zenon DEF all, IsCall, AllValid

LEMMA AptCall ==
    ASSUME NEW file \in AptFiles
    PROVE /\ IsCall(AptErrors(file), "apt") /\ AllValid(AptErrors(file))
          /\ AptErrors(file) = <<>> =>
                file.kind = "counts" /\ ~file.updates /\ file.age <= 25
<1>1. \/ file \in {NoFile, Unchecked, Garbled}
      \/ file \in [kind : {"counts"}, age : Int, updates : BOOLEAN, security : BOOLEAN]
  BY RunAssumption
<1>2. ASSUME NEW about \in {"missing", "unchecked", "garbled",
                           "out of date", "updates", "security"},
             NEW priority \in 0..100
      PROVE /\ IsCall(<<Error("apt", about, priority)>>, "apt")
            /\ AllValid(<<Error("apt", about, priority)>>)
  <2>1. "apt" \in Plugins
    BY DEF Plugins
  <2>2. about \in Topics
    BY DEF Topics
  <2> QED
    BY <2>1, <2>2, ValidError, Zenon
<1>3. \/ AptErrors(file) = <<>>
      \/ AptErrors(file) = <<Error("apt", "missing", 20)>>
      \/ AptErrors(file) = <<Error("apt", "unchecked", 98)>>
      \/ AptErrors(file) = <<Error("apt", "garbled", 15)>>
      \/ AptErrors(file) = <<Error("apt", "out of date", 50)>>
      \/ AptErrors(file) = <<Error("apt", "security", 52)>>
      \/ AptErrors(file) = <<Error("apt", "updates", 45)>>
  BY <1>1 DEF AptErrors, NoFile, Unchecked, Garbled
<1>4. AptErrors(file) = <<>> =>
            file.kind = "counts" /\ ~file.updates /\ file.age <= 25
  BY <1>1 DEF AptErrors, NoFile, Unchecked, Garbled, OutOfDate
<1>5. IsCall(AptErrors(file), "apt") /\ AllValid(AptErrors(file))
  <2>0. /\ 15 \in 0..100 /\ 20 \in 0..100 /\ 45 \in 0..100
        /\ 50 \in 0..100 /\ 52 \in 0..100 /\ 98 \in 0..100
    OBVIOUS
  <2>1. CASE AptErrors(file) = <<>>
    BY <2>1, NoError, Zenon
  <2>2. CASE AptErrors(file) = <<Error("apt", "missing", 20)>>
    BY <1>2, <2>0, <2>2, Zenon
  <2>3. CASE AptErrors(file) = <<Error("apt", "unchecked", 98)>>
    BY <1>2, <2>0, <2>3, Zenon
  <2>4. CASE AptErrors(file) = <<Error("apt", "garbled", 15)>>
    BY <1>2, <2>0, <2>4, Zenon
  <2>5. CASE AptErrors(file) = <<Error("apt", "out of date", 50)>>
    BY <1>2, <2>0, <2>5, Zenon
  <2>6. CASE AptErrors(file) = <<Error("apt", "security", 52)>>
    BY <1>2, <2>0, <2>6, Zenon
  <2>7. CASE AptErrors(file) = <<Error("apt", "updates", 45)>>
    BY <1>2, <2>0, <2>7, Zenon
  <2> QED
    BY <1>3, <2>1, <2>2, <2>3, <2>4, <2>5, <2>6, <2>7, Zenon
<1> QED
  BY <1>4, <1>5

LEMMA MemoryCall ==
    ASSUME NEW info \in MemInfos
    PROVE /\ IsCall(MemoryErrors(info), "memory") /\ AllValid(MemoryErrors(info))
          /\ MemoryErrors(info) = <<>> =>
                info.available > 512 \/ 5 * info.available >= info.total
<1> DEFINE d == IF HighMemoryUsage(info) THEN <<Error("memory", "memory", 75)>> ELSE <<>>
           e == IF HighSwapUsage(info) THEN <<Error("memory", "swap", 65)>> ELSE <<>>
<1>0. /\ "memory" \in Plugins /\ "memory" \in Topics /\ "swap" \in Topics
      /\ 75 \in 0..100 /\ 65 \in 0..100
  BY DEF Plugins, Topics
<1>1. IsCall(d, "memory") /\ AllValid(d) /\ (d = <<>> => ~HighMemoryUsage(info))
  <2>1. /\ IsCall(<<Error("memory", "memory", 75)>>, "memory")
        /\ AllValid(<<Error("memory", "memory", 75)>>)
        /\ <<Error("memory", "memory", 75)>> # <<>>
    BY <1>0, ValidError, Zenon
  <2> QED
    BY <2>1, NoError, Zenon
<1>2. IsCall(e, "memory") /\ AllValid(e)
  <2>1. /\ IsCall(<<Error("memory", "swap", 65)>>, "memory")
        /\ AllValid(<<Error("memory", "swap", 65)>>)
    BY <1>0, ValidError, Zenon
  <2> QED
    BY <2>1, NoError, Zenon
<1>3. MemoryErrors(info) = d \o e
  BY DEF MemoryErrors
<1>4. ~HighMemoryUsage(info) => info.available > 512 \/ 5 * info.available >= info.total
  BY RunAssumption DEF HighMemoryUsage, LessThanOneIn
<1> HIDE DEF d, e
<1>5. /\ IsCall(MemoryErrors(info), "memory") /\ AllValid(MemoryErrors(info))
      /\ MemoryErrors(info) = <<>> => ~HighMemoryUsage(info)
  <2>1. IsCall(d \o e, "memory") /\ AllValid(d \o e) /\ (d \o e = <<>> => d = <<>>)
    BY <1>1, <1>2, TwoCalls, Zenon
  <2> QED
    BY <1>1, <1>3, <2>1
<1> QED
  BY <1>4, <1>5

LEMMA FlagsCall ==
    ASSUME NEW list \in FlagLists
    PROVE /\ IsCall(FlagsErrors(list), "flags")
          /\ FlagsErrors(list) = <<>> => list = {}
<1>1. list \in SUBSET Int /\ IsFiniteSet(list)
  BY RunAssumption
<1>2. CASE list = {}
  BY <1>2, NoError DEF FlagsErrors
<1>3. CASE list # {}
  <2> DEFINE worst == Max({5} \cup list)
  <2>1. worst \in Int
    <3>1. IsFiniteSet({5} \cup list)
      BY <1>1, FS_Singleton, FS_Union
    <3> DEFINE all == {5} \cup list
    <3>2. all \in SUBSET Int /\ all # {} /\ IsFiniteSet(all)
      BY <1>1, <3>1
    <3> HIDE DEF all
    <3>3. Max(all) \in all
      BY <3>2, MaxIsGreatest, Zenon
    <3> QED
      BY <3>2, <3>3 DEF all
  <2>2. FlagsErrors(list) = <<Error("flags", "raised", worst)>>
    BY <1>3 DEF FlagsErrors
  <2>3. "flags" \in Plugins /\ "raised" \in Topics
    BY DEF Plugins, Topics
  <2> HIDE DEF worst
  <2> QED
    BY <1>3, <2>1, <2>2, <2>3, PluginError, Zenon
<1> QED
  BY <1>2, <1>3

LEMMA FirewallCall ==
    ASSUME NEW found \in BOOLEAN
    PROVE /\ IsCall(FirewallErrors(found), "firewall") /\ AllValid(FirewallErrors(found))
          /\ FirewallErrors(found) = <<>> => found = TRUE
<1>1. /\ IsCall(<<Error("firewall", "ipwall", 95)>>, "firewall")
      /\ AllValid(<<Error("firewall", "ipwall", 95)>>)
      /\ <<Error("firewall", "ipwall", 95)>> # <<>>
  <2>1. "firewall" \in Plugins /\ "ipwall" \in Topics /\ 95 \in 0..100
    BY DEF Plugins, Topics
  <2> QED
    BY <2>1, ValidError, Zenon
<1> QED
  BY <1>1, NoError, Zenon DEF FirewallErrors, MissingProcess

LEMMA CpuCall ==
    ASSUME NEW errors \in {<<>>, <<Error("cpu", "load", 100)>>}
    PROVE IsCall(errors, "cpu") /\ AllValid(errors)
<1>1. /\ IsCall(<<Error("cpu", "load", 100)>>, "cpu")
      /\ AllValid(<<Error("cpu", "load", 100)>>)
  <2>1. "cpu" \in Plugins /\ "load" \in Topics /\ 100 \in 0..100
    BY DEF Plugins, Topics
  <2> QED
    BY <2>1, ValidError, Zenon
<1> QED
  BY <1>1, NoError

LEMMA ScriptCall ==
    ASSUME NEW about \in Topics, NEW s \in ScriptFiles, NEW priority \in 0..100
    PROVE /\ IsCall(<<ScriptError(about, s, priority)>>, "scripts")
          /\ AllValid(<<ScriptError(about, s, priority)>>)
<1>1. /\ ScriptError(about, s, priority) \in AnyCall
      /\ ScriptError(about, s, priority).plugin = "scripts"
      /\ ScriptError(about, s, priority).priority = priority
  BY DEF ScriptError, AnyCall, Plugins
<1> QED
  BY <1>1, OneError DEF Valid

-----------------------------------------------------------------------------
(* One step *)

LEMMA TypeStep == ASSUME TypeInv, Next PROVE TypeInv'
<1>1. CASE BeginRun
  BY <1>1 DEF BeginRun, TypeInv, Running, NothingSeen
<1>2. ASSUME NEW p \in Plugins, NEW what, NEW errors, Reading(p, what, errors)
      PROVE TypeInv'
  BY <1>2 DEF Reading, Call, TypeInv, Running
<1>3. CASE Apt \/ Memory \/ Flags \/ Firewall
  BY <1>2, <1>3 DEF Apt, Memory, Flags, Firewall, Plugins
<1>4. CASE BeginCpu \/ EndCpu \/ BeginScripts \/ ScriptsReturn
  BY <1>4 DEF BeginCpu, EndCpu, BeginScripts, ScriptsReturn, Call, TypeInv, Running
<1>5. CASE UNCHANGED runVars
  BY <1>5 DEF runVars, TypeInv, Running
<1>6. CASE EndRun
  BY <1>6 DEF EndRun, TypeInv, Running
<1>7. CASE Crash
  BY <1>7 DEF Crash, TypeInv, Running
<1>8. CpuStep \/ ScriptStep \/ MachineStep \/ Finished
        => UNCHANGED runVars
  BY DEF CpuStep, ScriptStep, MachineStep, Finished, vars
<1> QED
  BY <1>1, <1>3, <1>4, <1>5, <1>6, <1>7, <1>8, Zenon DEF Next

\* What a step of the scripts plugin appends.
LEMMA ScriptAppends ==
    ASSUME ProgressInv, turn = "scripts", ReportOutput \/ ReportError
    PROVE \E errors \in Seq(AnyCall) :
              IsCall(errors, "scripts") /\ AllValid(errors) /\ AppendErrors(errors)
<1>1. script \in ScriptFiles
  BY DEF ProgressInv, ReportOutput, ReportError
<1>2. "output" \in Topics /\ "error" \in Topics /\ 65 \in 0..100 /\ 90 \in 0..100
  BY DEF Topics
<1>3. /\ IsCall(<<ScriptError("output", script, 65)>>, "scripts")
      /\ AllValid(<<ScriptError("output", script, 65)>>)
      /\ IsCall(<<ScriptError("error", script, 90)>>, "scripts")
      /\ AllValid(<<ScriptError("error", script, 90)>>)
  BY <1>1, <1>2, ScriptCall, Zenon
<1> QED
  BY <1>3, Zenon DEF ReportOutput, ReportError, IsCall

LEMMA CountsStep == ASSUME TypeInv, ProgressInv, CountsInv, Next PROVE CountsInv'
<1>1. CASE BeginRun
  <2>1. document' = <<>> /\ errorCount' = 0 /\ maxPriority' = 0
    BY <1>1 DEF BeginRun, ClearErrors
  <2>2. document' \in Seq(AnyError) /\ errorCount' = Len(document') /\ DOMAIN document' = {}
    BY <2>1
  <2> QED
    BY <2>1, <2>2 DEF CountsInv, Worst
<1>2. ASSUME NEW errors, errors \in Seq(AnyCall), AppendErrors(errors), Running,
             Running' => AllValid(errors)
      PROVE CountsInv'
  BY <1>2, AppendCounts, Zenon DEF CountsInv
<1>3. ASSUME NEW p, NEW what, NEW errors, IsCall(errors, p), Reading(p, what, errors)
      PROVE CountsInv'
  <2>1. Running /\ (Running' => AllValid(errors)) /\ AppendErrors(errors)
    BY <1>3 DEF Reading, Call, Running
  <2> QED
    BY <1>2, <1>3, <2>1, Zenon DEF IsCall
<1>4. CASE Apt
  BY <1>3, <1>4, AptCall, Zenon DEF Apt
<1>5. CASE Memory
  BY <1>3, <1>5, MemoryCall, Zenon DEF Memory
<1>6. CASE Flags
  BY <1>3, <1>6, FlagsCall, Zenon DEF Flags
<1>7. CASE Firewall
  BY <1>3, <1>7, FirewallCall, Zenon DEF Firewall
<1>8. ASSUME UNCHANGED errorVars, Running' => Running
      PROVE CountsInv'
  BY <1>8 DEF errorVars, CountsInv, Worst
<1>9. CASE BeginCpu \/ EndCpu \/ BeginScripts \/ ScriptsReturn \/ EndRun \/ Crash
           \/ Finished \/ MachineStep
  <2>1. UNCHANGED errorVars /\ (Running' => Running)
    BY <1>9 DEF BeginCpu, EndCpu, BeginScripts, ScriptsReturn, EndRun, Crash, Finished,
                MachineStep, Call, Running, vars, runVars, errorVars
  <2> QED
    BY <1>8, <2>1
<1>10. CASE CpuStep
  <2>1. Running
    BY <1>10 DEF CpuStep, Running
  <2>2. CASE UNCHANGED errorVars
    BY <1>8, <2>1, <2>2
  <2>3. CASE \E errors \in {<<>>, <<Error("cpu", "load", 100)>>} : AppendErrors(errors)
    BY <1>2, <2>1, <2>3, CpuCall, Zenon DEF IsCall
  <2> QED
    BY <1>10, <2>2, <2>3 DEF CpuStep
<1>11. CASE ScriptStep
  <2>1. Running
    BY <1>11 DEF ScriptStep, Running
  <2>2. CASE UNCHANGED errorVars
    BY <1>8, <2>1, <2>2
  <2>3. CASE ReportOutput \/ ReportError
    <3>1. turn = "scripts"
      BY <1>11 DEF ScriptStep
    <3> QED
      BY <1>2, <2>1, <2>3, <3>1, ScriptAppends, Zenon
  <2> QED
    BY <1>11, <2>2, <2>3 DEF ScriptStep
<1> QED
  BY <1>1, <1>4, <1>5, <1>6, <1>7, <1>9, <1>10, <1>11, Zenon DEF Next

\* A reading is one plugin's business.
LEMMA ReadingPlaces ==
    ASSUME TypeInv, CountsInv, NEW p \in Plugins, NEW what, NEW errors,
           IsCall(errors, p), Reading(p, what, errors), Running'
    PROVE /\ Running
          /\ \A q \in Plugins \ {p} : ErrorsOf(q)' = ErrorsOf(q) /\ seen'[q] = seen[q]
          /\ seen'[p] = {what}
          /\ ErrorsOf(p)' = {} => errors = <<>>
<1>1. /\ Running /\ AllValid(errors) /\ AppendErrors(errors)
      /\ seen' = [seen EXCEPT ![p] = {what}]
  BY DEF Reading, Call, Running
<1>2. /\ \A q : q # p => ErrorsOf(q)' = ErrorsOf(q)
      /\ errors # <<>> => ErrorsOf(p)' # {}
  BY <1>1, AppendPlaces, Zenon DEF IsCall
<1>3. seen'[p] = {what} /\ \A q \in Plugins \ {p} : seen'[q] = seen[q]
  BY <1>1 DEF TypeInv
<1> QED
  BY <1>1, <1>2, <1>3, Zenon

LEMMA SilentStep == ASSUME TypeInv, CountsInv, ProgressInv, SilentInv, Next PROVE SilentInv'
<1> SUFFICES ASSUME Running'
             PROVE (AptSilent /\ MemorySilent /\ FlagsSilent /\ FirewallSilent)'
  BY DEF SilentInv
<1> DEFINE Same(q) == ErrorsOf(q)' = ErrorsOf(q) /\ seen'[q] = seen[q]
<1>1. Running /\ Same("apt") => AptSilent'
  BY DEF SilentInv, AptSilent
<1>2. Running /\ Same("memory") => MemorySilent'
  BY DEF SilentInv, MemorySilent
<1>3. Running /\ Same("flags") => FlagsSilent'
  BY DEF SilentInv, FlagsSilent
<1>4. Running /\ Same("firewall") => FirewallSilent'
  BY DEF SilentInv, FirewallSilent
<1>5. {"apt", "memory", "flags", "firewall", "cpu", "scripts"} \subseteq Plugins
  BY DEF Plugins
<1>6. ASSUME NEW p \in {"cpu", "scripts"}, NEW errors \in Seq(AnyCall),
             IsCall(errors, p), AllValid(errors), AppendErrors(errors), Running,
             UNCHANGED seen
      PROVE (AptSilent /\ MemorySilent /\ FlagsSilent /\ FirewallSilent)'
  <2>1. \A q : q # p => ErrorsOf(q)' = ErrorsOf(q)
    BY <1>6, AppendPlaces, Zenon DEF IsCall
  <2>2. Same("apt") /\ Same("memory") /\ Same("flags") /\ Same("firewall")
    BY <1>6, <2>1
  <2> QED
    BY <1>1, <1>2, <1>3, <1>4, <1>6, <2>2
<1>7. ASSUME UNCHANGED <<document, seen>>, Running
      PROVE (AptSilent /\ MemorySilent /\ FlagsSilent /\ FirewallSilent)'
  <2>1. Same("apt") /\ Same("memory") /\ Same("flags") /\ Same("firewall")
    BY <1>7 DEF ErrorsOf
  <2> QED
    BY <1>1, <1>2, <1>3, <1>4, <1>7, <2>1
<1>8. CASE BeginRun
  BY <1>8 DEF BeginRun, NothingSeen, Plugins,
              AptSilent, MemorySilent, FlagsSilent, FirewallSilent
<1>9. CASE Apt
  <2>1. PICK file \in AptFiles : Reading("apt", file, AptErrors(file))
    BY <1>9 DEF Apt
  <2>2. /\ Running /\ Same("memory") /\ Same("flags") /\ Same("firewall")
        /\ seen'["apt"] = {file}
        /\ ErrorsOf("apt")' = {} => AptErrors(file) = <<>>
    BY <1>5, <2>1, AptCall, ReadingPlaces
  <2>3. AptSilent'
    BY <2>2, AptCall DEF AptSilent
  <2> QED
    BY <1>2, <1>3, <1>4, <2>2, <2>3
<1>10. CASE Memory
  <2>1. PICK info \in MemInfos : Reading("memory", info, MemoryErrors(info))
    BY <1>10 DEF Memory
  <2>2. /\ Running /\ Same("apt") /\ Same("flags") /\ Same("firewall")
        /\ seen'["memory"] = {info}
        /\ ErrorsOf("memory")' = {} => MemoryErrors(info) = <<>>
    BY <1>5, <2>1, MemoryCall, ReadingPlaces
  <2>3. MemorySilent'
    BY <2>2, MemoryCall DEF MemorySilent
  <2> QED
    BY <1>1, <1>3, <1>4, <2>2, <2>3
<1>11. CASE Flags
  <2>1. PICK list \in FlagLists : Reading("flags", list, FlagsErrors(list))
    BY <1>11 DEF Flags
  <2>2. /\ Running /\ Same("apt") /\ Same("memory") /\ Same("firewall")
        /\ seen'["flags"] = {list}
        /\ ErrorsOf("flags")' = {} => FlagsErrors(list) = <<>>
    BY <1>5, <2>1, FlagsCall, ReadingPlaces
  <2>3. FlagsSilent'
    BY <2>2, FlagsCall DEF FlagsSilent
  <2> QED
    BY <1>1, <1>2, <1>4, <2>2, <2>3
<1>12. CASE Firewall
  <2>1. PICK found \in BOOLEAN : Reading("firewall", found, FirewallErrors(found))
    BY <1>12 DEF Firewall
  <2>2. /\ Running /\ Same("apt") /\ Same("memory") /\ Same("flags")
        /\ seen'["firewall"] = {found}
        /\ ErrorsOf("firewall")' = {} => FirewallErrors(found) = <<>>
    BY <1>5, <2>1, FirewallCall, ReadingPlaces
  <2>3. FirewallSilent'
    BY <2>2, FirewallCall DEF FirewallSilent
  <2> QED
    BY <1>1, <1>2, <1>3, <2>2, <2>3
<1>13. CASE CpuStep
  <2>1. Running /\ UNCHANGED seen
    BY <1>13 DEF CpuStep, Running, runVars
  <2>2. CASE UNCHANGED errorVars
    BY <1>7, <2>1, <2>2 DEF errorVars
  <2>3. CASE \E errors \in {<<>>, <<Error("cpu", "load", 100)>>} : AppendErrors(errors)
    <3>1. PICK errors \in {<<>>, <<Error("cpu", "load", 100)>>} : AppendErrors(errors)
      BY <2>3
    <3>2. IsCall(errors, "cpu") /\ AllValid(errors) /\ errors \in Seq(AnyCall)
      BY <3>1, CpuCall, Zenon DEF IsCall
    <3> QED
      BY <1>6, <2>1, <3>1, <3>2, Zenon
  <2> QED
    BY <1>13, <2>2, <2>3 DEF CpuStep
<1>14. CASE ScriptStep
  <2>1. Running /\ turn = "scripts" /\ UNCHANGED seen
    BY <1>14 DEF ScriptStep, Running, runVars
  <2>2. CASE UNCHANGED errorVars
    BY <1>7, <2>1, <2>2 DEF errorVars
  <2>3. CASE ReportOutput \/ ReportError
    BY <1>6, <2>1, <2>3, ScriptAppends, Zenon
  <2> QED
    BY <1>14, <2>2, <2>3 DEF ScriptStep
<1>15. CASE BeginCpu \/ EndCpu \/ BeginScripts \/ ScriptsReturn \/ EndRun \/ Crash
           \/ Finished \/ MachineStep
  <2>1. UNCHANGED <<document, seen>> /\ Running
    BY <1>15 DEF BeginCpu, EndCpu, BeginScripts, ScriptsReturn, EndRun, Crash, Finished,
                 MachineStep, Call, Running, vars, runVars, errorVars
  <2> QED
    BY <1>7, <2>1
<1> QED
  BY <1>8, <1>9, <1>10, <1>11, <1>12, <1>13, <1>14, <1>15, Zenon DEF Next

\* No file is listed twice, so the head of the list is not in its tail.
LEMMA TailOfList ==
    ASSUME NEW S, NEW list \in Seq(S), list # <<>>,
           \A i, j \in DOMAIN list : list[i] = list[j] => i = j
    PROVE /\ Head(list) \in S /\ Head(list) = list[1] /\ 1 \in DOMAIN list
          /\ Tail(list) \in Seq(S)
          /\ \A i \in DOMAIN Tail(list) :
                i + 1 \in DOMAIN list /\ Tail(list)[i] = list[i + 1]
          /\ \A i, j \in DOMAIN Tail(list) : Tail(list)[i] = Tail(list)[j] => i = j
          /\ \A i \in DOMAIN Tail(list) : Tail(list)[i] # Head(list)
<1>1. /\ Head(list) \in S /\ Head(list) = list[1] /\ 1 \in DOMAIN list
      /\ Tail(list) \in Seq(S)
  OBVIOUS
<1>2. \A i \in DOMAIN Tail(list) :
            i \in Nat \ {0} /\ i + 1 \in DOMAIN list /\ Tail(list)[i] = list[i + 1]
  OBVIOUS
<1>3. \A i, j \in DOMAIN Tail(list) : Tail(list)[i] = Tail(list)[j] => i = j
  BY <1>2
<1>4. \A i \in DOMAIN Tail(list) : Tail(list)[i] # Head(list)
  BY <1>1, <1>2
<1> QED
  BY <1>1, <1>2, <1>3, <1>4

LEMMA ProgressStep == ASSUME TypeInv, ProgressInv, Next PROVE ProgressInv'
<1>1. CASE BeginScripts
  <2>1. PICK files \in Listings : GlobScripts(files)
    BY <1>1 DEF BeginScripts
  <2>2. files \in Seq(ScriptFiles) /\ \A i, j \in DOMAIN files : files[i] = files[j] => i = j
    BY RunAssumption
  <2>3. /\ result' = [s \in ScriptFiles |-> NotRun] /\ NotRun \in Results
        /\ queue' = files /\ step' = "next" /\ turn' = "scripts"
        /\ "scripts" \in loaded' \ todo'
    BY <1>1, <2>1 DEF BeginScripts, GlobScripts, Call, TypeInv, NotRun, Results
  <2>4. \A i \in DOMAIN queue' : result'[queue'[i]] = NotRun
    BY <2>2, <2>3
  <2> QED
    BY <2>2, <2>3, <2>4 DEF ProgressInv
<1>2. ASSUME StartScript, turn = "scripts", UNCHANGED <<turn, loaded, todo>>
      PROVE ProgressInv'
  <2>1. /\ Head(queue) \in ScriptFiles
        /\ queue' \in Seq(ScriptFiles)
        /\ \A i, j \in DOMAIN queue' : queue'[i] = queue'[j] => i = j
        /\ \A i \in DOMAIN queue' : queue'[i] # Head(queue)
        /\ \A i \in DOMAIN queue' : i + 1 \in DOMAIN queue /\ queue'[i] = queue[i + 1]
        /\ Head(queue) = queue[1] /\ 1 \in DOMAIN queue
    BY <1>2, TailOfList DEF StartScript, ProgressInv
  <2>2. UNCHANGED <<turn, loaded, todo, result>> /\ "scripts" \in loaded \ todo
    BY <1>2 DEF StartScript, ProgressInv
  <2>3. /\ \A i \in DOMAIN queue' : result'[queue'[i]] = NotRun
        /\ result[Head(queue)] = NotRun
    BY <1>2, <2>1, <2>2 DEF ProgressInv
  <2>4. \/ step' = "next"
        \/ step' = "wait" /\ script' = Head(queue)
    BY <1>2 DEF StartScript
  <2>5. result' \in [ScriptFiles -> Results]
    BY <2>2 DEF ProgressInv
  <2> QED
    BY <1>2, <2>1, <2>2, <2>3, <2>4, <2>5 DEF ProgressInv
<1>3. ASSUME EndScript, turn = "scripts", UNCHANGED <<turn, loaded, todo>>
      PROVE ProgressInv'
  BY <1>3 DEF EndScript, ProgressInv
<1>4. ASSUME SkipOutput \/ WriteOutput(run) \/ SkipError \/ WriteError(run)
                \/ ReportOutput \/ ReportError,
             turn = "scripts", UNCHANGED <<turn, loaded, todo>>
      PROVE ProgressInv'
  <2>1. UNCHANGED <<queue, script, result>>
    BY <1>4 DEF SkipOutput, WriteOutput, SkipError, WriteError, ReportOutput, ReportError
  <2>2. /\ step \notin {"off", "next", "wait"}
        /\ step' \in {"next", "output", "report_output", "error", "report_error"}
        /\ step' = "report_output" => result[script].failed /\ result[script].output
        /\ step' = "report_error" => result[script].error
    BY <1>4 DEF SkipOutput, WriteOutput, SkipError, WriteError, ReportOutput, ReportError
  <2> QED
    BY <1>4, <2>1, <2>2 DEF ProgressInv
<1>5. CASE ScriptStep
  <2>1. turn = "scripts" /\ UNCHANGED <<turn, loaded, todo>>
    BY <1>5 DEF ScriptStep, runVars
  <2> QED
    BY <1>2, <1>3, <1>4, <1>5, <2>1 DEF ScriptStep
<1>6. CASE ScriptsReturn
  BY <1>6 DEF ScriptsReturn, EndScripts, ProgressInv
<1>7. CASE Crash
  <2>1. /\ turn' = "none" /\ step' = "off" /\ UNCHANGED result
        /\ queue' \in Seq(ScriptFiles) /\ DOMAIN queue' = {}
    BY <1>7 DEF Crash
  <2> QED
    BY <2>1 DEF ProgressInv
<1>8. ASSUME UNCHANGED scriptVars, turn # "scripts", turn' # "scripts" PROVE ProgressInv'
  BY <1>8 DEF scriptVars, ProgressInv
<1>9. CASE CpuStep \/ EndCpu \/ EndRun \/ BeginRun
  BY <1>8, <1>9 DEF CpuStep, EndCpu, EndRun, BeginRun, runVars
<1>10. CASE BeginCpu
  BY <1>8, <1>10 DEF BeginCpu, Call
<1>11. ASSUME NEW p, NEW what, NEW errors, Reading(p, what, errors) PROVE ProgressInv'
  BY <1>8, <1>11 DEF Reading, Call
<1>12. CASE Apt \/ Memory \/ Flags \/ Firewall
  BY <1>11, <1>12, Zenon DEF Apt, Memory, Flags, Firewall
<1>13. CASE MachineStep \/ Finished
  BY <1>13 DEF MachineStep, Finished, vars, runVars, scriptVars, ProgressInv
<1> QED
  BY <1>1, <1>5, <1>6, <1>7, <1>9, <1>10, <1>12, <1>13, Zenon DEF Next

\* What is reported of the scripts is kept by whatever the others append.
ReportsKept ==
    /\ ErrorsOf("scripts")' = ErrorsOf("scripts")
    /\ \A about, s : Reported(about, s)' = Reported(about, s)
    /\ DOMAIN document \subseteq DOMAIN document'

LEMMA OthersKeepReports ==
    ASSUME TypeInv, ProgressInv, CountsInv, Next, Running', ~BeginRun,
           ~(turn = "scripts" /\ (ReportOutput \/ ReportError))
    PROVE Running /\ ReportsKept
<1>1. ASSUME UNCHANGED document PROVE ReportsKept
  BY <1>1 DEF ReportsKept, Reported, ErrorsOf
<1>2. ASSUME NEW p \in Plugins \ {"scripts"}, NEW errors, IsCall(errors, p),
             AllValid(errors), AppendErrors(errors)
      PROVE ReportsKept
  <2>1. /\ ErrorsOf("scripts")' = ErrorsOf("scripts")
        /\ \A i \in DOMAIN document : i \in DOMAIN document' /\ document'[i] = document[i]
    <3>1. /\ \A q : q # p => ErrorsOf(q)' = ErrorsOf(q)
          /\ \A i \in DOMAIN document : i \in DOMAIN document' /\ document'[i] = document[i]
      BY <1>2, AppendPlaces, Zenon DEF IsCall
    <3> QED
      BY <3>1
  <2>2. ErrorsOf("scripts") \subseteq DOMAIN document
    BY DEF ErrorsOf
  <2> QED
    BY <2>1, <2>2 DEF ReportsKept, Reported
<1>3. ASSUME NEW p \in Plugins \ {"scripts"}, NEW what, NEW errors,
             IsCall(errors, p), Reading(p, what, errors)
      PROVE Running /\ ReportsKept
  <2>1. Running /\ AllValid(errors) /\ AppendErrors(errors)
    BY <1>3 DEF Reading, Call, Running
  <2> QED
    BY <1>2, <1>3, <2>1
<1>4. {"apt", "memory", "flags", "firewall", "cpu"} \subseteq Plugins \ {"scripts"}
  BY DEF Plugins
<1>5. CASE Apt
  BY <1>3, <1>4, <1>5, AptCall DEF Apt
<1>6. CASE Memory
  BY <1>3, <1>4, <1>6, MemoryCall DEF Memory
<1>7. CASE Flags
  BY <1>3, <1>4, <1>7, FlagsCall DEF Flags
<1>8. CASE Firewall
  BY <1>3, <1>4, <1>8, FirewallCall DEF Firewall
<1>9. CASE CpuStep
  <2>1. Running
    BY <1>9 DEF CpuStep, Running
  <2>2. CASE UNCHANGED errorVars
    BY <1>1, <2>1, <2>2 DEF errorVars
  <2>3. CASE \E errors \in {<<>>, <<Error("cpu", "load", 100)>>} : AppendErrors(errors)
    BY <1>2, <1>4, <2>1, <2>3, CpuCall
  <2> QED
    BY <1>9, <2>2, <2>3 DEF CpuStep
<1>10. CASE ScriptStep \/ BeginCpu \/ EndCpu \/ BeginScripts \/ ScriptsReturn \/ EndRun
            \/ Crash \/ Finished \/ MachineStep
  <2>1. UNCHANGED document /\ Running
    BY <1>10 DEF ScriptStep, BeginCpu, EndCpu, BeginScripts, ScriptsReturn, EndRun, Crash,
                 Finished, MachineStep, Call, Running, vars, runVars, errorVars
  <2> QED
    BY <1>1, <2>1
<1> QED
  BY <1>5, <1>6, <1>7, <1>8, <1>9, <1>10, Zenon DEF Next

\* An error of a script is one more place in the document, for that script alone.
LEMMA ScriptReported ==
    ASSUME CountsInv, NEW about \in Topics, NEW s \in ScriptFiles, NEW priority \in 0..100,
           AppendErrors(<<ScriptError(about, s, priority)>>)
    PROVE /\ \A a, x : a # about \/ x # s => Reported(a, x)' = Reported(a, x)
          /\ Reported(about, s)' = Reported(about, s) \cup {Len(document) + 1}
          /\ DOMAIN document \subseteq DOMAIN document'
          /\ Len(document) + 1 \in DOMAIN document'
<1> DEFINE e == ScriptError(about, s, priority)
<1>1. /\ e.plugin = "scripts" /\ e.about = about /\ e.subject = s
  BY DEF ScriptError
<1>2. IsCall(<<e>>, "scripts") /\ AllValid(<<e>>)
  BY ScriptCall
<1> HIDE DEF e
<1>3. document' = document \o <<e>>
  BY <1>2 DEF AppendErrors, e
<1>4. document \in Seq(AnyError) /\ <<e>> \in Seq(AnyError)
  BY <1>2, ValidErrors DEF CountsInv, IsCall
<1>5. Extends(document', document, <<e>>)
  BY <1>3, <1>4, Appended, Zenon
<1>6. /\ \A i \in DOMAIN document : i \in DOMAIN document' /\ document'[i] = document[i]
      /\ Len(document) + 1 \in DOMAIN document' /\ document'[Len(document) + 1] = e
      /\ \A k \in DOMAIN document' : k \in DOMAIN document \/ k = Len(document) + 1
      /\ Len(document) + 1 \notin DOMAIN document
  <2>1. DOMAIN <<e>> = {1} /\ <<e>>[1] = e
    OBVIOUS
  <2>2. Len(document) + 1 \notin DOMAIN document
    BY <1>4
  <2> QED
    BY <1>5, <2>1, <2>2 DEF Extends
<1> QED
  BY <1>1, <1>6 DEF Reported, ErrorsOf

\* What is due is what is reported: a script owes a report from the moment it is judged
\* to the moment its report is in the document, and then owes nothing.
LEMMA JudgedStep ==
    ASSUME TypeInv, ProgressInv, CountsInv, JudgedInv, Next PROVE JudgedInv'
<1> SUFFICES ASSUME Running' PROVE JudgedInv'
  BY DEF JudgedInv
<1> DEFINE Done == "scripts" \in loaded \ todo
           Judged(s) == /\ Settled(Reported("output", s), OutputDue(s))
                        /\ Settled(Reported("error", s), ErrorDue(s))
<1>1. CASE BeginRun
  <2>1. document' = <<>> /\ todo' = loaded' /\ DOMAIN document' = {}
    BY <1>1 DEF BeginRun, ClearErrors
  <2> QED
    BY <2>1 DEF JudgedInv, ErrorsOf
\* A script for which nothing was due or becomes due.
<1>2. ASSUME ReportsKept, NEW s \in ScriptFiles, Judged(s),
             OutputDue(s)' = OutputDue(s), ErrorDue(s)' = ErrorDue(s)
      PROVE Judged(s)'
  BY <1>2 DEF ReportsKept, Settled
<1>3. ASSUME Running, ReportsKept, Done' <=> Done,
             \A s \in ScriptFiles :
                OutputDue(s)' = OutputDue(s) /\ ErrorDue(s)' = ErrorDue(s)
      PROVE JudgedInv'
  <2>1. CASE Done
    <3>1. \A s \in ScriptFiles : Judged(s)
      BY <1>3, <2>1 DEF JudgedInv
    <3>2. \A s \in ScriptFiles : Judged(s)'
      BY <1>2, <1>3, <3>1
    <3> QED
      BY <1>3, <2>1, <3>2 DEF JudgedInv
  <2>2. CASE ~Done
    BY <1>3, <2>2 DEF JudgedInv, ReportsKept
  <2> QED
    BY <2>1, <2>2
<1>4. CASE BeginScripts
  <2>1. ReportsKept /\ ErrorsOf("scripts") = {}
    <3>1. ~BeginRun /\ ~(turn = "scripts") /\ Running /\ "scripts" \in todo
      BY <1>4 DEF BeginScripts, BeginRun, Call, Running
    <3> QED
      BY <3>1, OthersKeepReports DEF JudgedInv
  <2>2. /\ Done' /\ \A s \in ScriptFiles : result'[s] = NotRun
    BY <1>4 DEF BeginScripts, GlobScripts, Call, TypeInv
  <2>3. \A s \in ScriptFiles : ~OutputDue(s)' /\ ~ErrorDue(s)'
    BY <2>2 DEF OutputDue, ErrorDue, NotRun
  <2>4. \A a, s : Reported(a, s)' = {}
    BY <2>1 DEF ReportsKept, Reported
  <2> QED
    BY <2>2, <2>3, <2>4 DEF JudgedInv, Settled
<1>5. ASSUME turn = "scripts", UNCHANGED <<turn, loaded, todo>>, UNCHANGED document,
             StartScript \/ EndScript
                \/ SkipOutput \/ WriteOutput(run) \/ SkipError \/ WriteError(run)
      PROVE JudgedInv'
  <2>1. ReportsKept /\ Running /\ (Done' <=> Done)
    BY <1>5 DEF ReportsKept, Reported, ErrorsOf, Running
  <2>2. CASE StartScript
    <3>1. /\ step = "next" /\ UNCHANGED result
          /\ \/ UNCHANGED <<script, step>>
             \/ script' = Head(queue) /\ step' = "wait"
      BY <2>2 DEF StartScript
    <3>2. \A s \in ScriptFiles :
                OutputDue(s)' = OutputDue(s) /\ ErrorDue(s)' = ErrorDue(s)
      BY <3>1 DEF OutputDue, ErrorDue
    <3> QED
      BY <1>3, <2>1, <3>2
  <2>3. CASE EndScript
    <3>1. /\ step = "wait" /\ step' = "output" /\ UNCHANGED script
          /\ \A s \in ScriptFiles : s # script => result'[s] = result[s]
          /\ result[script] = NotRun
      BY <2>3 DEF EndScript, ProgressInv
    <3>2. \A s \in ScriptFiles :
                OutputDue(s)' = OutputDue(s) /\ ErrorDue(s)' = ErrorDue(s)
      BY <3>1 DEF OutputDue, ErrorDue, NotRun
    <3> QED
      BY <1>3, <2>1, <3>2
  <2>4. CASE SkipOutput \/ WriteOutput(run) \/ SkipError \/ WriteError(run)
    <3>1. /\ UNCHANGED <<script, result>>
          /\ \/ step = "output" /\ step' = "error"
                /\ ~(result[script].failed /\ result[script].output)
             \/ step = "output" /\ step' = "report_output"
             \/ step = "error" /\ step' = "next" /\ ~result[script].error
             \/ step = "error" /\ step' = "report_error"
      BY <2>4 DEF SkipOutput, WriteOutput, SkipError, WriteError
    <3>2. \A s \in ScriptFiles :
                OutputDue(s)' = OutputDue(s) /\ ErrorDue(s)' = ErrorDue(s)
      BY <3>1 DEF OutputDue, ErrorDue
    <3> QED
      BY <1>3, <2>1, <3>2
  <2> QED
    BY <1>5, <2>2, <2>3, <2>4
<1>6. ASSUME turn = "scripts", UNCHANGED <<turn, loaded, todo>>, ReportOutput
      PROVE JudgedInv'
  <2>1. /\ step = "report_output" /\ step' = "error" /\ UNCHANGED <<script, result>>
        /\ AppendErrors(<<ScriptError("output", script, 65)>>)
    BY <1>6 DEF ReportOutput
  <2>2. script \in ScriptFiles /\ result[script].failed /\ result[script].output
    BY <2>1 DEF ProgressInv
  <2>3. PICK s \in ScriptFiles : s = script
    BY <2>2
  <2>4. /\ \A a, x : a # "output" \/ x # s => Reported(a, x)' = Reported(a, x)
        /\ Reported("output", s)' = Reported("output", s) \cup {Len(document) + 1}
        /\ DOMAIN document \subseteq DOMAIN document'
        /\ Len(document) + 1 \in DOMAIN document'
    <3>1. "output" \in Topics /\ 65 \in 0..100
      BY DEF Topics
    <3>2. AppendErrors(<<ScriptError("output", s, 65)>>)
      BY <2>1, <2>3
    <3> QED
      BY <3>1, <3>2, ScriptReported, Zenon
  <2> QED
    BY <1>6, <2>1, <2>2, <2>3, <2>4 DEF JudgedInv, Running, ProgressInv,
                                        Settled, OutputDue, ErrorDue
<1>7. ASSUME turn = "scripts", UNCHANGED <<turn, loaded, todo>>, ReportError
      PROVE JudgedInv'
  <2>1. /\ step = "report_error" /\ step' = "next" /\ UNCHANGED <<script, result>>
        /\ AppendErrors(<<ScriptError("error", script, 90)>>)
    BY <1>7 DEF ReportError
  <2>2. script \in ScriptFiles /\ result[script].error
    BY <2>1 DEF ProgressInv
  <2>3. PICK s \in ScriptFiles : s = script
    BY <2>2
  <2>4. /\ \A a, x : a # "error" \/ x # s => Reported(a, x)' = Reported(a, x)
        /\ Reported("error", s)' = Reported("error", s) \cup {Len(document) + 1}
        /\ DOMAIN document \subseteq DOMAIN document'
        /\ Len(document) + 1 \in DOMAIN document'
    <3>1. "error" \in Topics /\ 90 \in 0..100
      BY DEF Topics
    <3>2. AppendErrors(<<ScriptError("error", s, 90)>>)
      BY <2>1, <2>3
    <3> QED
      BY <3>1, <3>2, ScriptReported, Zenon
  <2> QED
    BY <1>7, <2>1, <2>2, <2>3, <2>4 DEF JudgedInv, Running, ProgressInv,
                                        Settled, OutputDue, ErrorDue
<1>8. CASE ScriptStep
  <2>1. turn = "scripts" /\ UNCHANGED <<turn, loaded, todo>>
    BY <1>8 DEF ScriptStep, runVars
  <2>2. \/ UNCHANGED errorVars
           /\ (StartScript \/ EndScript
                \/ SkipOutput \/ WriteOutput(run) \/ SkipError \/ WriteError(run))
        \/ ReportOutput \/ ReportError
    BY <1>8 DEF ScriptStep
  <2> QED
    BY <1>5, <1>6, <1>7, <2>1, <2>2 DEF errorVars
\* The other plugins leave the scripts alone.
<1>9. ASSUME ~BeginRun, turn # "scripts" \/ ScriptsReturn, Done' <=> Done,
             UNCHANGED <<result, script>>, step' = step \/ ScriptsReturn
      PROVE JudgedInv'
  <2>1. ~(turn = "scripts" /\ (ReportOutput \/ ReportError))
    BY <1>9 DEF ScriptsReturn, EndScripts, ReportOutput, ReportError
  <2>2. ReportsKept /\ Running
    BY <1>9, <2>1, OthersKeepReports
  <2>3. step' = step \/ (step = "next" /\ step' = "off")
    BY <1>9 DEF ScriptsReturn, EndScripts
  <2>4. \A s \in ScriptFiles :
            OutputDue(s)' = OutputDue(s) /\ ErrorDue(s)' = ErrorDue(s)
    BY <1>9, <2>3 DEF OutputDue, ErrorDue
  <2> QED
    BY <1>3, <1>9, <2>2, <2>4
<1>10. ASSUME NEW p \in Plugins \ {"scripts"}, NEW what, NEW errors, Reading(p, what, errors)
       PROVE JudgedInv'
  <2>1. /\ ~BeginRun /\ turn # "scripts" /\ (Done' <=> Done)
        /\ UNCHANGED <<result, script, step>>
    BY <1>10 DEF Reading, Call, BeginRun, scriptVars
  <2> QED
    BY <1>9, <2>1
<1>11. CASE Apt \/ Memory \/ Flags \/ Firewall
  <2>1. {"apt", "memory", "flags", "firewall"} \subseteq Plugins \ {"scripts"}
    BY DEF Plugins
  <2> QED
    BY <1>10, <1>11, <2>1 DEF Apt, Memory, Flags, Firewall
<1>12. CASE BeginCpu \/ CpuStep \/ EndCpu
  <2>1. /\ ~BeginRun /\ turn # "scripts" /\ (Done' <=> Done)
        /\ UNCHANGED <<result, script, step>>
    BY <1>12 DEF BeginCpu, CpuStep, EndCpu, Call, BeginRun, scriptVars, runVars
  <2> QED
    BY <1>9, <2>1
<1>13. CASE ScriptsReturn
  <2>1. /\ ~BeginRun /\ (Done' <=> Done) /\ UNCHANGED <<result, script>>
    BY <1>13 DEF ScriptsReturn, EndScripts, BeginRun
  <2> QED
    BY <1>9, <1>13, <2>1
<1>14. CASE EndRun \/ Crash
  BY <1>14 DEF EndRun, Crash, Running
<1>15. CASE MachineStep \/ Finished
  <2>1. UNCHANGED <<runVars, errorVars, scriptVars>>
    BY <1>15 DEF MachineStep, Finished, vars
  <2>2. ReportsKept /\ Running /\ (Done' <=> Done)
    BY <2>1 DEF ReportsKept, Reported, ErrorsOf, Running, runVars, errorVars
  <2>3. \A s \in ScriptFiles :
            OutputDue(s)' = OutputDue(s) /\ ErrorDue(s)' = ErrorDue(s)
    BY <2>1 DEF OutputDue, ErrorDue, scriptVars
  <2> QED
    BY <1>3, <2>2, <2>3
<1> QED
  BY <1>1, <1>4, <1>8, <1>11, <1>12, <1>13, <1>14, <1>15, Zenon DEF Next

\* A log that is not written stays true: its report is kept in the document, or the one
\* that was about to be made is made.
LEMMA LogKept ==
    ASSUME TypeInv, NEW log, NEW about, NEW reporting, LogInv(log, about, reporting),
           UNCHANGED <<run, sent, mailed>>,
           Running' => Running /\ \A s : Reported(about, s) # {} => Reported(about, s)' # {},
           Running' /\ step = reporting /\ script = log[1] =>
                \/ Reported(about, log[1])' # {}
                \/ step' = reporting /\ script' = log[1]
    PROVE LogInv(log, about, reporting)'
BY Zenon DEF LogInv

\* A script that is not about to be reported leaves both logs true.
LEMMA LogsKept ==
    ASSUME TypeInv, LogsInv, UNCHANGED <<run, sent, mailed, outputLog, errorLog>>,
           Running' => Running /\ ReportsKept,
           UNCHANGED <<step, script>> \/ step \notin {"report_output", "report_error"}
    PROVE LogsInv'
<1> SUFFICES ASSUME NEW log \in {outputLog, errorLog}
             PROVE /\ log = outputLog => LogInv(log, "output", "report_output")'
                   /\ log = errorLog => LogInv(log, "error", "report_error")'
  BY DEF LogsInv
<1>1. /\ log = outputLog => LogInv(log, "output", "report_output")
      /\ log = errorLog => LogInv(log, "error", "report_error")
  BY DEF LogsInv
<1>2. Running' => Running /\ \A about, s : Reported(about, s) # {} => Reported(about, s)' # {}
  BY DEF ReportsKept
<1> QED
  BY <1>1, <1>2, LogKept

LEMMA LogsStep ==
    ASSUME TypeInv, ProgressInv, CountsInv, LogsInv, Next PROVE LogsInv'
<1>1. CASE BeginRun
  <2>1. run' = run + 1 /\ UNCHANGED <<sent, mailed, outputLog, errorLog>>
    BY <1>1 DEF BeginRun, scriptVars
  <2> QED
    BY <2>1 DEF LogsInv, LogInv, TypeInv
<1>2. CASE EndRun
  <2>1. /\ step = "off" /\ Running /\ ~Running'
        /\ \/ sent' = sent /\ mailed' = mailed
           \/ sent' = sent \cup {run} /\ mailed' = mailed \cup ScriptErrors
        /\ UNCHANGED <<run, outputLog, errorLog>>
    BY <1>2 DEF EndRun, ProgressInv, Running, scriptVars
  <2>2. ASSUME NEW log, NEW about, NEW reporting \in {"report_output", "report_error"},
               LogInv(log, about, reporting)
        PROVE LogInv(log, about, reporting)'
    <3>1. log[2] = run => <<about, log[1], log[2]>> \in ScriptErrors
      <4> SUFFICES ASSUME log[2] = run PROVE <<about, log[1], log[2]>> \in ScriptErrors
        OBVIOUS
      <4>1. PICK i : i \in Reported(about, log[1])
        BY <2>1, <2>2 DEF LogInv
      <4> QED
        BY <4>1 DEF ScriptErrors, Reported
    <3> QED
      BY <2>1, <2>2, <3>1 DEF LogInv
  <2> QED
    BY <2>1, <2>2 DEF LogsInv
<1>3. CASE Crash
  <2>1. ~Running' /\ UNCHANGED <<run, sent, mailed, outputLog, errorLog>>
    BY <1>3 DEF Crash, Running
  <2> QED
    BY <2>1 DEF LogsInv, LogInv
<1>4. ASSUME ScriptStep PROVE LogsInv'
  <2>1. /\ turn = "scripts" /\ Running /\ UNCHANGED <<run, sent, mailed>>
        /\ Running'
    BY <1>4 DEF ScriptStep, runVars, Running
  <2>2. CASE UNCHANGED errorVars /\ (StartScript \/ EndScript \/ SkipOutput \/ SkipError)
    <3>1. /\ ReportsKept /\ UNCHANGED <<outputLog, errorLog>>
          /\ step \notin {"report_output", "report_error"}
      BY <2>2 DEF ReportsKept, Reported, ErrorsOf, errorVars,
                  StartScript, EndScript, SkipOutput, SkipError
    <3> QED
      BY <2>1, <3>1, LogsKept
  <2>3. run \in 1..run /\ run \notin sent /\ 0 \notin sent /\ run # 0
    BY <2>1 DEF TypeInv
  <2>4. CASE UNCHANGED errorVars /\ WriteOutput(run)
    <3>1. /\ step = "output" /\ step' = "report_output" /\ UNCHANGED <<script, errorLog>>
          /\ outputLog' \in {<<script, run>>, outputLog, NoLog}
      BY <2>4 DEF WriteOutput, WriteLog
    <3>2. \A a, s : Reported(a, s)' = Reported(a, s)
      BY <2>4 DEF Reported, ErrorsOf, errorVars
    <3>3. ASSUME NEW log \in {outputLog', errorLog'}, log = outputLog'
          PROVE LogInv(log, "output", "report_output")'
      <4>1. CASE log = <<script, run>>
        BY <2>1, <2>3, <3>1, <4>1 DEF LogInv
      <4>2. CASE log = NoLog
        BY <2>1, <2>3, <4>2 DEF LogInv, NoLog
      <4>3. CASE log = outputLog
        <5>1. LogInv(log, "output", "report_output")
          BY <4>3 DEF LogsInv
        <5> QED
          BY <2>1, <3>1, <3>2, <5>1, LogKept
      <4> QED
        BY <3>1, <3>3, <4>1, <4>2, <4>3
    <3>4. ASSUME NEW log \in {outputLog', errorLog'}, log = errorLog'
          PROVE LogInv(log, "error", "report_error")'
      <4>1. LogInv(log, "error", "report_error")
        BY <3>1, <3>4 DEF LogsInv
      <4> QED
        BY <2>1, <3>1, <3>2, <4>1, LogKept
    <3> QED
      BY <3>3, <3>4 DEF LogsInv
  <2>5. CASE UNCHANGED errorVars /\ WriteError(run)
    <3>1. /\ step = "error" /\ step' = "report_error" /\ UNCHANGED <<script, outputLog>>
          /\ errorLog' \in {<<script, run>>, errorLog, NoLog}
      BY <2>5 DEF WriteError, WriteLog
    <3>2. \A a, s : Reported(a, s)' = Reported(a, s)
      BY <2>5 DEF Reported, ErrorsOf, errorVars
    <3>3. ASSUME NEW log \in {outputLog', errorLog'}, log = errorLog'
          PROVE LogInv(log, "error", "report_error")'
      <4>1. CASE log = <<script, run>>
        BY <2>1, <2>3, <3>1, <4>1 DEF LogInv
      <4>2. CASE log = NoLog
        BY <2>1, <2>3, <4>2 DEF LogInv, NoLog
      <4>3. CASE log = errorLog
        <5>1. LogInv(log, "error", "report_error")
          BY <4>3 DEF LogsInv
        <5> QED
          BY <2>1, <3>1, <3>2, <5>1, LogKept
      <4> QED
        BY <3>1, <3>3, <4>1, <4>2, <4>3
    <3>4. ASSUME NEW log \in {outputLog', errorLog'}, log = outputLog'
          PROVE LogInv(log, "output", "report_output")'
      <4>1. LogInv(log, "output", "report_output")
        BY <3>1, <3>4 DEF LogsInv
      <4> QED
        BY <2>1, <3>1, <3>2, <4>1, LogKept
    <3> QED
      BY <3>3, <3>4 DEF LogsInv
  <2>6. ASSUME NEW about \in Topics, NEW priority \in 0..100,
               AppendErrors(<<ScriptError(about, script, priority)>>),
               \/ step = "report_output" /\ about = "output"
               \/ step = "report_error" /\ about = "error",
               UNCHANGED <<outputLog, errorLog>>
        PROVE LogsInv'
    <3>1. script \in ScriptFiles
      BY <2>6 DEF ProgressInv
    <3>2. PICK s \in ScriptFiles : s = script
      BY <3>1
    <3>3. /\ \A a, x : a # about \/ x # s => Reported(a, x)' = Reported(a, x)
          /\ Reported(about, s)' = Reported(about, s) \cup {Len(document) + 1}
      <4>1. AppendErrors(<<ScriptError(about, s, priority)>>)
        BY <2>6, <3>2
      <4> QED
        BY <4>1, ScriptReported, Zenon
    <3>4. /\ \A a, x : Reported(a, x) # {} => Reported(a, x)' # {}
          /\ Reported(about, s)' # {}
      BY <3>3
    <3>5. ASSUME NEW log \in {outputLog', errorLog'}, log = outputLog'
          PROVE LogInv(log, "output", "report_output")'
      <4>1. LogInv(log, "output", "report_output")
        BY <2>6, <3>5 DEF LogsInv
      <4>2. step = "report_output" /\ script = log[1] => Reported("output", log[1])' # {}
        BY <2>6, <3>2, <3>4
      <4> QED
        BY <2>1, <3>4, <4>1, <4>2, LogKept
    <3>6. ASSUME NEW log \in {outputLog', errorLog'}, log = errorLog'
          PROVE LogInv(log, "error", "report_error")'
      <4>1. LogInv(log, "error", "report_error")
        BY <2>6, <3>6 DEF LogsInv
      <4>2. step = "report_error" /\ script = log[1] => Reported("error", log[1])' # {}
        BY <2>6, <3>2, <3>4
      <4> QED
        BY <2>1, <3>4, <4>1, <4>2, LogKept
    <3> QED
      BY <3>5, <3>6 DEF LogsInv
  <2>7. CASE ReportOutput \/ ReportError
    <3>1. "output" \in Topics /\ "error" \in Topics /\ 65 \in 0..100 /\ 90 \in 0..100
      BY DEF Topics
    <3>2. CASE ReportOutput
      <4>1. /\ AppendErrors(<<ScriptError("output", script, 65)>>) /\ step = "report_output"
            /\ UNCHANGED <<outputLog, errorLog>>
        BY <3>2 DEF ReportOutput
      <4> QED
        BY <2>6, <3>1, <4>1, Zenon
    <3>3. CASE ReportError
      <4>1. /\ AppendErrors(<<ScriptError("error", script, 90)>>) /\ step = "report_error"
            /\ UNCHANGED <<outputLog, errorLog>>
        BY <3>3 DEF ReportError
      <4> QED
        BY <2>6, <3>1, <4>1, Zenon
    <3> QED
      BY <2>7, <3>2, <3>3
  <2> QED
    BY <1>4, <2>2, <2>4, <2>5, <2>7 DEF ScriptStep
\* The other plugins write no log.
<1>5. ASSUME ~BeginRun, turn # "scripts" \/ ScriptsReturn,
             UNCHANGED <<run, sent, mailed, outputLog, errorLog>>,
             UNCHANGED <<step, script>> \/ step \in {"off", "next"}
      PROVE LogsInv'
  <2>1. ~(turn = "scripts" /\ (ReportOutput \/ ReportError))
    BY <1>5 DEF ScriptsReturn, EndScripts, ReportOutput, ReportError
  <2>2. Running' => Running /\ ReportsKept
    BY <1>5, <2>1, OthersKeepReports
  <2> QED
    BY <1>5, <2>2, LogsKept
<1>6. ASSUME NEW p, NEW what, NEW errors, Reading(p, what, errors) PROVE LogsInv'
  BY <1>5, <1>6 DEF Reading, Call, BeginRun, scriptVars
<1>7. CASE Apt \/ Memory \/ Flags \/ Firewall
  BY <1>6, <1>7, Zenon DEF Apt, Memory, Flags, Firewall
<1>8. CASE BeginCpu \/ CpuStep \/ EndCpu
  BY <1>5, <1>8 DEF BeginCpu, CpuStep, EndCpu, Call, BeginRun, scriptVars, runVars
<1>9. CASE BeginScripts
  BY <1>5, <1>9 DEF BeginScripts, GlobScripts, Call, BeginRun
<1>10. CASE ScriptsReturn
  BY <1>5, <1>10 DEF ScriptsReturn, EndScripts, BeginRun
<1>11. CASE MachineStep \/ Finished
  <2>1. UNCHANGED <<runVars, errorVars, scriptVars>>
    BY <1>11 DEF MachineStep, Finished, vars
  <2>2. Running' => Running /\ ReportsKept
    BY <2>1 DEF ReportsKept, Reported, ErrorsOf, Running, runVars, errorVars
  <2> QED
    BY <2>1, <2>2, LogsKept DEF runVars, scriptVars
<1> QED
  BY <1>1, <1>2, <1>3, <1>4, <1>7, <1>8, <1>9, <1>10, <1>11, Zenon DEF Next

-----------------------------------------------------------------------------
(* The values of /proc *)

LEMMA FilesOfValues ==
    /\ Len(Asking) = 15 /\ DOMAIN Asking = 1..15
    /\ \A i \in 1..15 : FileOf(Asking[i]) \in Files
<1>1. Len(Asking) = 15 /\ DOMAIN Asking = 1..15
  BY DEF Asking
<1>2. ASSUME NEW i \in 1..15 PROVE FileOf(Asking[i]) \in Files
  <2>1. Asking[i] \in {"uptime", "idle", "avg1", "avg5", "avg15", "cpu", "boot_time",
                       "processes", "running", "blocked",
                       "page_in", "page_out", "swap_in", "swap_out"}
    BY DEF Asking
  <2> HIDE DEF Asking
  <2> QED
    BY <2>1 DEF FileOf, Files
<1> QED
  BY <1>1, <1>2

\* What a file returns once it is defined is what it holds, or nothing.
LEMMA AskStep == ASSUME StatsInv, AskNext PROVE StatsInv'
<1> DEFINE value == Asking[asked + 1]
           file == FileOf(value)
<1>1. asked + 1 \in 1..15 /\ file \in Files
  BY FilesOfValues DEF AskNext, StatsInv
<1> HIDE DEF file, value
<1>2. PICK reading \in Load(file) :
        /\ held' = [held EXCEPT ![file] = reading]
        /\ defined' = defined \cup {file}
        /\ answer' = [answer EXCEPT ![asked + 1] = Get(value, reading)]
  BY DEF AskNext, file, value
<1>3. asked' = asked + 1 /\ moment' = moment
  BY DEF AskNext
<1>4. reading \in Nat
  BY <1>1, <1>2 DEF StatsInv, Load, LoadOnce, LoadMap, Unread
<1>5. Get(value, reading) \in {reading, Unread, Indeterminate} /\ Get(value, reading) \in Int
  BY <1>4 DEF Get, Unread, Indeterminate
<1>6. /\ \A i \in 1..asked : answer'[i] = answer[i]
      /\ answer'[asked + 1] = Get(value, reading)
      /\ answer' \in [DOMAIN Asking -> Int]
  BY <1>1, <1>2, <1>5, FilesOfValues DEF StatsInv
<1>7. \A f \in Files \ {file} : Readings(f)' = Readings(f)
  BY <1>3, <1>6 DEF Readings, StatsInv, file, value
<1>8. PICK f \in Files : f = file
  BY <1>1
<1>9. /\ Readings(f) \subseteq Readings(f)'
      /\ Readings(f)' \subseteq Readings(f) \cup ({reading} \ {Unread, Indeterminate})
  <2>1. \A i \in 1..(asked + 1) : i \in 1..asked \/ i = asked + 1
    BY DEF StatsInv
  <2>2. 1..asked \subseteq 1..(asked + 1)
    BY DEF StatsInv
  <2> QED
    BY <1>3, <1>5, <1>6, <2>1, <2>2 DEF Readings
<1>10. ASSUME NEW g \in Files \ {f}
       PROVE IF g \in defined'
             THEN /\ \A a, b \in Readings(g)' : a = b
                  /\ g # "vmstat" => Readings(g)' \subseteq {held'[g]}
             ELSE Readings(g)' = {}
  <2>1. Readings(g)' = Readings(g) /\ (g \in defined' <=> g \in defined) /\ held'[g] = held[g]
    BY <1>2, <1>7, <1>8 DEF StatsInv
  <2> QED
    BY <2>1 DEF StatsInv
<1>11. /\ f \in defined'
       /\ \A a, b \in Readings(f)' : a = b
       /\ f # "vmstat" => Readings(f)' \subseteq {held'[f]}
  <2>1. f \in defined' /\ held'[f] = reading
    BY <1>2, <1>8 DEF StatsInv
  <2>2. CASE f \notin defined
    <3>1. Readings(f) = {}
      BY <2>2 DEF StatsInv
    <3> QED
      BY <1>9, <2>1, <3>1
  <2>3. CASE f \in defined /\ f = "vmstat"
    <3>1. reading = Unread
      BY <1>2, <1>8, <2>3 DEF Load, LoadMap
    <3>2. Readings(f)' \subseteq Readings(f)
      BY <1>9, <3>1
    <3> QED
      BY <2>1, <2>3, <3>2 DEF StatsInv
  <2>4. CASE f \in defined /\ f # "vmstat"
    <3>1. reading = held[f]
      BY <1>2, <1>8, <2>4 DEF Load, LoadOnce
    <3>2. Readings(f) \subseteq {reading}
      BY <2>4, <3>1 DEF StatsInv
    <3> QED
      BY <1>9, <2>1, <3>2
  <2> QED
    BY <2>2, <2>3, <2>4
<1>12. /\ moment' \in Nat \ {0} /\ defined' \subseteq Files /\ held' \in [Files -> Nat]
       /\ asked' \in 0..Len(Asking)
  BY <1>1, <1>2, <1>3, <1>4, FilesOfValues DEF StatsInv
<1> QED
  BY <1>6, <1>10, <1>11, <1>12 DEF StatsInv

LEMMA StatsStep == ASSUME StatsInv, Next PROVE StatsInv'
<1>1. CASE BeginCpu
  <2>1. NewStats
    BY <1>1 DEF BeginCpu
  <2>2. /\ defined' = {} /\ asked' = 0 /\ UNCHANGED moment
        /\ held' \in [Files -> Nat] /\ answer' \in [DOMAIN Asking -> Int]
    BY <2>1 DEF NewStats, NothingHeld, NoAnswers, Unread
  <2>3. \A f : Readings(f)' = {}
    BY <2>2 DEF Readings
  <2> QED
    BY <2>2, <2>3, FilesOfValues DEF StatsInv
<1>2. CASE CpuStep
  BY <1>2, AskStep DEF CpuStep
<1>3. CASE MachineStep
  <2>1. moment' = moment + 1 /\ UNCHANGED <<defined, held, asked, answer>>
    BY <1>3 DEF MachineStep, Work
  <2>2. \A f : Readings(f)' = Readings(f)
    BY <2>1 DEF Readings
  <2> QED
    BY <2>1, <2>2 DEF StatsInv
<1>4. ASSUME UNCHANGED statVars PROVE StatsInv'
  <2>1. UNCHANGED <<moment, defined, held, asked, answer>>
    BY <1>4 DEF statVars
  <2>2. \A f : Readings(f)' = Readings(f)
    BY <2>1 DEF Readings
  <2> QED
    BY <2>1, <2>2 DEF StatsInv
<1>5. ASSUME NEW p, NEW what, NEW errors, Reading(p, what, errors) PROVE StatsInv'
  BY <1>4, <1>5 DEF Reading
<1>6. CASE Apt \/ Memory \/ Flags \/ Firewall
  BY <1>5, <1>6, Zenon DEF Apt, Memory, Flags, Firewall
<1>7. CASE BeginRun \/ EndCpu \/ BeginScripts \/ ScriptStep \/ ScriptsReturn
           \/ EndRun \/ Crash \/ Finished
  BY <1>4, <1>7 DEF BeginRun, EndCpu, BeginScripts, ScriptStep, ScriptsReturn,
                    EndRun, Crash, Finished, vars, statVars
<1> QED
  BY <1>1, <1>2, <1>3, <1>6, <1>7, Zenon DEF Next

-----------------------------------------------------------------------------
(* The theorems *)

THEOREM PluginRunInvariant == Spec => []IInv
<1>1. Init => IInv
  <2> SUFFICES ASSUME Init PROVE IInv
    OBVIOUS
  <2>1. TypeInv /\ ~Running
    <3>1. turn = "none" /\ run = 0 /\ todo = {} /\ sent = {} /\ seen = [p \in Plugins |-> {}]
      BY DEF Init, NothingSeen
    <3>2. loaded \subseteq Plugins
      BY RunAssumption DEF Init
    <3>3. seen = [p \in Plugins |-> seen[p]]
      BY <3>1
    <3> QED
      BY <3>1, <3>2, <3>3 DEF TypeInv, Running
  <2>2. CountsInv /\ SilentInv /\ JudgedInv
    BY <2>1 DEF Init, CountsInv, SilentInv, JudgedInv
  <2>3. ProgressInv
    BY DEF Init, InitScripts, ProgressInv, NotRun, Results
  <2>4. LogsInv
    BY <2>1 DEF Init, InitScripts, LogsInv, LogInv, NoLog, NoScript
  <2>5. StatsInv
    <3>1. \A f : Readings(f) = {}
      BY FilesOfValues DEF Init, InitStats, Readings, NoAnswers, Unread
    <3> QED
      BY <3>1, FilesOfValues DEF Init, InitStats, StatsInv, NothingHeld, NoAnswers, Unread
  <2> QED
    BY <2>1, <2>2, <2>3, <2>4, <2>5 DEF IInv
<1>2. IInv /\ [Next]_vars => IInv'
  <2> SUFFICES ASSUME IInv, [Next]_vars PROVE IInv'
    OBVIOUS
  <2>1. CASE Next
    BY <2>1, TypeStep, CountsStep, SilentStep, ProgressStep, JudgedStep, LogsStep, StatsStep
       DEF IInv
  <2>2. CASE UNCHANGED vars
    <3>1. UNCHANGED <<runVars, errorVars, scriptVars, statVars>>
      BY <2>2 DEF vars
    <3>2. /\ \A p : ErrorsOf(p)' = ErrorsOf(p)
          /\ \A about, s : Reported(about, s)' = Reported(about, s)
          /\ \A f : Readings(f)' = Readings(f)
      BY <3>1 DEF ErrorsOf, Reported, Readings, errorVars, statVars
    <3>3. TypeInv' /\ CountsInv' /\ ProgressInv'
      <4>1. TypeInv'
        BY <3>1 DEF IInv, TypeInv, Running, runVars
      <4>2. CountsInv'
        BY <3>1 DEF IInv, CountsInv, Running, Worst, runVars, errorVars
      <4>3. ProgressInv'
        BY <3>1 DEF IInv, ProgressInv, runVars, scriptVars
      <4> QED
        BY <4>1, <4>2, <4>3
    <3>4. SilentInv'
      BY <3>1, <3>2 DEF IInv, SilentInv, Running,
                        AptSilent, MemorySilent, FlagsSilent, FirewallSilent, runVars
    <3>5. (JudgedInv /\ LogsInv /\ StatsInv)'
      BY <3>1, <3>2 DEF IInv, JudgedInv, LogsInv, LogInv, StatsInv, Running,
                        Settled, OutputDue, ErrorDue,
                        runVars, errorVars, scriptVars, statVars
    <3> QED
      BY <3>3, <3>4, <3>5 DEF IInv
  <2> QED
    BY <2>1, <2>2
<1> QED
  BY <1>1, <1>2, PTL DEF Spec

\* run_plugins() decides on an email with the count and the priority of the document it
\* mails: append_error() and clear_errors() keep them in step, whatever the plugins.
THEOREM CountsAreOfDocument == Spec => []CountsOfDocument
<1>1. IInv => CountsOfDocument
  <2> SUFFICES ASSUME IInv, turn = "server"
               PROVE /\ errorCount = Len(document)
                     /\ maxPriority
                            = Max({0} \cup {document[i].priority : i \in DOMAIN document})
    BY DEF CountsOfDocument
  <2>1. errorCount = Len(document) /\ Worst(maxPriority, document) /\ document \in Seq(AnyError)
    BY DEF IInv, CountsInv, Running
  <2> DEFINE all == {0} \cup {document[i].priority : i \in DOMAIN document}
  <2>2. \A i \in DOMAIN document : document[i].priority \in 0..100
    BY <2>1, PriorityIsInt
  <2>3. all \in SUBSET Int /\ maxPriority \in all /\ \A n \in all : n <= maxPriority
    <3>1. all \subseteq 0..100
      BY <2>2
    <3>2. maxPriority \in all
      BY <2>1 DEF Worst
    <3>3. ASSUME NEW n \in all PROVE n <= maxPriority
      <4>1. CASE n = 0
        <5> HIDE DEF all
        <5> QED
          BY <3>1, <3>2, <4>1
      <4>2. CASE \E i \in DOMAIN document : n = document[i].priority
        BY <2>1, <4>2 DEF Worst
      <4> QED
        BY <3>3, <4>1, <4>2
    <3> HIDE DEF all
    <3> QED
      BY <3>1, <3>2, <3>3
  <2> HIDE DEF all
  <2>4. maxPriority = Max(all)
    BY <2>3, GreatestIsMax
  <2> QED
    BY <2>1, <2>4 DEF all
<1> QED
  BY <1>1, PluginRunInvariant, PTL

\* process_script() reports each script for what it did, once, and for nothing else.
THEOREM ScriptsAreJudged == Spec => []EachScriptJudged
<1>1. IInv => EachScriptJudged
  <2> SUFFICES ASSUME IInv, turn = "server", "scripts" \in loaded \ todo,
                      NEW s \in ScriptFiles
               PROVE /\ Cardinality(Reported("output", s)) =
                            IF result[s].failed /\ result[s].output THEN 1 ELSE 0
                     /\ Cardinality(Reported("error", s)) = IF result[s].error THEN 1 ELSE 0
    BY DEF EachScriptJudged
  <2>1. step = "off"
    BY DEF IInv, ProgressInv
  <2>2. /\ Settled(Reported("output", s), result[s].failed /\ result[s].output)
        /\ Settled(Reported("error", s), result[s].error)
    BY <2>1 DEF IInv, JudgedInv, Running, Settled, OutputDue, ErrorDue
  <2>3. ASSUME NEW places, NEW due, Settled(places, due)
        PROVE Cardinality(places) = IF due THEN 1 ELSE 0
    BY <2>3, FS_Singleton, FS_EmptySet DEF Settled
  <2> QED
    BY <2>2, <2>3
<1> QED
  BY <1>1, PluginRunInvariant, PTL

\* What process_script() writes to a log is in the email of the same run, if that run was
\* mailed at all.
THEOREM LogsWereMailed == Spec => []LogsAreMailed
<1>1. IInv => LogsAreMailed
  BY DEF IInv, LogsInv, LogInv, LogsAreMailed
<1> QED
  BY <1>1, PluginRunInvariant, PTL

\* A plugin is silent only when what it read is fine.
THEOREM SilenceIsFine == Spec => []SilentWhenFine
<1>1. IInv => SilentWhenFine
  BY DEF IInv, SilentInv, SilentWhenFine, Running,
         AptSilent, MemorySilent, FlagsSilent, FirewallSilent
<1> QED
  BY <1>1, PluginRunInvariant, PTL

\* The values that sys_stats returns from one file are of one moment.
THEOREM StatsAreOfOneMoment == Spec => []OneMoment
<1>1. IInv => OneMoment
  BY DEF IInv, StatsInv, OneMoment
<1> QED
  BY <1>1, PluginRunInvariant, PTL

-----------------------------------------------------------------------------
(* The alarms that depend on time *)

\* There is a shortest delay.
LEMMA ShortestDelay ==
    ASSUME NEW S, S # {}, \A d \in S : d[1] \in Nat
    PROVE \E d \in S : \A other \in S : d[1] <= other[1]
<1> DEFINE days == {d[1] : d \in S}
<1>1. days \in SUBSET Nat /\ days # {}
  OBVIOUS
<1>2. \E m \in days : \A n \in days : m <= n
  <2> HIDE DEF days
  <2> QED
    BY <1>1, LeastNat
<1> QED
  BY <1>2

LEMMA DelaysValid ==
    /\ \A d \in WarningDelays : d[1] \in Nat /\ d[2] \in 0..100
    /\ \A d, e \in WarningDelays : d[1] = e[1] => d = e
<1> DEFINE valid == {d \in Delays : d # <<>> /\ d[1] \in 1..3660 /\ d[2] \in 0..100}
           default == {<<7, 100>>, <<14, 85>>, <<30, 45>>}
<1>1. /\ \A d \in valid : d[1] \in Nat /\ d[2] \in 0..100
      /\ \A d, e \in valid : d[1] = e[1] => d = e
  <2>1. \A d \in valid : d[1] \in Nat /\ d[2] \in 0..100
    <3> DEFINE days == 1..3660
    <3>1. \A d \in valid : d[1] \in days /\ d[2] \in 0..100
      OBVIOUS
    <3>2. \A n \in days : n \in Nat
      OBVIOUS
    <3> HIDE DEF days, valid
    <3> QED
      BY <3>1, <3>2, Zenon
  <2>2. \A d, e \in valid : d[1] = e[1] => d = e
    <3>1. valid \subseteq Delays \ {<<>>}
      OBVIOUS
    <3> HIDE DEF valid
    <3> QED
      BY <3>1, AlarmsAssumption, Zenon
  <2> HIDE DEF valid
  <2> QED
    BY <2>1, <2>2, Zenon
<1>2. /\ \A d \in default : d[1] \in Nat /\ d[2] \in 0..100
      /\ \A d, e \in default : d[1] = e[1] => d = e
  OBVIOUS
<1>3. WarningDelays = IF valid = {} THEN default ELSE valid
  BY DEF WarningDelays
<1> HIDE DEF valid, default
<1> QED
  BY <1>1, <1>2, <1>3

\* The delays that are not over, and the shortest of them.
Passed(days) == {d \in WarningDelays : days <= d[1]}
Shortest(delays) == CHOOSE d \in delays : \A other \in delays : d[1] <= other[1]

LEMMA ShortestIsOne ==
    ASSUME NEW days \in Int, Passed(days) # {}
    PROVE /\ Shortest(Passed(days)) \in Passed(days)
          /\ \A other \in Passed(days) : Shortest(Passed(days))[1] <= other[1]
<1>1. \A d \in Passed(days) : d[1] \in Nat
  BY DelaysValid DEF Passed
<1>2. \E d \in Passed(days) : \A other \in Passed(days) : d[1] <= other[1]
  BY <1>1, ShortestDelay
<1> QED
  BY <1>2 DEF Shortest

LEMMA CertificatePriorityIs ==
    ASSUME NEW days \in Int
    PROVE /\ days <= 0 => CertificatePriority(days) = 100
          /\ days > 0 /\ Passed(days) = {} => CertificatePriority(days) = 0
          /\ days > 0 /\ Passed(days) # {} =>
                CertificatePriority(days) = Shortest(Passed(days))[2]
BY DEF CertificatePriority, Passed, Shortest

LEMMA CertificatePriorityType ==
    ASSUME NEW days \in Int PROVE CertificatePriority(days) \in 0..100
<1>1. CASE days <= 0
  BY <1>1, CertificatePriorityIs
<1>2. CASE days > 0 /\ Passed(days) = {}
  BY <1>2, CertificatePriorityIs
<1>3. CASE days > 0 /\ Passed(days) # {}
  <2>1. Shortest(Passed(days)) \in WarningDelays
    BY <1>3, ShortestIsOne DEF Passed
  <2> QED
    BY <1>3, <2>1, CertificatePriorityIs, DelaysValid
<1> QED
  BY <1>1, <1>2, <1>3

\* Fewer days left are no less urgent.
LEMMA CertificatePriorityRises ==
    ASSUME DelaysSorted, NEW days \in Int, NEW fewer \in Int, fewer <= days
    PROVE CertificatePriority(fewer) >= CertificatePriority(days)
<1>1. CertificatePriority(days) \in 0..100 /\ CertificatePriority(fewer) \in 0..100
  BY CertificatePriorityType
<1>2. CASE fewer <= 0
  BY <1>1, <1>2, CertificatePriorityIs
<1>3. CASE Passed(days) = {} /\ days > 0
  BY <1>1, <1>3, CertificatePriorityIs
<1>4. CASE fewer > 0 /\ Passed(days) # {}
  <2> DEFINE d == Shortest(Passed(days))
             e == Shortest(Passed(fewer))
  <2>1. d \in Passed(days) /\ d \in WarningDelays
    BY <1>4, ShortestIsOne DEF Passed
  <2>2. d \in Passed(fewer)
    <3> HIDE DEF d
    <3> QED
      BY <2>1, DelaysValid DEF Passed
  <2>3. e \in WarningDelays /\ e[1] <= d[1]
    <3> HIDE DEF d
    <3> QED
      BY <2>2, ShortestIsOne DEF Passed
  <2>4. e[2] >= d[2]
    <3> HIDE DEF d, e
    <3> QED
      BY <2>1, <2>3 DEF DelaysSorted
  <2>5. CertificatePriority(days) = d[2] /\ CertificatePriority(fewer) = e[2]
    <3>1. days > 0 /\ Passed(fewer) # {}
      BY <1>4, <2>2
    <3> QED
      BY <1>4, <3>1, CertificatePriorityIs
  <2> QED
    BY <2>4, <2>5
<1> QED
  BY <1>2, <1>3, <1>4

\* More time is no less urgent.
LEMMA PrioritiesRise ==
    ASSUME NEW time \in Int, NEW more \in Int, time <= more
    PROVE /\ RebootPriority(time) \in 0..100 /\ RebootPriority(more) >= RebootPriority(time)
          /\ CpuPriority(time) \in 0..100 /\ CpuPriority(more) >= CpuPriority(time)
          /\ NetworkPriority(time) \in 0..100
          /\ NetworkPriority(more) >= NetworkPriority(time)
<1>1. RebootPriority(time) \in 0..100 /\ RebootPriority(more) >= RebootPriority(time)
  BY DEF RebootPriority
<1>2. CpuPriority(time) \in 0..100 /\ CpuPriority(more) >= CpuPriority(time)
  BY DEF CpuPriority
<1>3. NetworkPriority(time) \in 0..100 /\ NetworkPriority(more) >= NetworkPriority(time)
  BY DEF NetworkPriority
<1> QED
  BY <1>1, <1>2, <1>3

\* In a streak of calls that found the problem: the file holds its date unless it was
\* lost, and the alarm is that of the last call.  The date kept about the access to a
\* domain is that of the last error.
StreakInv ==
    /\ since # None => lastRun \in since..now
    /\ plugin \in {"reboot", "cpu"} /\ ~lost => date = since
    /\ AlarmOfStreak
    /\ plugin = "network" /\ since # None => alarm = NetworkPriority(lastRun - up)
    /\ plugin = "expiry" /\ since # None => alarm = CertificatePriority(notAfter - lastRun)
    /\ plugin = "access" /\ date # None => date = lastError
    /\ OutageNotSilent

\* The priority of the reboot or cpu plugin, and the time it uses it for.
FilePriority(time) ==
    IF plugin = "reboot" THEN RebootPriority(time) ELSE CpuPriority(time)
FileAge == IF date >= 0 THEN now - date ELSE 0

\* What a call of the reboot or cpu plugin does.
LEMMA FileWatchIs ==
    ASSUME RebootWatch \/ CpuWatch
    PROVE /\ plugin \in {"reboot", "cpu"}
          /\ ~holds => date' = None /\ lost' = FALSE /\ alarm' = 0 /\ since' = None
          /\ holds => /\ alarm' = FilePriority(FileAge)
                      /\ since' = IF since = None THEN now ELSE since
                      /\ \/ date = None /\ date' = now /\ lost' = lost
                         \/ date = None /\ date' \in {None, Garbage} /\ lost' = TRUE
                         \/ date # None /\ date' = date /\ lost' = lost
          /\ lastRun' = now /\ lastError' \in {lastError, now}
          /\ UNCHANGED <<plugin, now, holds, up, notAfter>>
<1>1. CASE RebootWatch
  BY <1>1 DEF RebootWatch, FileWatch, Called, WriteDate, FilePriority, FileAge
<1>2. CASE CpuWatch
  BY <1>2 DEF CpuWatch, FileWatch, Called, WriteDate, FilePriority, FileAge
<1> QED
  BY <1>1, <1>2

\* The type of the numbers, and of the plugin.
NumbersOK ==
    /\ plugin \in Explored
    /\ now \in 0..MaxTime /\ up \in 0..now
    /\ date \in (0..now) \cup {None, Garbage}
    /\ notAfter \in 0..MaxTime
    /\ alarm \in 0..100
    /\ lastError \in (0..now) \cup {None}
    /\ lastRun \in (0..now) \cup {None}
    /\ since \in (0..now) \cup {None}

LEMMA TypeIs == TypeOK <=> NumbersOK /\ holds \in BOOLEAN /\ lost \in BOOLEAN
BY Zenon DEF TypeOK, NumbersOK

\* The dates of the plugins are of the past, and their priorities in range.
LEMMA AlarmsInitially == ASSUME AlarmsInit PROVE TypeOK /\ StreakInv
<1>1. holds \in BOOLEAN /\ lost \in BOOLEAN
  <2>1. CASE plugin \in {"network", "expiry"}
    BY <2>1 DEF AlarmsInit
  <2>2. CASE plugin \notin {"network", "expiry"}
    <3>1. (plugin \in {"network", "expiry"}) = FALSE
      BY <2>2
    <3> QED
      BY <3>1 DEF AlarmsInit
  <2> QED
    BY <2>1, <2>2
<1>2. /\ plugin \in Explored /\ now = 0 /\ up = 0 /\ date = None /\ alarm = 0
      /\ lastError = None /\ lastRun = None /\ since = None /\ lost = FALSE
  BY DEF AlarmsInit
<1>3. notAfter \in 0..MaxTime
  BY AlarmsAssumption DEF AlarmsInit
<1>4. TypeOK
  <2>1. NumbersOK
    BY <1>2, <1>3, AlarmsAssumption DEF NumbersOK, None
  <2> QED
    BY <1>1, <2>1, TypeIs
<1>5. StreakInv
  BY <1>2 DEF StreakInv, OutageNotSilent, AlarmOfStreak, None
<1> QED
  BY <1>4, <1>5

\* A call of the reboot or cpu plugin dates the streak, or says that it could not.
LEMMA FileStep ==
    ASSUME TypeOK, StreakInv, RebootWatch \/ CpuWatch
    PROVE TypeOK' /\ StreakInv'
<1> USE DEF None, Garbage
<1>1. /\ plugin \in {"reboot", "cpu"} /\ plugin \in Explored
      /\ now \in 0..MaxTime /\ up \in 0..now /\ notAfter \in 0..MaxTime
      /\ date \in (0..now) \cup {None, Garbage} /\ since \in (0..now) \cup {None}
      /\ lastError \in (0..now) \cup {None}
      /\ holds \in BOOLEAN /\ lost \in BOOLEAN
      /\ ~lost => date = since
  BY FileWatchIs DEF TypeOK, StreakInv
<1>2. \A time \in Int : FilePriority(time) \in 0..100
  <2> SUFFICES ASSUME NEW time \in Int PROVE FilePriority(time) \in 0..100
    OBVIOUS
  <2>1. time <= time
    OBVIOUS
  <2>2. RebootPriority(time) \in 0..100 /\ CpuPriority(time) \in 0..100
    BY <2>1, PrioritiesRise, Zenon
  <2> QED
    BY <2>2 DEF FilePriority
<1>3. /\ lastRun' = now /\ lastError' \in {lastError, now}
      /\ plugin' = plugin /\ now' = now /\ holds' = holds /\ up' = up /\ notAfter' = notAfter
  BY FileWatchIs
<1>6. (holds \in BOOLEAN /\ lost \in BOOLEAN)'
  BY <1>1, <1>3, FileWatchIs, Zenon
<1>4. CASE ~holds
  <2>1. date' = None /\ lost' = FALSE /\ alarm' = 0 /\ since' = None
    BY <1>4, FileWatchIs
  <2>2. NumbersOK'
    BY <1>1, <1>3, <2>1, AlarmsAssumption DEF NumbersOK
  <2>3. StreakInv'
    BY <1>1, <1>3, <2>1, AlarmsAssumption DEF StreakInv, OutageNotSilent, AlarmOfStreak
  <2> QED
    BY <1>6, <2>2, <2>3, Zenon DEF TypeOK, NumbersOK
<1>5. CASE holds
  <2>1. /\ alarm' = FilePriority(FileAge)
        /\ since' = IF since = None THEN now ELSE since
        /\ \/ date = None /\ date' = now /\ lost' = lost
           \/ date = None /\ date' \in {None, Garbage} /\ lost' = TRUE
           \/ date # None /\ date' = date /\ lost' = lost
    BY <1>5, FileWatchIs
  <2>2. FileAge \in Int /\ alarm' \in 0..100
    <3>1. FileAge \in Int
      BY <1>1, AlarmsAssumption DEF FileAge
    <3> QED
      BY <1>2, <2>1, <3>1
  <2>3. NumbersOK'
    BY <1>1, <1>3, <2>1, <2>2, AlarmsAssumption DEF NumbersOK
  <2>4. ~lost' => date' = since'
    BY <1>1, <2>1, AlarmsAssumption
  <2>5. ~lost' => FileAge = lastRun' - since'
    BY <1>1, <1>3, <2>1, AlarmsAssumption DEF FileAge
  <2>6. AlarmOfStreak'
    <3>1. since' # None
      BY <1>1, <2>1, AlarmsAssumption
    <3> QED
      BY <1>1, <1>3, <2>1, <2>5, <3>1 DEF AlarmOfStreak, FilePriority
  <2>7. StreakInv'
    <3>1. plugin' \notin {"network", "expiry", "access"}
      BY <1>1, <1>3
    <3>2. since' # None => lastRun' \in since'..now'
      BY <1>1, <1>3, <2>1, AlarmsAssumption
    <3> QED
      BY <2>4, <2>6, <3>1, <3>2 DEF StreakInv, OutageNotSilent
  <2> QED
    BY <1>6, <2>3, <2>7, Zenon DEF TypeOK, NumbersOK
<1> QED
  BY <1>1, <1>4, <1>5, Zenon

\* A call for the certificate: its alarm is that of the days left now.
LEMMA ExpiryStep ==
    ASSUME TypeOK, StreakInv, ExpiryWatch
    PROVE TypeOK' /\ StreakInv'
<1> USE DEF None, Garbage
<1> DEFINE priority == CertificatePriority(notAfter - now)
<1>1. /\ plugin = "expiry" /\ lastRun' = now /\ lastError' \in {lastError, now}
      /\ alarm' = IF holds THEN priority ELSE 90
      /\ since' = IF ~ (holds /\ priority > 0) THEN None
                  ELSE IF since = None THEN now ELSE since
      /\ UNCHANGED <<plugin, now, holds, up, notAfter, date, lost>>
  BY DEF ExpiryWatch, Called
<1>2. priority \in 0..100 /\ alarm' \in 0..100
  <2>1. notAfter - now \in Int
    BY AlarmsAssumption DEF TypeOK
  <2>2. priority \in 0..100
    BY <2>1, CertificatePriorityType
  <2> QED
    BY <1>1, <2>2
<1>3. (holds \in BOOLEAN /\ lost \in BOOLEAN)'
  BY <1>1, Zenon DEF TypeOK
<1>4. NumbersOK'
  BY <1>1, <1>2, AlarmsAssumption DEF TypeOK, NumbersOK
<1>5. StreakInv'
  BY <1>1, AlarmsAssumption DEF TypeOK, StreakInv, OutageNotSilent, AlarmOfStreak
<1> QED
  BY <1>3, <1>4, <1>5, Zenon DEF TypeOK, NumbersOK

\* A call of the network plugin: its alarm is that of the time since the start.
LEMMA NetworkStep ==
    ASSUME TypeOK, StreakInv, NetworkWatch
    PROVE TypeOK' /\ StreakInv'
<1> USE DEF None, Garbage
<1>1. /\ plugin = "network" /\ lastRun' = now /\ lastError' \in {lastError, now}
      /\ alarm' = IF holds THEN NetworkPriority(now - up) ELSE 0
      /\ since' = IF ~ (alarm' > 0) THEN None ELSE IF since = None THEN now ELSE since
      /\ UNCHANGED <<plugin, now, holds, up, notAfter, date, lost>>
  BY DEF NetworkWatch, Called
<1>2. alarm' \in 0..100
  <2>1. now - up \in Int
    BY AlarmsAssumption DEF TypeOK
  <2> QED
    BY <1>1, <2>1, PrioritiesRise
<1>3. (holds \in BOOLEAN /\ lost \in BOOLEAN)'
  BY <1>1, Zenon DEF TypeOK
<1>4. NumbersOK'
  BY <1>1, <1>2, AlarmsAssumption DEF TypeOK, NumbersOK
<1>5. StreakInv'
  BY <1>1, AlarmsAssumption DEF TypeOK, StreakInv, OutageNotSilent, AlarmOfStreak
<1> QED
  BY <1>3, <1>4, <1>5, Zenon DEF TypeOK, NumbersOK

\* A call about the access to a domain: an error has the date of now.
LEMMA AccessStep ==
    ASSUME TypeOK, StreakInv, AccessWatch
    PROVE TypeOK' /\ StreakInv'
<1> USE DEF None, Garbage
<1> DEFINE report == holds /\ (date = None \/ now - date > 5)
<1>1. /\ plugin = "access" /\ lastRun' = now
      /\ alarm' \in {0, 75, 100} /\ date' \in {date, now}
      /\ report => date' = now /\ lastError' = now
      /\ ~report => date' = date /\ lastError' = lastError
      /\ ~holds => since' = None
      /\ since' \in {None, now, since} /\ (since' = since \/ since = None \/ since' = None)
      /\ UNCHANGED <<plugin, now, holds, up, notAfter, lost>>
  BY DEF AccessWatch, Called
<1>2. (holds \in BOOLEAN /\ lost \in BOOLEAN)'
  BY <1>1, Zenon DEF TypeOK
<1>3. NumbersOK'
  BY <1>1, AlarmsAssumption DEF TypeOK, NumbersOK
<1>4. StreakInv'
  BY <1>1, AlarmsAssumption DEF TypeOK, StreakInv, OutageNotSilent, AlarmOfStreak
<1> QED
  BY <1>2, <1>3, <1>4, Zenon DEF TypeOK, NumbersOK

\* What a plugin watches for changes between two calls.
LEMMA ChangeStep ==
    ASSUME TypeOK, StreakInv, Change
    PROVE TypeOK' /\ StreakInv'
<1> USE DEF None, Garbage
<1>1. (holds \in BOOLEAN /\ lost \in BOOLEAN)'
  BY Zenon DEF TypeOK, Change
<1>2. NumbersOK'
  BY AlarmsAssumption DEF TypeOK, NumbersOK, Change
<1>3. StreakInv'
  BY AlarmsAssumption DEF TypeOK, StreakInv, OutageNotSilent, AlarmOfStreak, Change
<1> QED
  BY <1>1, <1>2, <1>3, Zenon DEF TypeOK, NumbersOK

\* A certificate is renewed.
LEMMA RenewStep ==
    ASSUME TypeOK, StreakInv, Renew
    PROVE TypeOK' /\ StreakInv'
<1> USE DEF None, Garbage
<1>1. (holds \in BOOLEAN /\ lost \in BOOLEAN)'
  BY Zenon DEF TypeOK, Renew
<1>2. NumbersOK'
  BY AlarmsAssumption DEF TypeOK, NumbersOK, Renew
<1>3. StreakInv'
  BY AlarmsAssumption DEF TypeOK, StreakInv, OutageNotSilent, AlarmOfStreak, Renew
<1> QED
  BY <1>1, <1>2, <1>3, Zenon DEF TypeOK, NumbersOK

\* Time passes: the streak and its alarm are still those of the last call.
LEMMA AdvanceStep ==
    ASSUME TypeOK, StreakInv, Advance
    PROVE TypeOK' /\ StreakInv'
<1> USE DEF None, Garbage
<1>1. (holds \in BOOLEAN /\ lost \in BOOLEAN)'
  BY Zenon DEF TypeOK, Advance
<1>2. NumbersOK'
  BY AlarmsAssumption DEF TypeOK, NumbersOK, Advance
<1>3. StreakInv'
  BY AlarmsAssumption DEF TypeOK, StreakInv, OutageNotSilent, AlarmOfStreak, Advance
<1> QED
  BY <1>1, <1>2, <1>3, Zenon DEF TypeOK, NumbersOK

\* The daemon starts again: a plugin whose dates are in memory starts its streak again.
LEMMA RestartStep ==
    ASSUME TypeOK, StreakInv, Restart
    PROVE TypeOK' /\ StreakInv'
<1> USE DEF None, Garbage
<1>1. (holds \in BOOLEAN /\ lost \in BOOLEAN)'
  BY Zenon DEF TypeOK, Restart
<1>2. NumbersOK'
  BY AlarmsAssumption DEF TypeOK, NumbersOK, Restart
<1>3. StreakInv'
  BY AlarmsAssumption DEF TypeOK, StreakInv, OutageNotSilent, AlarmOfStreak, Restart
<1> QED
  BY <1>1, <1>2, <1>3, Zenon DEF TypeOK, NumbersOK

\* The file of a streak is removed: its date is lost.
LEMMA CleanCacheStep ==
    ASSUME TypeOK, StreakInv, CleanCache
    PROVE TypeOK' /\ StreakInv'
<1> USE DEF None, Garbage
<1>1. (holds \in BOOLEAN /\ lost \in BOOLEAN)'
  BY Zenon DEF TypeOK, CleanCache
<1>2. NumbersOK'
  BY AlarmsAssumption DEF TypeOK, NumbersOK, CleanCache
<1>3. StreakInv'
  BY AlarmsAssumption DEF TypeOK, StreakInv, OutageNotSilent, AlarmOfStreak, CleanCache
<1> QED
  BY <1>1, <1>2, <1>3, Zenon DEF TypeOK, NumbersOK

\* The invariant of the alarms.
THEOREM AlarmsInvariant == AlarmsSpec => [](TypeOK /\ StreakInv)
<1>1. TypeOK /\ StreakInv /\ [AlarmsNext]_alarmVars => (TypeOK /\ StreakInv)'
  <2> SUFFICES ASSUME TypeOK, StreakInv, [AlarmsNext]_alarmVars
               PROVE TypeOK' /\ StreakInv'
    OBVIOUS
  <2>1. CASE RebootWatch \/ CpuWatch
    BY <2>1, FileStep
  <2>2. CASE ExpiryWatch
    BY <2>2, ExpiryStep
  <2>3. CASE AccessWatch
    BY <2>3, AccessStep
  <2>4. CASE NetworkWatch
    BY <2>4, NetworkStep
  <2>5. CASE Change
    BY <2>5, ChangeStep
  <2>6. CASE Renew
    BY <2>6, RenewStep
  <2>7. CASE Advance
    BY <2>7, AdvanceStep
  <2>8. CASE Restart
    BY <2>8, RestartStep
  <2>9. CASE CleanCache
    BY <2>9, CleanCacheStep
  <2>10. CASE UNCHANGED alarmVars
    <3>1. TypeOK'
      BY <2>10, Zenon DEF alarmVars, TypeOK
    <3>2. StreakInv'
      BY <2>10 DEF alarmVars, StreakInv, OutageNotSilent, AlarmOfStreak
    <3> QED
      BY <3>1, <3>2
  <2> QED
    BY <2>1, <2>2, <2>3, <2>4, <2>5, <2>6, <2>7, <2>8, <2>9, <2>10, Zenon
       DEF AlarmsNext, Watch
<1>2. AlarmsInit => TypeOK /\ StreakInv
  BY AlarmsInitially
<1> QED
  BY <1>1, <1>2, PTL DEF AlarmsSpec

\* The plugins keep dates of the past and priorities in range, even of delays that are not.
THEOREM AlarmsType == AlarmsSpec => []TypeOK
<1> QED
  BY AlarmsInvariant, PTL

\* The alarm of a plugin with a file counts the time of all the calls that agree.
THEOREM StreaksAreCounted == AlarmsSpec => []AlarmOfStreak
<1>1. StreakInv => AlarmOfStreak
  BY DEF StreakInv
<1> QED
  BY <1>1, AlarmsInvariant, PTL

\* As long as a problem lasts, a call does not lower its alarm.
LEMMA StreakRises ==
    ASSUME TypeOK, StreakInv, TypeOK', StreakInv', Watch, plugin # "access",
           plugin = "expiry" => DelaysSorted, ~lost', since # None, since' # None
    PROVE alarm' >= alarm
<1> USE DEF None, Garbage
<1>1. /\ now \in Nat /\ up \in Nat /\ notAfter \in Nat /\ lastRun \in Nat
      /\ since \in Nat /\ lastRun \in since..now
  BY AlarmsAssumption DEF TypeOK, StreakInv
<1>2. CASE RebootWatch \/ CpuWatch
  <2>1. plugin \in {"reboot", "cpu"} /\ plugin' = plugin /\ lastRun' = now /\ since' = since
    <3>1. since' = IF holds THEN since ELSE None
      BY <1>2, FileWatchIs DEF TypeOK
    <3> QED
      BY <1>2, <3>1, FileWatchIs
  <2>2. ~lost
    <3>1. holds
      BY <1>2, FileWatchIs
    <3> QED
      BY <1>2, <3>1, FileWatchIs
  <2>3. alarm = FilePriority(lastRun - since) /\ alarm' = FilePriority(now - since)
    BY <1>1, <2>1, <2>2 DEF StreakInv, OutageNotSilent, AlarmOfStreak, FilePriority
  <2> QED
    BY <1>1, <2>3, PrioritiesRise DEF FilePriority
<1>3. CASE ExpiryWatch
  <2>1. /\ plugin = "expiry" /\ alarm' = CertificatePriority(notAfter - now)
        /\ alarm = CertificatePriority(notAfter - lastRun)
    <3>1. holds
      BY <1>3 DEF ExpiryWatch, Called
    <3> QED
      BY <1>3, <3>1 DEF ExpiryWatch, Called, StreakInv
  <2>2. /\ notAfter - now \in Int /\ notAfter - lastRun \in Int
        /\ notAfter - now <= notAfter - lastRun
    BY <1>1
  <2> QED
    BY <2>1, <2>2, CertificatePriorityRises
<1>4. CASE NetworkWatch
  <2>1. /\ plugin = "network" /\ alarm = NetworkPriority(lastRun - up)
        /\ alarm' = IF holds THEN NetworkPriority(now - up) ELSE 0
        /\ since' # None => alarm' > 0
    BY <1>4 DEF NetworkWatch, Called, StreakInv
  <2>2. alarm' = NetworkPriority(now - up)
    BY <2>1
  <2>3. lastRun - up \in Int /\ now - up \in Int /\ lastRun - up <= now - up
    BY <1>1
  <2> QED
    BY <2>1, <2>2, <2>3, PrioritiesRise
<1>5. CASE AccessWatch
  BY <1>5 DEF AccessWatch
<1> QED
  BY <1>2, <1>3, <1>4, <1>5, Zenon DEF Watch

\* Until it is solved, a problem is reported more and more urgently, for any delays that
\* are sorted.
THEOREM AlarmsRise == AlarmsSpec => AlarmRises
<1>1. TypeOK /\ StreakInv /\ (TypeOK /\ StreakInv)'
        => [Watch /\ plugin # "access" /\ (plugin = "expiry" => DelaysSorted)
            /\ ~lost' /\ since # None /\ since' # None
         => alarm' >= alarm]_alarmVars
  BY StreakRises, Zenon
<1> QED
  BY <1>1, AlarmsInvariant, PTL DEF AlarmRises

\* A domain that cannot be accessed is reported again within five hours of the last
\* error about it (f_access_error of certificate.cpp).
THEOREM OutagesAreReported == AlarmsSpec => []OutageNotSilent
<1>1. StreakInv => OutageNotSilent
  BY DEF StreakInv
<1> QED
  BY <1>1, AlarmsInvariant, PTL

=============================================================================
