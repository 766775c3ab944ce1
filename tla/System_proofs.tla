---------------------------- MODULE System_proofs ----------------------------
(***************************************************************************)
(* Four of the programs of System, one after the other: check-hash for     *)
(* .hash files of any length; the random seed for any number of boots and  *)
(* any scripts; the build of a package with any list of patches; the boot  *)
(* and its log for any scripts and daemons.                                *)
(***************************************************************************)
EXTENDS System, TLAPS

\* What the loop knows while it runs: no line read so far has failed, and
\* nb_checks is not zero exactly if one of them was about Base.
NoneFailed == \A i \in 1 .. pos : h.lines[i].name = Base => ~ Hash!FailsOn(h.lines[i], content)
Counted == nb_checks # 0 <=> \E i \in 1 .. pos : h.lines[i].name = Base

HashInv ==
    /\ pos \in Nat /\ nb_checks \in Nat /\ pos <= Len(h.lines)
    /\ h.lines \in Seq(Hash!Lines) /\ h.exists \in BOOLEAN /\ h.exempt \in BOOLEAN
    /\ c_status = Hash!Running => NoneFailed /\ Counted /\ (~ h.exists => pos = 0)
    /\ VerdictIsEarned

\* Before the first line nothing has failed.
LEMMA InitIsEarned == Hash!Init => HashInv
<1> SUFFICES ASSUME Hash!Init PROVE HashInv
  OBVIOUS
<1>1. h.lines \in Seq(Hash!Lines) /\ h.exists \in BOOLEAN /\ h.exempt \in BOOLEAN
  <2>1. PICK n \in 0 .. MaxLines : h.lines \in [1 .. n -> Hash!Lines]
    BY DEF Hash!Init
  <2>2. n \in Nat
    BY <2>1
  <2> QED
    BY <2>1, <2>2 DEF Hash!Init
<1>2. pos = 0 /\ nb_checks = 0 /\ Hash!Running # 0
  BY DEF Hash!Init, Hash!Running
<1>3. VerdictIsEarned
  BY DEF Hash!Init, VerdictIsEarned, Hash!VerdictIsEarned, Hash!LoopMeetsVerdict, Hash!ZeroIsEarned, Hash!Running
<1> QED
  BY <1>1, <1>2, <1>3 DEF HashInv, NoneFailed, Counted

\* A line that fails after lines that did not decides the verdict.
LEMMA FirstFailureDecides ==
    ASSUME h.exists, h.lines \in Seq(Hash!Lines), NEW n \in DOMAIN h.lines,
           h.lines[n].name = Base, Hash!FailsOn(h.lines[n], content),
           \A i \in 1 .. n - 1 : h.lines[i].name = Base => ~ Hash!FailsOn(h.lines[i], content)
    PROVE  Hash!CheckHashStatus(h, Base, content) = IF Hash!UnknownType(h.lines[n]) THEN 4 ELSE 2
<1> DEFINE mine == Hash!LinesFor(h, Base)
           failing == {i \in mine : Hash!FailsOn(h.lines[i], content)}
<1>1. n \in failing /\ mine # {} /\ failing # {} /\ DOMAIN h.lines = 1 .. Len(h.lines)
  BY DEF Hash!LinesFor
<1>2. \A i \in failing : n <= i
  BY <1>1 DEF Hash!LinesFor
<1>3. (CHOOSE i \in failing : \A j \in failing : i <= j) = n
  <2>1. PICK m \in failing :
            /\ m = CHOOSE i \in failing : \A j \in failing : i <= j
            /\ \A j \in failing : m <= j
    BY <1>1, <1>2
  <2> QED
    BY <2>1, <1>1, <1>2 DEF Hash!LinesFor
<1> HIDE DEF mine, failing
<1> QED
  BY <1>1, <1>3 DEF Hash!CheckHashStatus, mine, failing

\* With no failing line the verdict depends on whether there is any for Base.
LEMMA NoFailurePasses ==
    ASSUME h.exists, h.lines \in Seq(Hash!Lines),
           \A i \in DOMAIN h.lines : h.lines[i].name = Base => ~ Hash!FailsOn(h.lines[i], content)
    PROVE  Hash!CheckHashStatus(h, Base, content) =
               IF Hash!LinesFor(h, Base) = {} THEN Hash!NoHashStatus(h.exempt) ELSE 0
BY DEF Hash!CheckHashStatus, Hash!LinesFor

LEMMA StepIsEarned == HashInv /\ [Hash!Next]_(Hash!vars) => HashInv'
<1> SUFFICES ASSUME HashInv, [Hash!Next]_(Hash!vars) PROVE HashInv'
  OBVIOUS
<1> USE DEF HashInv
<1>0. DOMAIN h.lines = 1 .. Len(h.lines) /\ Len(h.lines) \in Nat
  OBVIOUS
<1>1. CASE UNCHANGED Hash!vars
  BY <1>1 DEF Hash!vars, NoneFailed, Counted, VerdictIsEarned, Hash!VerdictIsEarned, Hash!LoopMeetsVerdict, Hash!ZeroIsEarned
<1>2. CASE Hash!NoHashFile
  <2>1. Hash!CheckHashStatus(h, Base, content) = Hash!NoHashStatus(h.exempt)
    BY <1>2 DEF Hash!NoHashFile, Hash!CheckHashStatus
  <2>2. c_status' = Hash!NoHashStatus(h.exempt) /\ UNCHANGED <<h, content, pos, nb_checks>>
        /\ c_status' # Hash!Running /\ (c_status' = 0 => h.exempt /\ ~ h.exists)
    BY <1>2 DEF Hash!NoHashFile, Hash!NoHashStatus, Hash!Running
  <2> QED
    BY <2>1, <2>2 DEF VerdictIsEarned, Hash!VerdictIsEarned, Hash!LoopMeetsVerdict, Hash!ZeroIsEarned
<1>3. CASE Hash!ReadLine
  <2> DEFINE line == h.lines[pos + 1]
  <2>0. /\ c_status = Hash!Running /\ h.exists /\ pos < Len(h.lines) /\ pos' = pos + 1
        /\ UNCHANGED <<h, content>> /\ NoneFailed /\ Counted
        /\ pos + 1 \in DOMAIN h.lines
        /\ pos' \in Nat /\ pos' <= Len(h.lines)
    BY <1>3, <1>0 DEF Hash!ReadLine
  <2>1. CASE line.name # Base /\ UNCHANGED <<nb_checks, c_status>>
    <3>1. NoneFailed' /\ Counted'
      BY <2>0, <2>1 DEF NoneFailed, Counted
    <3> QED
      BY <3>1, <2>0, <2>1 DEF VerdictIsEarned, Hash!VerdictIsEarned, Hash!LoopMeetsVerdict, Hash!ZeroIsEarned, Hash!Running
  <2>2. CASE /\ line.name = Base /\ Hash!FailsOn(line, content)
             /\ c_status' = IF Hash!UnknownType(line) THEN 4 ELSE 2
             /\ UNCHANGED nb_checks
    <3>1. Hash!CheckHashStatus(h, Base, content) = c_status'
      BY <2>0, <2>2, FirstFailureDecides DEF NoneFailed
    <3>2. c_status' # 0 /\ c_status' # Hash!Running
      BY <2>2 DEF Hash!Running
    <3> QED
      BY <3>1, <3>2, <2>0, <2>2 DEF VerdictIsEarned, Hash!VerdictIsEarned, Hash!LoopMeetsVerdict, Hash!ZeroIsEarned
  <2>3. CASE /\ line.name = Base /\ ~ Hash!FailsOn(line, content)
             /\ nb_checks' = nb_checks + 1
             /\ UNCHANGED c_status
    <3>1. NoneFailed'
      BY <2>0, <2>3 DEF NoneFailed
    <3>2. Counted' /\ nb_checks' \in Nat /\ c_status' = Hash!Running
      BY <2>0, <2>3 DEF Counted
    <3> QED
      BY <3>1, <3>2, <2>0 DEF VerdictIsEarned, Hash!VerdictIsEarned, Hash!LoopMeetsVerdict, Hash!ZeroIsEarned, Hash!Running
  <2> QED
    BY <1>3, <2>1, <2>2, <2>3 DEF Hash!ReadLine
<1>4. CASE Hash!EndOfFile
  <2>0. /\ c_status = Hash!Running /\ h.exists /\ pos = Len(h.lines)
        /\ UNCHANGED <<h, content, pos, nb_checks>> /\ NoneFailed /\ Counted
        /\ c_status' = IF nb_checks = 0 THEN Hash!NoHashStatus(h.exempt) ELSE 0
    BY <1>4 DEF Hash!EndOfFile
  <2>1. \A i \in DOMAIN h.lines : h.lines[i].name = Base => ~ Hash!FailsOn(h.lines[i], content)
    BY <2>0, <1>0 DEF NoneFailed
  <2>2. nb_checks = 0 <=> Hash!LinesFor(h, Base) = {}
    BY <2>0, <1>0 DEF Counted, Hash!LinesFor
  <2>3. Hash!CheckHashStatus(h, Base, content) = c_status'
    BY <2>0, <2>1, <2>2, NoFailurePasses
  <2>4. c_status' # Hash!Running /\ (c_status' = 0 => h.exempt \/ Hash!LinesFor(h, Base) # {})
    BY <2>0, <2>2 DEF Hash!NoHashStatus, Hash!Running
  <2>5. \A i \in Hash!LinesFor(h, Base) : h.lines[i].type = "none" \/ h.lines[i].known = content
    BY <2>1 DEF Hash!LinesFor, Hash!FailsOn, Hash!UnknownType
  <2>6. Hash!ZeroIsEarned'
    BY <2>0, <2>4, <2>5 DEF Hash!ZeroIsEarned
  <2>7. Hash!LoopMeetsVerdict'
    BY <2>0, <2>3 DEF Hash!LoopMeetsVerdict
  <2> QED
    BY <2>0, <2>4, <2>6, <2>7 DEF VerdictIsEarned, Hash!VerdictIsEarned
<1> QED
  BY <1>1, <1>2, <1>3, <1>4 DEF Hash!Next

\* check-hash, the loop, ends with the verdict CheckHashStatus states at once,
\* and with 0 only when every line about the file was compared, or it has none
\* and is exempt. (check-hash:86-112)
THEOREM LoopIsSound == Hash!Spec => []VerdictIsEarned
<1>1. HashInv => VerdictIsEarned
  BY DEF HashInv
<1> QED
  BY InitIsEarned, StepIsEarned, <1>1, PTL DEF Hash!Spec

------------------------------------------------------------------------------
(***************************************************************************)
(* rc.shutdown and rc.d/random_seed.  A file has at most the number of the *)
(* last boot and seeds of earlier boots only have been loaded, so a number *)
(* that is written is new; a file whose seed has been loaded stays only    *)
(* when power is cut.                                                      *)
(***************************************************************************)
Commands == {"append", "remove", "create", "fill", "end"}
SeedFiles == [seed : 0 .. 2 * MaxStarts + 2, private : BOOLEAN]
SwitchTyped ==
    /\ s_pc \in {"off", "load", "loading", "up", "stopping", "date", "halted", "killed"}
    /\ left \in Seq(STRING)
    /\ job \in Commands \cup {Nil}
    /\ seed \in SeedFiles
    /\ used \in [Switch!Seeds -> Nat]
    /\ s_boots \in 0 .. MaxStarts /\ (s_pc # "off" => s_boots > 0)

\* Only a file for root is loaded, and only one of an earlier boot.
NumbersGrow ==
    /\ \A n \in Switch!Seeds : used[n] > 0 => n <= 2 * s_boots - 2
    /\ seed.seed \in Switch!Seeds =>
           seed.seed <= IF s_pc = "load" \/ (s_pc = "loading" /\ job # "end")
                        THEN 2 * s_boots - 2 ELSE 2 * s_boots

\* A seed that has been loaded is still in the file only on its way out.
LoadedSeedGoes ==
    \A n \in Switch!Seeds :
        used[n] > 0 /\ seed.seed = n =>
            n \in cut \/ (s_pc = "loading" /\ job \in {"append", "remove"})

\* The new seed of a shutdown, once the script has been stopped.
Saved == seed = [seed |-> 2 * s_boots, private |-> TRUE]
SeedIsSaved ==
    /\ s_pc \in {"off", "load", "up"} => job = Nil
    /\ s_pc = "loading" => job # Nil
    /\ s_pc = "stopping" /\ job # Nil => left # <<>> /\ Head(left) = "random_seed"
    /\ s_pc = "stopping" /\ job = "end" => Saved
    /\ s_pc = "stopping" => (Saved /\ job = Nil) \/ \E i \in DOMAIN left : left[i] = "random_seed"
    /\ s_pc \in {"date", "halted"} => Saved /\ job = Nil

SeedInv ==
    /\ SwitchTyped /\ NumbersGrow /\ LoadedSeedGoes /\ SeedIsSaved
    /\ Switch!SeedIsUsedOnce

\* What the file can be, and Nil and "end" among the commands.
LEMMA SeedFacts ==
    /\ MaxStarts \in Nat /\ Switch!Seeds = 0 .. 2 * MaxStarts
    /\ Switch!Empty = 2 * MaxStarts + 1 /\ Switch!Gone = 2 * MaxStarts + 2
    /\ Nil \notin Commands
BY SwitchAssumption DEF Switch!Seeds, Switch!Empty, Switch!Gone, Commands

\* The scripts of a shutdown are all those there are, so random_seed is stopped.
LEMMA EveryScriptIsStopped ==
    LET r == Switch!Reversed(StopScripts)
    IN  r \in Seq(STRING) /\ \E i \in DOMAIN r : r[i] = "random_seed"
<1> DEFINE n == Len(StopScripts)
           r == Switch!Reversed(StopScripts)
<1>1. n \in Nat /\ DOMAIN StopScripts = 1 .. n /\ \A i \in 1 .. n : StopScripts[i] \in STRING
  BY SwitchAssumption
<1>2. \A i \in 1 .. n : n + 1 - i \in 1 .. n /\ n + 1 - (n + 1 - i) = i
  BY <1>1
<1>3. r = [i \in 1 .. n |-> StopScripts[n + 1 - i]]
  BY DEF Switch!Reversed
<1>4. r \in [1 .. n -> STRING]
  BY <1>1, <1>2, <1>3
<1>5. PICK i \in 1 .. n : StopScripts[i] = "random_seed"
  BY <1>1, SwitchAssumption
<1>6. n + 1 - i \in DOMAIN r /\ r[n + 1 - i] = "random_seed"
  BY <1>2, <1>3, <1>5
<1> QED
  BY <1>1, <1>4, <1>6

LEMMA InitSeedInv == Switch!Init => SeedInv
<1> SUFFICES ASSUME Switch!Init PROVE SeedInv
  OBVIOUS
<1> USE SeedFacts DEF Switch!Init
<1>1. SwitchTyped
  <2>1. PICK n \in {0, Switch!Gone}, p \in BOOLEAN : seed = [seed |-> n, private |-> p]
    BY DEF Switch!Absent, Switch!File
  <2>2. n \in 0 .. 2 * MaxStarts + 2
    OBVIOUS
  <2>3. seed \in SeedFiles
    BY <2>1, <2>2 DEF SeedFiles
  <2>4. used \in [Switch!Seeds -> Nat]
    OBVIOUS
  <2> QED
    BY <2>3, <2>4 DEF SwitchTyped
<1>2. NumbersGrow /\ LoadedSeedGoes /\ Switch!SeedIsUsedOnce
  BY DEF NumbersGrow, LoadedSeedGoes, Switch!SeedIsUsedOnce, Switch!Absent, Switch!File
<1>3. SeedIsSaved
  BY DEF SeedIsSaved
<1> QED
  BY <1>1, <1>2, <1>3 DEF SeedInv

\* What the loading and the writing of the file leave of the invariant.
LEMMA StepSeedInv == SeedInv /\ [Switch!Next]_(Switch!vars) => SeedInv'
<1> SUFFICES ASSUME SeedInv, [Switch!Next]_(Switch!vars) PROVE SeedInv'
  OBVIOUS
<1> USE SeedFacts DEF SeedInv
<1>1. CASE UNCHANGED Switch!vars
  BY <1>1 DEF Switch!vars, SwitchTyped, NumbersGrow, LoadedSeedGoes, SeedIsSaved, Saved, Switch!SeedIsUsedOnce
<1>2. CASE Switch!Load
  <2>0. /\ s_pc = "load" /\ s_boots > 0 /\ UNCHANGED <<left, seed, cut, s_boots>>
        /\ seed.seed \in Nat /\ s_boots \in Nat
    BY <1>2 DEF Switch!Load, SwitchTyped, SeedFiles
  <2>1. SwitchTyped'
    BY <1>2 DEF Switch!Load, SwitchTyped, Commands
  <2>2. NumbersGrow'
    <3>1. \A n \in Switch!Seeds : used'[n] > 0 => used[n] > 0 \/ n = seed.seed
      BY <1>2 DEF Switch!Load, SwitchTyped
    <3> QED
      BY <1>2, <2>0, <3>1 DEF Switch!Load, NumbersGrow, Commands
  <2>3. LoadedSeedGoes'
    BY <1>2 DEF Switch!Load, SwitchTyped, LoadedSeedGoes
  <2>4. SeedIsSaved'
    BY <1>2 DEF Switch!Load, SeedIsSaved, Commands
  <2>5. Switch!SeedIsUsedOnce'
    <3>1. \A n \in Switch!Seeds : used'[n] > 1 => used[n] > 1 \/ (n = seed.seed /\ used[n] > 0)
      <4> SUFFICES ASSUME NEW n \in Switch!Seeds, used'[n] > 1
                   PROVE  used[n] > 1 \/ (n = seed.seed /\ used[n] > 0)
        OBVIOUS
      <4>1. used \in [Switch!Seeds -> Nat] /\ used[n] \in Nat
        BY DEF SwitchTyped
      <4>2. used' = used \/ used' = [used EXCEPT ![seed.seed] = @ + 1]
        BY <1>2 DEF Switch!Load
      <4>3. used'[n] = used[n] \/ (n = seed.seed /\ used'[n] = used[n] + 1)
        BY <4>1, <4>2
      <4> QED
        BY <4>1, <4>3
    <3> QED
      BY <2>0, <3>1 DEF LoadedSeedGoes, Switch!SeedIsUsedOnce
  <2> QED
    BY <2>1, <2>2, <2>3, <2>4, <2>5
<1>3. CASE Switch!JobStep
  <2>0. job # Nil /\ UNCHANGED <<s_pc, left, used, cut, s_boots, hung>> /\ s_boots > 0
        /\ Switch!Fresh = 2 * s_boots - (IF s_pc = "loading" THEN 1 ELSE 0)
    BY <1>3 DEF Switch!JobStep, Switch!Fresh, SwitchTyped, SeedIsSaved
  <2>1. /\ job' \in {"remove", "create", "fill", "end"} /\ job # "end"
        /\ \/ seed' = seed /\ job = "append" /\ job' = "remove"
           \/ \E n \in {Switch!Empty, Switch!Gone}, p \in BOOLEAN :
                  seed' = [seed |-> n, private |-> p] /\ job' # "end"
           \/ seed' = [seed |-> Switch!Fresh, private |-> TRUE] /\ job' = "end"
    BY <1>3 DEF Switch!JobStep, Switch!Absent, Switch!File
  <2>2. /\ seed' \in SeedFiles
        /\ \/ seed' = seed /\ job = "append" /\ job' = "remove"
           \/ seed'.seed \notin Switch!Seeds /\ job' # "end"
           \/ /\ seed' = [seed |-> Switch!Fresh, private |-> TRUE]
              /\ seed'.seed = Switch!Fresh /\ job' = "end"
    <3> DEFINE F == Switch!Fresh
    <3>1. s_boots \in 0 .. MaxStarts /\ F \in 0 .. 2 * MaxStarts
      BY <2>0 DEF SwitchTyped
    <3> HIDE DEF F
    <3>2. CASE seed' = seed /\ job = "append" /\ job' = "remove"
      BY <3>2 DEF SwitchTyped
    <3>3. ASSUME NEW n \in {Switch!Empty, Switch!Gone}, NEW p \in BOOLEAN,
                 seed' = [seed |-> n, private |-> p], job' # "end"
          PROVE  seed' \in SeedFiles /\ seed'.seed \notin Switch!Seeds
      <4>1. n \in 0 .. 2 * MaxStarts + 2 /\ n \notin Switch!Seeds
        OBVIOUS
      <4>2. seed' \in SeedFiles
        BY <3>3, <4>1 DEF SeedFiles
      <4> QED
        BY <3>3, <4>1, <4>2
    <3>4. CASE seed' = [seed |-> Switch!Fresh, private |-> TRUE] /\ job' = "end"
      <4>1. F \in 0 .. 2 * MaxStarts + 2
        BY <3>1
      <4>2. [seed |-> F, private |-> TRUE] \in SeedFiles
        BY <4>1 DEF SeedFiles
      <4> QED
        BY <3>4, <4>2 DEF F
    <3> QED
      BY <2>1, <3>2, <3>3, <3>4
  <2>3. SwitchTyped'
    BY <2>0, <2>1, <2>2 DEF SwitchTyped, Commands
  <2>4. NumbersGrow'
    <3>1. s_boots \in Nat /\ Switch!Fresh <= 2 * s_boots
      BY <2>0 DEF SwitchTyped
    <3>2. CASE seed' = seed /\ job = "append" /\ job' = "remove"
      BY <2>0, <3>2 DEF NumbersGrow
    <3>3. CASE seed'.seed \notin Switch!Seeds
      BY <2>0, <3>3 DEF NumbersGrow
    <3>4. CASE seed'.seed = Switch!Fresh /\ job' = "end"
      <4>1. s_pc' # "load"
        BY <2>0 DEF SeedIsSaved
      <4> QED
        BY <2>0, <3>1, <3>4, <4>1 DEF NumbersGrow
    <3> QED
      BY <2>2, <3>2, <3>3, <3>4
  <2>5. LoadedSeedGoes'
    <3>1. ASSUME NEW n \in Switch!Seeds, used'[n] > 0, seed'.seed = n
          PROVE  n \in cut' \/ (s_pc' = "loading" /\ job' \in {"append", "remove"})
      <4>1. CASE seed' = seed /\ job = "append" /\ job' = "remove"
        BY <2>0, <3>1, <4>1 DEF LoadedSeedGoes
      <4>2. CASE seed'.seed = Switch!Fresh
        BY <2>0, <3>1, <4>2 DEF NumbersGrow, SwitchTyped
      <4> QED
        BY <2>2, <3>1, <4>1, <4>2
    <3> QED
      BY <3>1 DEF LoadedSeedGoes
  <2>6. SeedIsSaved'
    <3>1. s_pc \notin {"off", "load", "up", "date", "halted"}
      BY <2>0 DEF SeedIsSaved
    <3>2. job' # Nil
      BY <2>1 DEF Commands
    <3>3. s_pc = "stopping" /\ job' = "end" => Saved'
      <4>1. s_pc = "stopping" => Switch!Fresh = 2 * s_boots
        BY <2>0 DEF SwitchTyped
      <4> QED
        BY <2>0, <2>1, <4>1 DEF Saved
    <3>4. s_pc = "stopping" => /\ left # <<>> /\ Head(left) = "random_seed"
                              /\ \E i \in DOMAIN left : left[i] = "random_seed"
      BY <2>0 DEF SeedIsSaved
    <3> QED
      BY <2>0, <3>1, <3>2, <3>3, <3>4 DEF SeedIsSaved
  <2>7. Switch!SeedIsUsedOnce'
    BY <2>0 DEF Switch!SeedIsUsedOnce
  <2> QED
    BY <2>3, <2>4, <2>5, <2>6, <2>7
<1>4. CASE Switch!JobEnd
  <2>1. SwitchTyped'
    <3>1. job = "end" /\ job' = Nil /\ UNCHANGED <<seed, used, s_boots>> /\ job # Nil
      BY <1>4 DEF Switch!JobEnd, Commands
    <3>2. left' \in Seq(STRING)
      <4>1. CASE s_pc = "stopping"
        <5>1. left # <<>> /\ left \in Seq(STRING) /\ left' = Tail(left)
          BY <1>4, <3>1, <4>1 DEF Switch!JobEnd, SwitchTyped, SeedIsSaved
        <5> QED
          BY <5>1
      <4> QED
        BY <1>4, <4>1 DEF Switch!JobEnd, SwitchTyped
    <3>3. s_pc' = (IF s_pc = "loading" THEN "up" ELSE s_pc)
      BY <1>4 DEF Switch!JobEnd
    <3> QED
      BY <3>1, <3>2, <3>3 DEF SwitchTyped
  <2>2. NumbersGrow'
    BY <1>4 DEF Switch!JobEnd, SwitchTyped, NumbersGrow, SeedIsSaved, Commands
  <2>3. LoadedSeedGoes'
    BY <1>4 DEF Switch!JobEnd, LoadedSeedGoes, Commands
  <2>4. SeedIsSaved'
    BY <1>4 DEF Switch!JobEnd, SwitchTyped, SeedIsSaved, Saved, Commands
  <2>5. Switch!SeedIsUsedOnce'
    BY <1>4 DEF Switch!JobEnd, Switch!SeedIsUsedOnce
  <2> QED
    BY <2>1, <2>2, <2>3, <2>4, <2>5
<1>5. CASE Switch!BeginShutdown
  <2>0. left' \in Seq(STRING) /\ \E i \in DOMAIN left' : left'[i] = "random_seed"
    BY <1>5, EveryScriptIsStopped DEF Switch!BeginShutdown
  <2>1. SwitchTyped'
    BY <1>5, <2>0 DEF Switch!BeginShutdown, SwitchTyped
  <2>2. NumbersGrow' /\ LoadedSeedGoes' /\ Switch!SeedIsUsedOnce'
    BY <1>5 DEF Switch!BeginShutdown, NumbersGrow, LoadedSeedGoes, Switch!SeedIsUsedOnce
  <2>3. SeedIsSaved'
    BY <1>5, <2>0 DEF Switch!BeginShutdown, SeedIsSaved, Commands
  <2> QED
    BY <2>1, <2>2, <2>3
<1>6. CASE Switch!StopScript
  <2>1. SwitchTyped'
    <3>1. left' \in Seq(STRING)
      <4>1. left \in Seq(STRING) /\ left # <<>> /\ (left' = left \/ left' = Tail(left))
        BY <1>6 DEF Switch!StopScript, SwitchTyped
      <4> QED
        BY <4>1
    <3>2. job' \in Commands \cup {Nil}
      BY <1>6 DEF Switch!StopScript, SwitchTyped, Commands
    <3> QED
      BY <1>6, <3>1, <3>2 DEF Switch!StopScript, SwitchTyped
  <2>2. NumbersGrow' /\ Switch!SeedIsUsedOnce'
    BY <1>6 DEF Switch!StopScript, NumbersGrow, Switch!SeedIsUsedOnce
  <2>3. LoadedSeedGoes'
    BY <1>6 DEF Switch!StopScript, LoadedSeedGoes
  <2>4. SeedIsSaved'
    <3>0. /\ s_pc = "stopping" /\ s_pc' = s_pc /\ job = Nil /\ UNCHANGED <<seed, s_boots>>
          /\ left # <<>> /\ left \in Seq(STRING)
      BY <1>6 DEF Switch!StopScript, SwitchTyped
    <3>1. CASE Head(left) = "random_seed" /\ job' = "append" /\ left' = left
      BY <3>0, <3>1 DEF SeedIsSaved, Saved, Commands
    <3>2. CASE job' = job /\ left' = left
      BY <3>0, <3>2 DEF SeedIsSaved, Saved, Commands
    <3>3. CASE Head(left) # "random_seed" /\ job' = job /\ left' = Tail(left)
      <4>1. ASSUME NEW i \in DOMAIN left, left[i] = "random_seed"
            PROVE  i - 1 \in DOMAIN left' /\ left'[i - 1] = "random_seed"
        <5>1. i # 1 /\ i \in 1 .. Len(left) /\ Len(left) \in Nat
          BY <3>0, <3>3, <4>1
        <5>2. Len(left') = Len(left) - 1 /\ i - 1 \in 1 .. Len(left) - 1
          BY <3>0, <3>3, <5>1
        <5>3. left' \in Seq(STRING) /\ left'[i - 1] = left[i]
          BY <3>0, <3>3, <5>1, <5>2
        <5> QED
          BY <4>1, <5>2, <5>3
      <4>2. Saved' <=> Saved
        BY <3>0 DEF Saved
      <4> QED
        BY <3>0, <3>3, <4>1, <4>2 DEF SeedIsSaved, Commands
    <3> QED
      BY <1>6, <3>1, <3>2, <3>3 DEF Switch!StopScript
  <2> QED
    BY <2>1, <2>2, <2>3, <2>4
<1>7. CASE Switch!Finish \/ Switch!Halt \/ Switch!Expire \/ Switch!Fire
  <2> USE DEF Switch!Finish, Switch!Halt, Switch!Expire, Switch!Fire
  <2>1. SwitchTyped'
    BY <1>7 DEF SwitchTyped
  <2>2. NumbersGrow'
    BY <1>7 DEF NumbersGrow
  <2>3. LoadedSeedGoes' /\ Switch!SeedIsUsedOnce'
    BY <1>7 DEF LoadedSeedGoes, Switch!SeedIsUsedOnce
  <2>4. SeedIsSaved'
    BY <1>7 DEF SwitchTyped, SeedIsSaved, Saved, Commands
  <2> QED
    BY <2>1, <2>2, <2>3, <2>4
<1>8. CASE Switch!PowerOn
  <2>1. SwitchTyped'
    BY <1>8 DEF Switch!PowerOn, SwitchTyped
  <2>2. NumbersGrow'
    BY <1>8 DEF Switch!PowerOn, SwitchTyped, NumbersGrow
  <2>3. LoadedSeedGoes' /\ Switch!SeedIsUsedOnce'
    BY <1>8 DEF Switch!PowerOn, LoadedSeedGoes, Switch!SeedIsUsedOnce
  <2>4. SeedIsSaved'
    BY <1>8 DEF Switch!PowerOn, SeedIsSaved
  <2> QED
    BY <2>1, <2>2, <2>3, <2>4
<1>9. CASE Switch!TurnOff \/ Switch!PowerLoss
  <2>0. /\ s_pc' = "off" /\ left' = <<>> /\ hung' = FALSE /\ job' = Nil
        /\ UNCHANGED <<seed, used, s_boots>>
        /\ cut' = IF s_pc = "loading" /\ job \in {"append", "remove"} THEN cut \cup {seed.seed} ELSE cut
    BY <1>9 DEF Switch!TurnOff, Switch!PowerLoss, Switch!Off
  <2>1. SwitchTyped'
    BY <2>0 DEF SwitchTyped
  <2>2. NumbersGrow'
    BY <2>0 DEF SwitchTyped, NumbersGrow
  <2>3. LoadedSeedGoes' /\ Switch!SeedIsUsedOnce'
    BY <2>0 DEF LoadedSeedGoes, Switch!SeedIsUsedOnce
  <2>4. SeedIsSaved'
    BY <2>0 DEF SeedIsSaved
  <2> QED
    BY <2>1, <2>2, <2>3, <2>4
<1> QED
  BY <1>1, <1>2, <1>3, <1>4, <1>5, <1>6, <1>7, <1>8, <1>9 DEF Switch!Next

\* However often the machine is switched on and off or loses power, a seed goes
\* into the kernel once, unless power was cut between its use and its removal,
\* and a shutdown that ends leaves a new one. (rc.d/random_seed:25-85)
THEOREM SeedsAreSound == Switch!Spec => []SeedIsSound
<1>1. SeedInv => SeedIsSound
  <2> SUFFICES ASSUME SeedInv PROVE Switch!ShutdownLeavesSeed
    BY DEF SeedInv, SeedIsSound, Switch!SeedIsSound
  <2>1. CASE s_pc = "halted"
    <3>1. seed = [seed |-> 2 * s_boots, private |-> TRUE] /\ 2 * s_boots \in Switch!Seeds
      BY <2>1, SeedFacts DEF SeedInv, SeedIsSaved, Saved, SwitchTyped
    <3>2. used[2 * s_boots] = 0
      <4>1. s_boots \in Nat /\ used[2 * s_boots] \in Nat
        BY <3>1, SeedFacts DEF SeedInv, SwitchTyped
      <4>2. used[2 * s_boots] > 0 => 2 * s_boots <= 2 * s_boots - 2
        BY <3>1 DEF SeedInv, NumbersGrow
      <4> QED
        BY <4>1, <4>2
    <3> QED
      BY <3>1, <3>2 DEF Switch!ShutdownLeavesSeed
  <2> QED
    BY <2>1 DEF Switch!ShutdownLeavesSeed
<1> QED
  BY InitSeedInv, StepSeedInv, <1>1, PTL DEF Switch!Spec

------------------------------------------------------------------------------
(***************************************************************************)
(* pkg-generic.mk and apply-patches.sh.  The stamps up to .stamp_patched   *)
(* are made in their order and no target removes them, so patching always  *)
(* starts before its stamp exists; and .applied_patches_list is always the *)
(* beginning of the list of patches.                                       *)
(***************************************************************************)
StepNumbers == 1 .. 6
PatchNumbers == 1 .. Len(Patches)
BuildTyped ==
    /\ stamps \subseteq StepNumbers /\ older \subseteq stamps /\ stale \subseteq StepNumbers
    /\ rms \in Seq({4, 5, 6}) /\ b_at \in 0 .. 6
    /\ times \in [Build!PatchSet -> Nat] /\ listed \subseteq Build!PatchSet
    /\ patch \in [next : Nat \ {0}, listed : BOOLEAN]
    /\ (result # "none" => b_at = 0) /\ (rms # <<>> => b_at = 0)

\* A step whose results are not current is not taken for done.
StaleIsSeen == \A i \in stale : \E j \in 1 .. i : Build!Outdated(j)

\* The first three steps are done once and in their order.
FirstSteps ==
    /\ 2 \in stamps => 1 \in stamps
    /\ 3 \in stamps => 2 \in stamps
    /\ \A i \in 1 .. 3 : i \notin older /\ (b_at = i => i \notin stamps)
    /\ b_at > 1 => 1 \in stamps
    /\ b_at > 2 => 2 \in stamps
    /\ b_at > 3 => 3 \in stamps

ListIsPrefix ==
    /\ \A k \in PatchNumbers : Patches[k] \notin listed => times[Patches[k]] = 0
    /\ \A k, l \in PatchNumbers : k < l /\ Patches[l] \in listed => Patches[k] \in listed

\* The patches up to the next one are in the sources, the later ones are not
\* even listed, unless an earlier call of the script has left them there.
Unlisted(k) == \A l \in PatchNumbers : k <= l => Patches[l] \notin listed
PatchingGoesOn ==
    b_at = 3 =>
        /\ \A k \in PatchNumbers : k < patch.next =>
               Patches[k] \in listed /\ times[Patches[k]] = 1
        /\ IF patch.listed
           THEN /\ patch.next \in PatchNumbers /\ Patches[patch.next] \in listed
                /\ times[Patches[patch.next]] = 0 /\ Unlisted(patch.next + 1)
           ELSE patch.next = 1 \/ Unlisted(patch.next)

\* Without a fault nothing is listed when patching starts.
CleanBefore ==
    ~ disturbed =>
        /\ b_at # 3 /\ 3 \notin stamps => listed = {}
        /\ b_at = 3 /\ ~ patch.listed => Unlisted(patch.next)

BuildInv ==
    /\ BuildTyped /\ StaleIsSeen /\ FirstSteps /\ ListIsPrefix /\ PatchingGoesOn /\ CleanBefore
    /\ BuildIsSound

\* The steps by their numbers.
LEMMA StepFacts ==
    /\ DOMAIN Build!Steps = StepNumbers /\ Len(Build!Steps) = 6
    /\ \A i \in StepNumbers : (Build!Steps[i] = "extracted" <=> i = 2) /\ (Build!Steps[i] = "patched" <=> i = 3)
    /\ Build!Number("patched") = 3 /\ Build!Number("configured") = 4
    /\ Build!Number("built") = 5 /\ Build!Number("installed") = 6
<1>1. /\ DOMAIN Build!Steps = 1 .. 6 /\ Len(Build!Steps) = 6
      /\ Build!Steps[1] = "downloaded" /\ Build!Steps[2] = "extracted" /\ Build!Steps[3] = "patched"
      /\ Build!Steps[4] = "configured" /\ Build!Steps[5] = "built" /\ Build!Steps[6] = "installed"
  BY DEF Build!Steps
<1>2. \A i \in 1 .. 6 : i = 1 \/ i = 2 \/ i = 3 \/ i = 4 \/ i = 5 \/ i = 6
  OBVIOUS
<1>3. ASSUME NEW n \in 1 .. 6, NEW step, Build!Steps[n] = step,
             \A i \in 1 .. 6 : Build!Steps[i] = step => i = n
      PROVE  Build!Number(step) = n
  BY <1>1, <1>3 DEF Build!Number
<1> HIDE DEF Build!Steps
<1>4. Build!Number("patched") = 3
  BY <1>1, <1>2, <1>3
<1>5. Build!Number("configured") = 4
  BY <1>1, <1>2, <1>3
<1>6. Build!Number("built") = 5
  BY <1>1, <1>2, <1>3
<1>7. Build!Number("installed") = 6
  BY <1>1, <1>2, <1>3
<1> QED
  BY <1>1, <1>2, <1>4, <1>5, <1>6, <1>7 DEF StepNumbers

LEMMA StepNames ==
    ASSUME NEW i \in StepNumbers
    PROVE  (Build!Steps[i] = "extracted" <=> i = 2) /\ (Build!Steps[i] = "patched" <=> i = 3)
BY StepFacts

\* The targets remove stamps of the last three steps only.
LEMMA TargetsRemoveLast ==
    ASSUME NEW target \in {"all", "reinstall", "rebuild", "reconfigure"}
    PROVE  [k \in DOMAIN Build!CleanFor(target) |-> Build!Number(Build!CleanFor(target)[k])]
               \in Seq({4, 5, 6})
<1> DEFINE clean == Build!CleanFor(target)
<1>1. /\ \/ clean = <<>>
         \/ clean = <<"installed">>
         \/ clean = <<"installed", "built">>
         \/ clean = <<"installed", "built", "configured">>
  BY DEF Build!CleanFor
<1>2. Len(clean) \in Nat /\ DOMAIN clean = 1 .. Len(clean)
      /\ \A k \in DOMAIN clean : clean[k] \in {"installed", "built", "configured"}
  BY <1>1
<1> HIDE DEF clean
<1>3. [k \in DOMAIN clean |-> Build!Number(clean[k])] \in [1 .. Len(clean) -> {4, 5, 6}]
  BY <1>2, StepFacts
<1>4. [k \in DOMAIN clean |-> Build!Number(clean[k])] \in Seq({4, 5, 6})
  BY <1>2, <1>3
<1> QED
  BY <1>4 DEF clean

LEMMA PatchFacts ==
    /\ Len(Patches) \in Nat /\ DOMAIN Patches = PatchNumbers
    /\ \A p \in Build!PatchSet : \E k \in PatchNumbers : Patches[k] = p
    /\ \A k \in PatchNumbers : Patches[k] \in Build!PatchSet
    /\ \A k, l \in PatchNumbers : Patches[k] = Patches[l] => k = l
BY PatchesAssumption DEF PatchNumbers, Build!PatchSet

LEMMA InitBuildInv == Build!Init => BuildInv
<1> SUFFICES ASSUME Build!Init PROVE BuildInv
  OBVIOUS
<1> USE StepFacts, PatchFacts DEF Build!Init
<1>1. BuildTyped
  BY DEF BuildTyped, StepNumbers
<1>2. StaleIsSeen
  BY DEF StaleIsSeen, Build!Outdated, StepNumbers
<1>3. FirstSteps /\ ListIsPrefix /\ PatchingGoesOn /\ CleanBefore
  BY DEF FirstSteps, ListIsPrefix, PatchingGoesOn, CleanBefore
<1>4. BuildIsSound
  BY DEF BuildIsSound, Build!BuildIsSound, Build!DoneIsCurrent, Build!PatchedOnce, Build!OnlyFaultsFail
<1> QED
  BY <1>1, <1>2, <1>3, <1>4 DEF BuildInv

\* The steps of make between two steps of a build.
LEMMA MakeKeeps ==
    ASSUME BuildInv, Build!Make \/ Build!DirClean \/ Build!MakeEnds
    PROVE  BuildInv'
<1> USE StepFacts, PatchFacts DEF BuildInv
<1>1. CASE Build!Make
  <2>1. rms' \in Seq({4, 5, 6})
    <3>1. PICK target \in {"all", "reinstall", "rebuild", "reconfigure"} :
              rms' = [k \in DOMAIN Build!CleanFor(target) |-> Build!Number(Build!CleanFor(target)[k])]
      BY <1>1 DEF Build!Make
    <3> QED
      BY <3>1, TargetsRemoveLast
  <2>2. b_at = 0 /\ UNCHANGED <<stamps, older, stale, times, listed, b_at, patch, disturbed>> /\ result' = "none"
    BY <1>1 DEF Build!Make, BuildTyped
  <2>3. BuildTyped'
    BY <2>1, <2>2 DEF BuildTyped
  <2>4. StaleIsSeen' /\ FirstSteps' /\ ListIsPrefix' /\ PatchingGoesOn' /\ CleanBefore'
    BY <2>2 DEF StaleIsSeen, Build!Outdated, FirstSteps, ListIsPrefix, PatchingGoesOn, CleanBefore
  <2>5. BuildIsSound'
    BY <2>2 DEF BuildIsSound, Build!BuildIsSound, Build!DoneIsCurrent, Build!PatchedOnce, Build!OnlyFaultsFail
  <2> QED
    BY <2>3, <2>4, <2>5
<1>2. CASE Build!DirClean
  <2>1. /\ b_at = 0 /\ b_at' = 0 /\ stamps' = {} /\ older' = {} /\ stale' = StepNumbers
        /\ times' = [p \in Build!PatchSet |-> 0] /\ listed' = {} /\ result' = "clean"
        /\ UNCHANGED <<rms, patch>>
    BY <1>2 DEF Build!DirClean, BuildTyped
  <2>2. BuildTyped'
    BY <2>1 DEF BuildTyped, StepNumbers
  <2>3. StaleIsSeen'
    BY <2>1 DEF StaleIsSeen, Build!Outdated, StepNumbers
  <2>4. FirstSteps' /\ ListIsPrefix' /\ PatchingGoesOn' /\ CleanBefore'
    BY <2>1 DEF FirstSteps, ListIsPrefix, PatchingGoesOn, CleanBefore
  <2>5. BuildIsSound'
    BY <2>1 DEF BuildIsSound, Build!BuildIsSound, Build!DoneIsCurrent, Build!PatchedOnce, Build!OnlyFaultsFail
  <2> QED
    BY <2>2, <2>3, <2>4, <2>5
<1>3. CASE Build!MakeEnds
  <2>1. /\ \A i \in StepNumbers : ~ Build!Outdated(i)
        /\ UNCHANGED <<stamps, older, stale, times, listed, rms, b_at, patch, disturbed>>
        /\ b_at = 0 /\ result' = "done"
    BY <1>3 DEF Build!MakeEnds, Build!Idle
  <2>2. stale = {}
    BY <2>1 DEF StaleIsSeen, BuildTyped, StepNumbers
  <2>3. BuildTyped'
    BY <2>1 DEF BuildTyped
  <2>4. StaleIsSeen' /\ FirstSteps' /\ ListIsPrefix' /\ PatchingGoesOn' /\ CleanBefore'
    BY <2>1 DEF StaleIsSeen, Build!Outdated, FirstSteps, ListIsPrefix, PatchingGoesOn, CleanBefore
  <2>5. BuildIsSound'
    BY <2>1, <2>2 DEF BuildIsSound, Build!BuildIsSound, Build!DoneIsCurrent, Build!PatchedOnce, Build!OnlyFaultsFail
  <2> QED
    BY <2>3, <2>4, <2>5
<1> QED
  BY <1>1, <1>2, <1>3

\* Removing a stamp, and a command that fails or is killed.
LEMMA RemovingKeeps == ASSUME BuildInv, Build!RemoveStamp PROVE BuildInv'
<1> USE StepFacts DEF BuildInv
<1>1. PICK i \in {4, 5, 6} : /\ i = Head(rms) /\ rms' = Tail(rms) /\ rms' \in Seq({4, 5, 6})
                           /\ stamps' = stamps \ {i} /\ older' = older \ {i, i + 1}
  <2>1. rms \in Seq({4, 5, 6}) /\ rms # <<>>
    BY DEF Build!RemoveStamp, BuildTyped
  <2>2. Head(rms) \in {4, 5, 6} /\ Tail(rms) \in Seq({4, 5, 6})
    BY <2>1
  <2> QED
    BY <2>2 DEF Build!RemoveStamp
<1>2. /\ UNCHANGED <<stale, times, listed, b_at, patch, result, disturbed>>
      /\ result = "none" /\ b_at = 0 /\ b_at' = 0
  BY DEF Build!RemoveStamp, BuildTyped
<1>3. BuildTyped'
  BY <1>1, <1>2 DEF BuildTyped
<1>4. StaleIsSeen'
  <2>1. ASSUME NEW n \in stale, NEW j \in 1 .. n, Build!Outdated(j)
        PROVE  \E k \in 1 .. n : Build!Outdated(k)'
    <3>1. n \in StepNumbers
      BY <2>1 DEF BuildTyped
    <3>2. CASE j = i + 1
      BY <1>1, <3>1, <3>2 DEF Build!Outdated, StepNumbers
    <3>3. CASE j # i + 1
      BY <1>1, <2>1, <3>3 DEF Build!Outdated
    <3> QED
      BY <3>2, <3>3
  <2> QED
    BY <1>2, <2>1 DEF StaleIsSeen
<1>5. FirstSteps'
  BY <1>1, <1>2 DEF FirstSteps
<1>6. ListIsPrefix' /\ PatchingGoesOn' /\ CleanBefore'
  BY <1>1, <1>2 DEF ListIsPrefix, PatchingGoesOn, CleanBefore
<1>7. BuildIsSound'
  BY <1>1, <1>2 DEF BuildIsSound, Build!BuildIsSound, Build!DoneIsCurrent, Build!PatchedOnce, Build!OnlyFaultsFail
<1> QED
  BY <1>3, <1>4, <1>5, <1>6, <1>7

LEMMA FaultKeeps == ASSUME BuildInv, Build!Fault PROVE BuildInv'
<1> USE DEF BuildInv
<1>1. /\ UNCHANGED <<stamps, older, stale, times, listed, patch>> /\ disturbed' = TRUE
      /\ result' = "failed" /\ b_at' = 0 /\ rms' = <<>>
  BY DEF Build!Fault, Build!Stop
<1>2. BuildTyped'
  BY <1>1 DEF BuildTyped
<1>3. StaleIsSeen' /\ ListIsPrefix' /\ PatchingGoesOn' /\ CleanBefore'
  BY <1>1 DEF StaleIsSeen, Build!Outdated, ListIsPrefix, PatchingGoesOn, CleanBefore
<1>4. FirstSteps'
  BY <1>1 DEF FirstSteps
<1>5. BuildIsSound'
  BY <1>1, StepFacts DEF BuildIsSound, Build!BuildIsSound, Build!DoneIsCurrent, Build!PatchedOnce, Build!OnlyFaultsFail
<1> QED
  BY <1>2, <1>3, <1>4, <1>5

\* A step is started when those before it are up to date: patching, before its
\* stamp exists.
LEMMA StartKeeps ==
    ASSUME BuildInv, Build!Idle, NEW i \in StepNumbers, Build!StartStep(i)
    PROVE  BuildInv'
<1> USE StepFacts, PatchFacts DEF BuildInv
<1>1. /\ UNCHANGED <<stamps, older, times, listed, rms, result, disturbed>>
      /\ b_at = 0 /\ b_at' = i /\ rms = <<>> /\ result = "none"
      /\ stale' = stale \cup i .. 6 /\ patch' = [next |-> 1, listed |-> FALSE]
      /\ Build!Outdated(i) /\ \A j \in 1 .. i - 1 : j \in stamps /\ j \notin older
  BY DEF Build!StartStep, Build!Idle, Build!Outdated
<1>2. BuildTyped'
  <2>1. patch' \in [next : Nat \ {0}, listed : BOOLEAN]
    BY <1>1
  <2> QED
    BY <1>1, <2>1 DEF BuildTyped, StepNumbers
<1>3. StaleIsSeen'
  <2>1. ASSUME NEW n \in i .. 6 PROVE i \in 1 .. n
    BY DEF StepNumbers
  <2> QED
    BY <1>1, <2>1 DEF StaleIsSeen, Build!Outdated
<1>4. FirstSteps'
  <2>1. \A j \in {1, 2, 3} : j < i => j \in stamps
    BY <1>1 DEF StepNumbers
  <2>2. i \in {1, 2, 3} => i \notin stamps
    BY <1>1 DEF FirstSteps, Build!Outdated
  <2>3. \A j \in 1 .. 3 : j \notin older' /\ (b_at' = j => j \notin stamps')
    BY <1>1, <2>2 DEF FirstSteps
  <2> QED
    BY <1>1, <2>1, <2>3 DEF FirstSteps, StepNumbers
<1>5. ListIsPrefix' /\ PatchingGoesOn'
  <2>1. patch'.next = 1 /\ patch'.listed = FALSE
    BY <1>1
  <2> QED
    BY <1>1, <2>1 DEF ListIsPrefix, PatchingGoesOn, PatchNumbers
<1>6. CleanBefore'
  <2>1. i = 3 => 3 \notin stamps
    BY <1>1 DEF FirstSteps, Build!Outdated
  <2>2. i = 3 /\ ~ disturbed => listed = {}
    BY <1>1, <2>1 DEF CleanBefore
  <2> QED
    BY <1>1, <2>2 DEF CleanBefore, Unlisted
<1>7. BuildIsSound'
  BY <1>1 DEF BuildIsSound, Build!BuildIsSound, Build!DoneIsCurrent, Build!PatchedOnce, Build!OnlyFaultsFail
<1> QED
  BY <1>2, <1>3, <1>4, <1>5, <1>6, <1>7

\* A step that ends makes its own results current and those of the next step
\* out of date; the sources are patched when the last patch has been applied.
LEMMA EndKeeps == ASSUME BuildInv, Build!EndStep PROVE BuildInv'
<1> USE StepFacts, PatchFacts DEF BuildInv
<1>1. /\ UNCHANGED <<listed, rms, patch, result, disturbed>>
      /\ result = "none" /\ b_at \in 1 .. 6 /\ b_at' = 0
      /\ stamps' = stamps \cup {b_at} /\ older' = (older \ {b_at}) \cup ({b_at + 1} \cap stamps)
      /\ stale' = stale \ {b_at}
      /\ b_at = 3 => patch.next > Len(Patches)
      /\ times' = IF b_at = 2 THEN [p \in Build!PatchSet |-> 0] ELSE times
  <2>1. b_at \in 1 .. 6 /\ b_at \in StepNumbers
    BY DEF Build!EndStep, BuildTyped, StepNumbers
  <2>2. (Build!Steps[b_at] = "patched" <=> b_at = 3) /\ (Build!Steps[b_at] = "extracted" <=> b_at = 2)
    BY <2>1, StepNames
  <2> HIDE StepFacts, PatchFacts
  <2> QED
    BY <2>1, <2>2 DEF Build!EndStep, Build!Touch
<1>2. BuildTyped'
  BY <1>1 DEF BuildTyped, StepNumbers
<1>3. StaleIsSeen'
  <2>1. ASSUME NEW n \in stale', NEW j \in 1 .. n, Build!Outdated(j)
        PROVE  \E k \in 1 .. n : Build!Outdated(k)'
    <3>1. n \in StepNumbers /\ n # b_at
      BY <1>1, <2>1 DEF BuildTyped
    <3>2. CASE j = b_at
      <4>1. j + 1 \in 1 .. n
        BY <1>1, <2>1, <3>1, <3>2 DEF StepNumbers
      <4>2. j + 1 \in older' \/ j + 1 \notin stamps'
        BY <1>1, <3>2
      <4> QED
        BY <4>1, <4>2 DEF Build!Outdated
    <3>3. CASE j # b_at
      BY <1>1, <2>1, <3>3 DEF Build!Outdated
    <3> QED
      BY <3>2, <3>3
  <2> QED
    BY <1>1, <2>1 DEF StaleIsSeen
<1>4. FirstSteps'
  <2>1. \A j \in 1 .. 3 : j = b_at + 1 => j \notin stamps
    BY <1>1 DEF FirstSteps
  <2>2. \A j \in 1 .. 3 : j \notin older'
    BY <1>1, <2>1 DEF FirstSteps
  <2>3. (2 \in stamps' => 1 \in stamps') /\ (3 \in stamps' => 2 \in stamps')
    BY <1>1 DEF FirstSteps
  <2> QED
    BY <1>1, <2>2, <2>3 DEF FirstSteps
<1>5. ListIsPrefix' /\ PatchingGoesOn'
  BY <1>1 DEF ListIsPrefix, PatchingGoesOn
<1>6. CleanBefore'
  BY <1>1 DEF CleanBefore
<1>7. 3 \in stamps' => \A p \in Build!PatchSet : times'[p] = 1
  <2>1. CASE b_at = 3
    BY <1>1, <2>1 DEF PatchingGoesOn, PatchNumbers, BuildTyped
  <2>2. CASE b_at = 2
    BY <1>1, <2>2 DEF FirstSteps
  <2>3. CASE b_at \notin {2, 3}
    BY <1>1, <2>3 DEF BuildIsSound, Build!BuildIsSound, Build!DoneIsCurrent, Build!PatchedOnce, Build!OnlyFaultsFail
  <2> QED
    BY <2>1, <2>2, <2>3
<1>8. BuildIsSound'
  BY <1>1, <1>7 DEF BuildIsSound, Build!BuildIsSound, Build!DoneIsCurrent, Build!PatchedOnce, Build!OnlyFaultsFail
<1> QED
  BY <1>2, <1>3, <1>4, <1>5, <1>6, <1>8

\* A script that stops, with or without a fault, leaves the list a prefix.
LEMMA StopKeeps ==
    ASSUME BuildInv, Build!Patching, Build!Stop, b_at = 3,
           UNCHANGED <<stamps, older, stale, listed, patch>>,
           disturbed' = TRUE, times' \in [Build!PatchSet -> Nat],
           \A k \in PatchNumbers : Patches[k] \notin listed => times'[Patches[k]] = 0
    PROVE  BuildInv'
<1> USE DEF BuildInv
<1>1. result' = "failed" /\ b_at' = 0 /\ rms' = <<>>
  BY DEF Build!Stop
<1>2. BuildTyped'
  BY <1>1 DEF BuildTyped
<1>3. StaleIsSeen' /\ ListIsPrefix' /\ PatchingGoesOn' /\ CleanBefore'
  BY <1>1 DEF StaleIsSeen, Build!Outdated, ListIsPrefix, PatchingGoesOn, CleanBefore
<1>4. FirstSteps'
  BY <1>1 DEF FirstSteps
<1>5. BuildIsSound'
  BY <1>1, StepFacts DEF FirstSteps, BuildIsSound, Build!BuildIsSound, Build!DoneIsCurrent, Build!PatchedOnce, Build!OnlyFaultsFail
<1> QED
  BY <1>2, <1>3, <1>4, <1>5

LEMMA PatchingFacts ==
    ASSUME BuildInv, Build!Patching
    PROVE  /\ b_at = 3 /\ result = "none" /\ 3 \notin stamps
           /\ patch.next \in PatchNumbers /\ patch.listed \in BOOLEAN
           /\ Patches[patch.next] \in Build!PatchSet
<1>1. b_at \in StepNumbers /\ patch.next \in Nat \ {0} /\ patch.listed \in BOOLEAN
  BY DEF BuildInv, BuildTyped, Build!Patching, StepNumbers
<1>2. b_at = 3 /\ result = "none" /\ patch.next <= Len(Patches)
  BY <1>1, StepNames DEF Build!Patching
<1>3. patch.next \in PatchNumbers
  BY <1>1, <1>2, PatchFacts DEF PatchNumbers
<1>4. 3 \notin stamps
  BY <1>2 DEF BuildInv, FirstSteps
<1> QED
  BY <1>1, <1>2, <1>3, <1>4, PatchFacts

LEMMA ListKeeps == ASSUME BuildInv, Build!ListPatch PROVE BuildInv'
<1> DEFINE n == patch.next
<1> USE PatchFacts, PatchingFacts DEF BuildInv
<1>0. Build!Patching /\ patch.listed = FALSE
  BY DEF Build!ListPatch
<1>1. CASE Patches[n] \in listed
  <2>1. Build!Stop /\ UNCHANGED <<stamps, older, stale, times, listed, patch, disturbed>>
    BY <1>1 DEF Build!ListPatch
  <2>2. disturbed
    BY <1>0, <1>1 DEF CleanBefore, Unlisted
  <2>3. disturbed' = disturbed /\ times' \in [Build!PatchSet -> Nat]
    BY <2>1 DEF BuildTyped
  <2>4. \A k \in PatchNumbers : Patches[k] \notin listed => times'[Patches[k]] = 0
    BY <2>1 DEF ListIsPrefix
  <2> QED
    BY <1>0, <2>1, <2>2, <2>3, <2>4, StopKeeps
<1>2. CASE Patches[n] \notin listed
  <2>1. /\ UNCHANGED <<stamps, older, stale, times, rms, b_at, result, disturbed>>
        /\ listed' = listed \cup {Patches[n]} /\ patch' = [patch EXCEPT !.listed = TRUE]
    BY <1>2 DEF Build!ListPatch
  <2>2. patch' \in [next : Nat \ {0}, listed : BOOLEAN] /\ patch'.next = n /\ patch'.listed = TRUE
    BY <2>1 DEF BuildTyped
  <2>3. Unlisted(n)
    BY <1>0, <1>2 DEF PatchingGoesOn, ListIsPrefix, Unlisted, PatchNumbers
  <2>4. BuildTyped'
    BY <1>0, <2>1, <2>2 DEF BuildTyped
  <2>5. StaleIsSeen' /\ FirstSteps' /\ BuildIsSound'
    BY <2>1, StepFacts DEF StaleIsSeen, Build!Outdated, FirstSteps, BuildIsSound, Build!BuildIsSound, Build!DoneIsCurrent, Build!PatchedOnce, Build!OnlyFaultsFail
  <2>6. ListIsPrefix'
    <3>1. \A k \in PatchNumbers : Patches[k] \notin listed' => times'[Patches[k]] = 0
      BY <2>1 DEF ListIsPrefix
    <3>2. \A k \in PatchNumbers : k < n => Patches[k] \in listed
      BY <1>0, <2>3 DEF PatchingGoesOn
    <3>3. \A k, l \in PatchNumbers : k < l /\ Patches[l] \in listed' => Patches[k] \in listed'
      BY <1>0, <2>1, <3>2 DEF ListIsPrefix
    <3> QED
      BY <3>1, <3>3 DEF ListIsPrefix
  <2>7. PatchingGoesOn'
    <3>1. \A k \in PatchNumbers : k < n => Patches[k] \in listed' /\ times'[Patches[k]] = 1
      BY <1>0, <2>1 DEF PatchingGoesOn
    <3>2. Patches[n] \in listed' /\ times'[Patches[n]] = 0
      BY <1>0, <1>2, <2>1 DEF ListIsPrefix
    <3>3. \A l \in PatchNumbers : n + 1 <= l => Patches[l] \notin listed'
      BY <1>0, <2>1, <2>3 DEF Unlisted, PatchNumbers
    <3> QED
      BY <1>0, <2>1, <2>2, <3>1, <3>2, <3>3 DEF PatchingGoesOn, Unlisted
  <2>8. CleanBefore'
    BY <1>0, <2>1, <2>2 DEF CleanBefore
  <2> QED
    BY <2>4, <2>5, <2>6, <2>7, <2>8
<1> QED
  BY <1>1, <1>2

LEMMA ApplyKeeps == ASSUME BuildInv, Build!ApplyPatch PROVE BuildInv'
<1> DEFINE n == patch.next
           p == Patches[patch.next]
<1> USE PatchFacts, PatchingFacts DEF BuildInv
<1>0. /\ Build!Patching /\ patch.listed = TRUE /\ p \in listed /\ times[p] = 0
      /\ Unlisted(n + 1) /\ UNCHANGED <<stamps, older, stale, listed>>
      /\ \A k \in PatchNumbers : k < n => Patches[k] \in listed /\ times[Patches[k]] = 1
  BY DEF Build!ApplyPatch, PatchingGoesOn
<1>1. [times EXCEPT ![p] = IF @ < 2 THEN @ + 1 ELSE @] = [times EXCEPT ![p] = 1]
  BY <1>0 DEF BuildTyped
<1>2. ASSUME NEW t, t = times \/ t = [times EXCEPT ![p] = 1]
      PROVE  /\ t \in [Build!PatchSet -> Nat]
             /\ \A k \in PatchNumbers : Patches[k] \notin listed => t[Patches[k]] = 0
  BY <1>0, <1>2 DEF BuildTyped, ListIsPrefix
<1>3. CASE disturbed' = TRUE /\ Build!Stop /\ UNCHANGED patch
           /\ times' \in {times, [times EXCEPT ![p] = IF @ < 2 THEN @ + 1 ELSE @]}
  BY <1>0, <1>1, <1>2, <1>3, StopKeeps
<1>4. CASE /\ times' = [times EXCEPT ![p] = IF @ < 2 THEN @ + 1 ELSE @]
           /\ patch' = [next |-> n + 1, listed |-> FALSE]
           /\ UNCHANGED <<rms, b_at, result, disturbed>>
  <2>1. /\ times' = [times EXCEPT ![p] = 1] /\ times' \in [Build!PatchSet -> Nat]
        /\ patch' \in [next : Nat \ {0}, listed : BOOLEAN]
        /\ patch'.next = n + 1 /\ patch'.listed = FALSE
    BY <1>0, <1>1, <1>2, <1>4 DEF PatchNumbers
  <2>2. BuildTyped'
    BY <1>0, <1>4, <2>1 DEF BuildTyped
  <2>3. StaleIsSeen' /\ FirstSteps'
    BY <1>0, <1>4 DEF StaleIsSeen, Build!Outdated, FirstSteps
  <2>4. ListIsPrefix'
    BY <1>0, <1>2, <2>1 DEF ListIsPrefix
  <2>5. PatchingGoesOn'
    <3>1. \A k \in PatchNumbers : k < n + 1 => Patches[k] \in listed' /\ times'[Patches[k]] = 1
      BY <1>0, <2>1 DEF BuildTyped, PatchNumbers
    <3> QED
      BY <1>0, <2>1, <3>1 DEF PatchingGoesOn, Unlisted
  <2>6. CleanBefore'
    BY <1>0, <1>4, <2>1 DEF CleanBefore, Unlisted
  <2>7. BuildIsSound'
    BY <1>0, <1>4, StepFacts DEF BuildIsSound, Build!BuildIsSound, Build!DoneIsCurrent, Build!PatchedOnce, Build!OnlyFaultsFail
  <2> QED
    BY <2>2, <2>3, <2>4, <2>5, <2>6, <2>7
<1>5. ~ (times[p] > 0)
  BY <1>0
<1> QED
  BY <1>0, <1>3, <1>4, <1>5 DEF Build!ApplyPatch

LEMMA StepBuildInv == BuildInv /\ [Build!Next]_(Build!vars) => BuildInv'
<1> SUFFICES ASSUME BuildInv, [Build!Next]_(Build!vars) PROVE BuildInv'
  OBVIOUS
<1>1. CASE UNCHANGED Build!vars
  BY <1>1 DEF Build!vars, BuildInv, BuildTyped, StaleIsSeen, Build!Outdated, FirstSteps, ListIsPrefix,
              PatchingGoesOn, CleanBefore, Unlisted, BuildIsSound, Build!BuildIsSound, Build!DoneIsCurrent, Build!PatchedOnce, Build!OnlyFaultsFail
<1>2. ASSUME Build!Idle, NEW i \in DOMAIN Build!Steps, Build!StartStep(i) PROVE BuildInv'
  BY <1>2, StepFacts, StartKeeps
<1> QED
  BY <1>1, <1>2, MakeKeeps, RemovingKeeps, FaultKeeps, EndKeeps, ListKeeps, ApplyKeeps DEF Build!Next

\* For any list of patches, and whatever is interrupted and removed on the way:
\* a make that succeeds leaves current results, patched sources have every
\* patch once, and only a fault makes a build fail. (pkg-generic.mk:127-310,
\* apply-patches.sh:106-119)
THEOREM BuildsAreSound == Build!Spec => []BuildIsSound
<1>1. BuildInv => BuildIsSound
  BY DEF BuildInv
<1> QED
  BY InitBuildInv, StepBuildInv, <1>1, PTL DEF Build!Spec

------------------------------------------------------------------------------
(***************************************************************************)
(* etc/rc.  What a writer has sent is, in its order and without a gap, in  *)
(* the log, then in the unfinished line, then in the pipe; and the pipe    *)
(* keeps the order of the metadata: nothing but what daemons write follows *)
(* the exit line, and no status of a command the end line.                 *)
(***************************************************************************)
CommandSet == {Pipe!Commands[i] : i \in DOMAIN Pipe!Commands}
Pieces == [word : Pipe!Words \cup {"text", "failures"}, from : Pipe!Writers \cup CommandSet \cup {Nil},
           arg : Nat \cup SUBSET CommandSet, nl : BOOLEAN]
WorkTyped ==
    /\ p_pc \in {"start", "name", "run", "asking", "status", "exit", "exit1", "gone"}
    /\ p_at \in 1 .. Len(Pipe!Commands) + 1
    /\ p_pc \in {"run", "asking", "status"} => p_at \in DOMAIN Pipe!Commands
    /\ failed \subseteq CommandSet /\ failures \subseteq CommandSet
    /\ killed => p_pc = "gone"
PipeTyped ==
    /\ WorkTyped /\ sent \in [Pipe!Writers -> Nat]
    /\ pipe \in Seq(Pieces) /\ partial \in Seq(Pieces) /\ log \in Seq(Pieces)

\* Every number that s has comes before those t has.
Below(s, t, w) == \A m, n : Pipe!Has(s, w, m) /\ Pipe!Has(t, w, n) => m < n
StreamOf(w) ==
    /\ Pipe!Ordered(log, w) /\ Pipe!Ordered(partial, w) /\ Pipe!Ordered(pipe, w)
    /\ Below(log, partial, w) /\ Below(log, pipe, w) /\ Below(partial, pipe, w)
    /\ \A n : Pipe!Has(log, w, n) \/ Pipe!Has(partial, w, n) \/ Pipe!Has(pipe, w, n)
           <=> n \in 1 .. sent[w]
TextsOnly(s) == \A i \in DOMAIN s : s[i].word = "text"
LinesEnd(s) == \A i \in DOMAIN s : s[i].word # "text" => s[i].nl = TRUE
TextsAreKept ==
    /\ \A w \in Pipe!Writers : StreamOf(w)
    /\ TextsOnly(partial) /\ LinesEnd(pipe)

\* Nothing but texts of daemons follows the exit line.
HasExit(s) == \E i \in DOMAIN s : s[i].word = "exit"
HasExitZero(s) == \E i \in DOMAIN s : s[i].word = "exit" /\ s[i].arg = 0
IsOfDaemon(piece) ==
    piece.word = "text" /\ \A s \in Pipe!ScriptSet : piece.from # Pipe!Fore(s)
ExitEnds(s) ==
    \A i \in DOMAIN s : s[i].word = "exit" =>
        s[i].arg \in {0, 1} /\ \A j \in DOMAIN s : i < j => IsOfDaemon(s[j])
ExitIsLast ==
    /\ ExitEnds(pipe)
    /\ HasExit(pipe) => p_pc = "gone" /\ ~ killed
    /\ p_status # Nil => p_pc = "gone"
    /\ p_pc = "gone" /\ ~ killed /\ p_status = Nil => HasExit(pipe)
    /\ p_status = 0 => ~ killed

\* The failures the reader knows of or will read of.
Reported(s) == {s[i].from : i \in {j \in DOMAIN s : s[j].word = "cmd-status" /\ s[j].arg # 0}}
Known == failures \cup Reported(pipe)
Ended == p_pc = "exit" \/ p_status = 0 \/ HasExitZero(pipe)
FailuresArrive ==
    /\ Known \subseteq failed
    /\ p_pc \in {"start", "name", "run", "asking"} => failed \subseteq Known
    /\ p_pc = "status" => failed \subseteq Known \cup {Pipe!Commands[p_at]}
    /\ Ended => p_at = Len(Pipe!Commands) + 1 /\ failed \subseteq Known
    /\ p_status = 0 => failures = failed

\* The line that tells of them is read after the last of them.
ListLogged == \E i \in DOMAIN log : log[i].word = "failures" /\ log[i].arg = failed
EndIn(s) ==
    \E e \in DOMAIN s : s[e].word = "end" /\ \A j \in DOMAIN s : e < j => s[j].word # "cmd-status"
FailuresAreListed == Ended => failed = {} \/ ListLogged \/ (p_status = Nil /\ EndIn(pipe))

ScriptsAreRead == p_status # Nil /\ ~ killed => \A s \in Pipe!ScriptSet : Pipe!AllLogged(Pipe!Fore(s))

PipeInv ==
    PipeTyped /\ TextsAreKept /\ ExitIsLast /\ FailuresArrive /\ FailuresAreListed /\ ScriptsAreRead

\* A piece is put at the end of the pipe.
LEMMA AppendFacts ==
    ASSUME NEW s \in Seq(Pieces), NEW x \in Pieces
    PROVE  LET t == Append(s, x) IN
           /\ t \in Seq(Pieces)
           /\ \A w, n : Pipe!Has(t, w, n) <=> Pipe!Has(s, w, n) \/ (Pipe!IsText(x, w) /\ x.arg = n)
           /\ \A w : Pipe!Ordered(s, w) /\ (Pipe!IsText(x, w) => \A n : Pipe!Has(s, w, n) => n < x.arg)
                      => Pipe!Ordered(t, w)
           /\ LinesEnd(s) /\ (x.word # "text" => x.nl = TRUE) => LinesEnd(t)
           /\ HasExit(t) <=> HasExit(s) \/ x.word = "exit"
           /\ HasExitZero(t) <=> HasExitZero(s) \/ (x.word = "exit" /\ x.arg = 0)
           /\ ExitEnds(s) /\ (HasExit(s) => IsOfDaemon(x)) /\ (x.word = "exit" => x.arg \in {0, 1})
                  => ExitEnds(t)
           /\ Reported(t) = Reported(s) \cup (IF x.word = "cmd-status" /\ x.arg # 0 THEN {x.from} ELSE {})
           /\ x.word = "end" \/ (x.word # "cmd-status" /\ EndIn(s)) => EndIn(t)
<1> DEFINE t == Append(s, x)
           L == Len(s)
<1>1. /\ t \in Seq(Pieces) /\ L \in Nat /\ DOMAIN s = 1 .. L /\ DOMAIN t = 1 .. L + 1
      /\ \A i \in 1 .. L : t[i] = s[i]
      /\ t[L + 1] = x
  OBVIOUS
<1>2. \A i \in DOMAIN t : i \in DOMAIN s \/ i = L + 1
  BY <1>1
<1>3. \A i \in DOMAIN s : i \in DOMAIN t /\ t[i] = s[i] /\ i < L + 1
  BY <1>1
<1>4. L + 1 \in DOMAIN t /\ L + 1 \notin DOMAIN s
  BY <1>1
<1> HIDE DEF t, L
<1>5. \A w, n : Pipe!Has(t, w, n) <=> Pipe!Has(s, w, n) \/ (Pipe!IsText(x, w) /\ x.arg = n)
  BY <1>1, <1>2, <1>3, <1>4 DEF Pipe!Has
<1>6. ASSUME NEW w, Pipe!Ordered(s, w), Pipe!IsText(x, w) => \A n : Pipe!Has(s, w, n) => n < x.arg
      PROVE  Pipe!Ordered(t, w)
  BY <1>1, <1>2, <1>3, <1>4, <1>6 DEF Pipe!Ordered, Pipe!Has
<1>7. LinesEnd(s) /\ (x.word # "text" => x.nl = TRUE) => LinesEnd(t)
  BY <1>1, <1>2, <1>3 DEF LinesEnd
<1>8. /\ HasExit(t) <=> HasExit(s) \/ x.word = "exit"
      /\ HasExitZero(t) <=> HasExitZero(s) \/ (x.word = "exit" /\ x.arg = 0)
  BY <1>1, <1>2, <1>3, <1>4 DEF HasExit, HasExitZero
<1>9. ExitEnds(s) /\ (HasExit(s) => IsOfDaemon(x)) /\ (x.word = "exit" => x.arg \in {0, 1}) => ExitEnds(t)
  BY <1>1, <1>2, <1>3, <1>4 DEF ExitEnds, HasExit
<1>10. Reported(t) = Reported(s) \cup (IF x.word = "cmd-status" /\ x.arg # 0 THEN {x.from} ELSE {})
  BY <1>1, <1>2, <1>3, <1>4 DEF Reported
<1>11. x.word = "end" \/ (x.word # "cmd-status" /\ EndIn(s)) => EndIn(t)
  BY <1>1, <1>2, <1>3, <1>4 DEF EndIn
<1> QED
  BY <1>1, <1>5, <1>6, <1>7, <1>8, <1>9, <1>10, <1>11 DEF t

\* The reader takes the first piece.
LEMMA TailFacts ==
    ASSUME NEW s \in Seq(Pieces), s # <<>>
    PROVE  LET t == Tail(s)
               x == Head(s) IN
           /\ t \in Seq(Pieces) /\ x \in Pieces
           /\ \A w, n : Pipe!Has(s, w, n) <=> Pipe!Has(t, w, n) \/ (Pipe!IsText(x, w) /\ x.arg = n)
           /\ \A w : Pipe!Ordered(s, w) =>
                  Pipe!Ordered(t, w) /\ (Pipe!IsText(x, w) => \A n : Pipe!Has(t, w, n) => x.arg < n)
           /\ LinesEnd(s) => LinesEnd(t) /\ (x.word # "text" => x.nl = TRUE)
           /\ HasExit(s) <=> HasExit(t) \/ x.word = "exit"
           /\ HasExitZero(t) => HasExitZero(s)
           /\ x.word = "exit" /\ x.arg = 0 => HasExitZero(s)
           /\ ExitEnds(s) => ExitEnds(t)
           /\ ExitEnds(s) /\ x.word = "exit" =>
                  /\ x.arg \in {0, 1} /\ Reported(t) = {} /\ ~ HasExit(t) /\ ~ EndIn(s)
                  /\ \A v \in Pipe!ScriptSet : \A n : ~ Pipe!Has(t, Pipe!Fore(v), n)
           /\ Reported(s) = Reported(t) \cup (IF x.word = "cmd-status" /\ x.arg # 0 THEN {x.from} ELSE {})
           /\ EndIn(s) => EndIn(t) \/ (x.word = "end" /\ Reported(t) = {})
<1> DEFINE t == Tail(s)
           x == Head(s)
           L == Len(s)
<1>1. /\ t \in Seq(Pieces) /\ L \in Nat \ {0} /\ DOMAIN s = 1 .. L /\ DOMAIN t = 1 .. L - 1
      /\ x = s[1] /\ x \in Pieces
      /\ \A i \in 1 .. L - 1 : t[i] = s[i + 1]
  OBVIOUS
<1>2. \A i \in DOMAIN t : i + 1 \in DOMAIN s /\ t[i] = s[i + 1] /\ 1 < i + 1
  BY <1>1
<1>3. \A i \in DOMAIN s : i = 1 \/ (i - 1 \in DOMAIN t /\ t[i - 1] = s[i] /\ 1 < i)
  <2>1. ASSUME NEW i \in DOMAIN s, i # 1 PROVE i - 1 \in 1 .. L - 1 /\ (i - 1) + 1 = i /\ 1 < i
    BY <1>1, <2>1
  <2> QED
    BY <1>1, <2>1
<1>4. 1 \in DOMAIN s
  BY <1>1
<1>5. DOMAIN s \subseteq Nat /\ DOMAIN t \subseteq Nat
  BY <1>1
<1>6. \A i, j \in DOMAIN s : i # 1 /\ j # 1 /\ i < j => i - 1 < j - 1
  BY <1>1
<1>7. \A i, j \in DOMAIN t : i < j => i + 1 < j + 1
  BY <1>1
<1> HIDE DEF t, x, L
<1>8. \A w, n : Pipe!Has(s, w, n) <=> Pipe!Has(t, w, n) \/ (Pipe!IsText(x, w) /\ x.arg = n)
  BY <1>1, <1>2, <1>3, <1>4 DEF Pipe!Has
<1>9. ASSUME NEW w, Pipe!Ordered(s, w)
      PROVE  Pipe!Ordered(t, w) /\ (Pipe!IsText(x, w) => \A n : Pipe!Has(t, w, n) => x.arg < n)
  BY <1>1, <1>2, <1>4, <1>7, <1>9 DEF Pipe!Ordered, Pipe!Has
<1>10. LinesEnd(s) => LinesEnd(t) /\ (x.word # "text" => x.nl = TRUE)
  BY <1>1, <1>2, <1>4 DEF LinesEnd
<1>11. HasExit(s) <=> HasExit(t) \/ x.word = "exit"
  BY <1>1, <1>2, <1>3, <1>4 DEF HasExit
<1>12. (HasExitZero(t) => HasExitZero(s)) /\ (x.word = "exit" /\ x.arg = 0 => HasExitZero(s))
  BY <1>1, <1>2, <1>4 DEF HasExitZero
<1>13. ExitEnds(s) => ExitEnds(t)
  BY <1>2, <1>7 DEF ExitEnds
<1>14. ASSUME ExitEnds(s), x.word = "exit"
       PROVE  /\ x.arg \in {0, 1} /\ Reported(t) = {} /\ ~ HasExit(t) /\ ~ EndIn(s)
              /\ \A v \in Pipe!ScriptSet : \A n : ~ Pipe!Has(t, Pipe!Fore(v), n)
  <2>1. x.arg \in {0, 1} /\ \A i \in DOMAIN t : IsOfDaemon(t[i])
    BY <1>1, <1>2, <1>4, <1>14 DEF ExitEnds
  <2>2. Reported(t) = {} /\ ~ HasExit(t)
    BY <2>1 DEF Reported, HasExit, IsOfDaemon
  <2>3. ~ EndIn(s)
    BY <1>1, <1>3, <1>14, <2>1 DEF EndIn, IsOfDaemon
  <2>4. \A v \in Pipe!ScriptSet : \A n : ~ Pipe!Has(t, Pipe!Fore(v), n)
    BY <2>1 DEF Pipe!Has, Pipe!IsText, IsOfDaemon
  <2> QED
    BY <2>1, <2>2, <2>3, <2>4
<1>15. Reported(s) = Reported(t) \cup (IF x.word = "cmd-status" /\ x.arg # 0 THEN {x.from} ELSE {})
  <2> DEFINE first == IF x.word = "cmd-status" /\ x.arg # 0 THEN {x.from} ELSE {}
  <2>1. ASSUME NEW i \in DOMAIN s, s[i].word = "cmd-status", s[i].arg # 0
        PROVE  s[i].from \in Reported(t) \cup first
    BY <1>1, <1>3, <2>1 DEF Reported
  <2>2. first \subseteq Reported(s)
    BY <1>1, <1>4 DEF Reported
  <2>3. Reported(t) \subseteq Reported(s)
    BY <1>2 DEF Reported
  <2>4. Reported(s) \subseteq Reported(t) \cup first
    BY <2>1 DEF Reported
  <2> QED
    BY <2>2, <2>3, <2>4
<1>16. ASSUME EndIn(s) PROVE EndIn(t) \/ (x.word = "end" /\ Reported(t) = {})
  <2>1. PICK e \in DOMAIN s : s[e].word = "end" /\ \A j \in DOMAIN s : e < j => s[j].word # "cmd-status"
    BY <1>16 DEF EndIn
  <2>2. CASE e = 1
    <3>1. \A j \in DOMAIN t : t[j].word # "cmd-status"
      BY <1>2, <2>1, <2>2
    <3> QED
      BY <1>1, <2>1, <2>2, <3>1 DEF Reported
  <2>3. CASE e # 1
    <3>1. e - 1 \in DOMAIN t /\ t[e - 1].word = "end"
      BY <1>3, <2>1, <2>3
    <3>2. ASSUME NEW j \in DOMAIN t, e - 1 < j PROVE t[j].word # "cmd-status"
      <4>1. e < j + 1
        BY <1>5, <3>2
      <4> QED
        BY <1>2, <2>1, <4>1
    <3> QED
      BY <3>1, <3>2 DEF EndIn
  <2> QED
    BY <2>2, <2>3
<1> QED
  BY <1>1, <1>8, <1>9, <1>10, <1>11, <1>12, <1>13, <1>14, <1>15, <1>16 DEF t, x

\* What is read is put at the end of the log.
LEMMA ConcatFacts ==
    ASSUME NEW s \in Seq(Pieces), NEW u \in Seq(Pieces)
    PROVE  LET t == s \o u IN
           /\ t \in Seq(Pieces)
           /\ \A w, n : Pipe!Has(t, w, n) <=> Pipe!Has(s, w, n) \/ Pipe!Has(u, w, n)
           /\ \A w : Pipe!Ordered(s, w) /\ Pipe!Ordered(u, w) /\ Below(s, u, w) => Pipe!Ordered(t, w)
           /\ \A i \in DOMAIN s : \E j \in DOMAIN t : t[j] = s[i]
           /\ \A i \in DOMAIN u : \E j \in DOMAIN t : t[j] = u[i]
<1> DEFINE t == s \o u
           K == Len(s)
           L == Len(u)
<1>1. /\ t \in Seq(Pieces) /\ K \in Nat /\ L \in Nat /\ DOMAIN s = 1 .. K /\ DOMAIN u = 1 .. L
      /\ DOMAIN t = 1 .. K + L
      /\ \A i \in 1 .. K + L : t[i] = IF i <= K THEN s[i] ELSE u[i - K]
  OBVIOUS
<1>2. \A i \in DOMAIN s : i \in DOMAIN t /\ t[i] = s[i]
  BY <1>1
<1>3. \A i \in DOMAIN u : K + i \in DOMAIN t /\ t[K + i] = u[i]
  <2>1. ASSUME NEW i \in DOMAIN u PROVE K + i \in 1 .. K + L /\ ~ (K + i <= K) /\ (K + i) - K = i
    BY <1>1
  <2> QED
    BY <1>1, <2>1
<1>4. ASSUME NEW i \in DOMAIN t
      PROVE  \/ i \in DOMAIN s /\ t[i] = s[i] /\ i <= K
             \/ i - K \in DOMAIN u /\ t[i] = u[i - K] /\ K < i
  <2>1. CASE i <= K
    BY <1>1, <1>4, <2>1
  <2>2. CASE ~ (i <= K)
    <3>1. i - K \in 1 .. L /\ K < i
      BY <1>1, <1>4, <2>2
    <3> QED
      BY <1>1, <1>4, <2>2, <3>1
  <2> QED
    BY <2>1, <2>2
<1>5. \A i, j \in DOMAIN t : i < j /\ j <= K => i <= K
  BY <1>1
<1>6. \A i, j \in DOMAIN t : i < j => i - K < j - K
  BY <1>1
<1> HIDE DEF t, K, L
<1>7. \A w, n : Pipe!Has(t, w, n) <=> Pipe!Has(s, w, n) \/ Pipe!Has(u, w, n)
  BY <1>2, <1>3, <1>4 DEF Pipe!Has
<1>8. ASSUME NEW w, Pipe!Ordered(s, w), Pipe!Ordered(u, w), Below(s, u, w) PROVE Pipe!Ordered(t, w)
  <2>1. SUFFICES ASSUME NEW i \in DOMAIN t, NEW j \in DOMAIN t, i < j,
                        Pipe!IsText(t[i], w), Pipe!IsText(t[j], w)
                 PROVE  t[i].arg < t[j].arg
    BY DEF Pipe!Ordered
  <2>2. CASE i \in DOMAIN s /\ t[i] = s[i] /\ j \in DOMAIN s /\ t[j] = s[j]
    BY <1>8, <2>1, <2>2 DEF Pipe!Ordered
  <2>3. CASE i - K \in DOMAIN u /\ t[i] = u[i - K] /\ j - K \in DOMAIN u /\ t[j] = u[j - K]
    BY <1>6, <1>8, <2>1, <2>3 DEF Pipe!Ordered
  <2>4. CASE i \in DOMAIN s /\ t[i] = s[i] /\ j - K \in DOMAIN u /\ t[j] = u[j - K]
    BY <1>8, <2>1, <2>4 DEF Below, Pipe!Has
  <2> QED
    BY <1>1, <1>4, <2>1, <2>2, <2>3, <2>4
<1> QED
  BY <1>1, <1>2, <1>3, <1>7, <1>8 DEF t

LEMMA ScriptFacts ==
    /\ Len(Pipe!Commands) \in Nat /\ DOMAIN Pipe!Commands = 1 .. Len(Pipe!Commands)
    /\ \A i \in DOMAIN Pipe!Commands : Pipe!Commands[i] \in CommandSet
    /\ \A s \in Pipe!ScriptSet : Pipe!Fore(s) \in Pipe!Writers /\ Pipe!Back(s) \in Pipe!Writers
    /\ \A s, v \in Pipe!ScriptSet : Pipe!Fore(s) # Pipe!Back(v)
    /\ Leaving \subseteq Pipe!ScriptSet
    /\ Nil # 0 /\ Nil # 1
<1> DEFINE S == STRING \cup {"rcorder", "cloud-init-runcmd"}
<1>1. Pipe!Commands \in Seq(S)
  <2>1. <<"rcorder">> \in Seq(S)
    OBVIOUS
  <2>2. <<"cloud-init-runcmd">> \in Seq(S)
    OBVIOUS
  <2>3. BootScripts \in Seq(S)
    BY PipeAssumption
  <2> HIDE DEF S
  <2> QED
    BY <2>1, <2>2, <2>3 DEF Pipe!Commands
<1>2. Leaving \subseteq Pipe!ScriptSet /\ Nil # 0 /\ Nil # 1
  BY PipeAssumption DEF Pipe!ScriptSet
<1>3. \A s, v \in Pipe!ScriptSet : Pipe!Fore(s) # Pipe!Back(v)
  BY DEF Pipe!Fore, Pipe!Back
<1> QED
  BY <1>1, <1>2, <1>3 DEF CommandSet, Pipe!Writers

LEMMA MetaIsPiece ==
    ASSUME NEW word \in Pipe!Words, NEW from \in CommandSet \cup {Nil}, NEW arg \in {0, 1}
    PROVE  /\ Pipe!Meta(word, from, arg) \in Pieces
           /\ Pipe!Meta(word, from, arg).word = word /\ word # "text"
           /\ Pipe!Meta(word, from, arg).from = from /\ Pipe!Meta(word, from, arg).arg = arg
BY DEF Pipe!Meta, Pieces, Pipe!Words

LEMMA TextIsPiece ==
    ASSUME NEW w \in Pipe!Writers, NEW n \in Nat, NEW nl \in BOOLEAN
    PROVE  LET x == Pipe!Text(w, n, nl) IN
           x \in Pieces /\ x.word = "text" /\ x.from = w /\ x.arg = n
BY DEF Pipe!Text, Pieces

\* Metadata leaves the texts where they are.
LEMMA MetaKeepsTexts ==
    ASSUME PipeTyped, TextsAreKept, NEW x \in Pieces, x.word # "text", x.nl = TRUE,
           pipe' = Append(pipe, x), UNCHANGED <<sent, partial, log>>
    PROVE  TextsAreKept' /\ pipe' \in Seq(Pieces)
<1> USE AppendFacts DEF PipeTyped
<1>1. pipe' \in Seq(Pieces) /\ LinesEnd(pipe')
  BY DEF TextsAreKept
<1>2. ASSUME NEW w \in Pipe!Writers PROVE StreamOf(w)'
  <2>1. \A n : Pipe!Has(pipe', w, n) <=> Pipe!Has(pipe, w, n)
    BY DEF Pipe!IsText
  <2>2. Pipe!Ordered(pipe', w)
    BY DEF TextsAreKept, StreamOf, Pipe!IsText
  <2> QED
    BY <2>1, <2>2 DEF TextsAreKept, StreamOf, Below
<1> QED
  BY <1>1, <1>2 DEF TextsAreKept

\* A text is the next of its writer.
LEMMA TextKeepsTexts ==
    ASSUME PipeTyped, TextsAreKept, NEW v \in Pipe!Writers, NEW nl \in BOOLEAN,
           pipe' = Append(pipe, Pipe!Text(v, sent[v] + 1, nl)),
           sent' = [sent EXCEPT ![v] = @ + 1], UNCHANGED <<partial, log>>
    PROVE  TextsAreKept' /\ pipe' \in Seq(Pieces) /\ sent' \in [Pipe!Writers -> Nat]
<1> DEFINE x == Pipe!Text(v, sent[v] + 1, nl)
<1>1. sent[v] \in Nat /\ sent[v] + 1 \in Nat /\ sent' \in [Pipe!Writers -> Nat]
      /\ \A w \in Pipe!Writers : sent'[w] = IF w = v THEN sent[w] + 1 ELSE sent[w]
  BY DEF PipeTyped
<1>2. x \in Pieces /\ x.word = "text" /\ x.from = v /\ x.arg = sent[v] + 1
  BY <1>1, TextIsPiece
<1> HIDE DEF x
<1>3. pipe' = Append(pipe, x) /\ pipe \in Seq(Pieces)
  BY DEF x, PipeTyped
<1>4. pipe' \in Seq(Pieces) /\ LinesEnd(pipe')
  BY <1>2, <1>3, AppendFacts DEF TextsAreKept
<1>5. /\ \A w, n : Pipe!Has(pipe', w, n) <=> Pipe!Has(pipe, w, n) \/ (Pipe!IsText(x, w) /\ x.arg = n)
      /\ \A w : Pipe!Ordered(pipe, w) /\ (Pipe!IsText(x, w) => \A n : Pipe!Has(pipe, w, n) => n < x.arg)
                 => Pipe!Ordered(pipe', w)
  BY <1>2, <1>3, AppendFacts
<1>6. \A w : Pipe!IsText(x, w) <=> w = v
  BY <1>2 DEF Pipe!IsText
<1>7. ASSUME NEW w \in Pipe!Writers PROVE StreamOf(w)'
  <2>1. \A n : Pipe!Has(pipe', w, n) <=> Pipe!Has(pipe, w, n) \/ (w = v /\ n = sent[v] + 1)
    BY <1>2, <1>5, <1>6
  <2>2. StreamOf(w)
    BY DEF TextsAreKept
  <2>3. \A n : Pipe!Has(log, w, n) \/ Pipe!Has(partial, w, n) \/ Pipe!Has(pipe, w, n) <=> n \in 1 .. sent[w]
    BY <2>2 DEF StreamOf
  <2>4. w = v => \A n : Pipe!Has(log, w, n) \/ Pipe!Has(partial, w, n) \/ Pipe!Has(pipe, w, n) => n < sent[v] + 1
    BY <1>1, <2>3
  <2>5. Pipe!Ordered(pipe', w)
    BY <1>2, <1>5, <1>6, <2>2, <2>4 DEF StreamOf
  <2>6. Below(log, pipe', w) /\ Below(partial, pipe', w)
    BY <2>1, <2>2, <2>4 DEF StreamOf, Below
  <2>7. \A n : n \in 1 .. sent'[w] <=> n \in 1 .. sent[w] \/ (w = v /\ n = sent[v] + 1)
    BY <1>1 DEF PipeTyped
  <2> QED
    BY <2>1, <2>2, <2>3, <2>5, <2>6, <2>7 DEF StreamOf
<1> QED
  BY <1>1, <1>4, <1>7 DEF TextsAreKept

\* What the reader logs of a line has the texts of the line, and nothing else.
LEMMA LoggedFacts ==
    ASSUME PipeTyped, NEW x \in Pieces
    PROVE  LET u == Pipe!Logged(x) IN
           /\ u \in Seq(Pieces)
           /\ \A w, n : Pipe!Has(u, w, n) <=> Pipe!IsText(x, w) /\ x.arg = n
           /\ \A w : Pipe!Ordered(u, w)
           /\ x.word = "end" /\ failures # {} =>
                  \E i \in DOMAIN u : u[i].word = "failures" /\ u[i].arg = failures
<1>1. CASE x.word = "end" /\ failures # {}
  <2> DEFINE y == [word |-> "failures", from |-> Nil, arg |-> failures, nl |-> TRUE]
  <2>1. y \in Pieces /\ y.word = "failures" /\ y.arg = failures
    BY DEF Pieces, PipeTyped, WorkTyped
  <2> HIDE DEF y
  <2>2. Pipe!Logged(x) = <<y>>
    BY <1>1 DEF Pipe!Logged, Pipe!Entry, y
  <2> QED
    BY <1>1, <2>1, <2>2 DEF Pipe!Has, Pipe!Ordered, Pipe!IsText
<1>2. CASE x.word = "interrupted"
  <2> DEFINE y == [word |-> "interrupted", from |-> Nil, arg |-> 0, nl |-> TRUE]
  <2>1. y \in Pieces /\ y.word = "interrupted"
    BY DEF Pieces, Pipe!Words
  <2> HIDE DEF y
  <2>2. Pipe!Logged(x) = <<y>>
    BY <1>2 DEF Pipe!Logged, Pipe!Entry, y
  <2> QED
    BY <1>2, <2>1, <2>2 DEF Pipe!Has, Pipe!Ordered, Pipe!IsText
<1>3. CASE ~ (x.word = "end" /\ failures # {}) /\ x.word # "interrupted"
  <2>1. Pipe!Logged(x) = IF x.word = "text" THEN <<x>> ELSE <<>>
    BY <1>3 DEF Pipe!Logged, Pipe!Plain
  <2> QED
    BY <1>3, <2>1 DEF Pipe!Has, Pipe!Ordered, Pipe!IsText
<1> QED
  BY <1>1, <1>2, <1>3

\* The two things read does with a piece.
LEMMA ReadCases ==
    ASSUME PipeTyped, TextsAreKept, Pipe!ReadPiece
    PROVE  LET x == Head(pipe) IN
           /\ p_status = Nil /\ pipe # <<>> /\ pipe' = Tail(pipe)
           /\ UNCHANGED <<p_pc, p_at, failed, killed, holders, sent>>
           /\ \/ /\ x.word = "text" /\ partial' = Append(partial, x)
                 /\ UNCHANGED <<log, failures, p_status>>
              \/ /\ partial' = <<>> /\ log' = (log \o partial) \o Pipe!Logged(x)
                 /\ failures' = failures \cup (IF x.word = "cmd-status" /\ x.arg # 0 THEN {x.from} ELSE {})
                 /\ p_status' = IF x.word = "exit" THEN x.arg ELSE p_status
<1> DEFINE x == Head(pipe)
<1>1. p_status = Nil /\ pipe # <<>> /\ pipe' = Tail(pipe)
      /\ UNCHANGED <<p_pc, p_at, failed, killed, holders, sent>>
  BY DEF Pipe!ReadPiece, Pipe!work
<1>2. x.word # "text" => x.nl = TRUE
  BY <1>1, TailFacts DEF PipeTyped, TextsAreKept
<1>3. CASE ~ x.nl /\ partial' = Append(partial, x) /\ UNCHANGED <<log, failures, p_status>>
  BY <1>1, <1>2, <1>3
<1>4. CASE partial' = <<>> /\ Pipe!Handle(partial, x)
  BY <1>1, <1>4 DEF Pipe!Handle, Pipe!Failures, Pipe!StatusAfter
<1> QED
  BY <1>1, <1>3, <1>4 DEF Pipe!ReadPiece

LEMMA ReadKeepsTexts ==
    ASSUME PipeTyped, TextsAreKept, Pipe!ReadPiece
    PROVE  /\ TextsAreKept' /\ pipe' \in Seq(Pieces) /\ partial' \in Seq(Pieces) /\ log' \in Seq(Pieces)
           /\ \A i \in DOMAIN log : \E j \in DOMAIN log' : log'[j] = log[i]
<1> DEFINE x == Head(pipe)
           rest == Tail(pipe)
<1>1. /\ pipe # <<>> /\ pipe \in Seq(Pieces) /\ partial \in Seq(Pieces) /\ log \in Seq(Pieces)
      /\ pipe' = rest /\ UNCHANGED sent
  BY ReadCases DEF PipeTyped
<1>2. /\ rest \in Seq(Pieces) /\ x \in Pieces /\ LinesEnd(rest)
      /\ \A w, n : Pipe!Has(pipe, w, n) <=> Pipe!Has(rest, w, n) \/ (Pipe!IsText(x, w) /\ x.arg = n)
      /\ \A w : Pipe!Ordered(pipe, w) =>
             Pipe!Ordered(rest, w) /\ (Pipe!IsText(x, w) => \A n : Pipe!Has(rest, w, n) => x.arg < n)
  BY <1>1, TailFacts DEF TextsAreKept
<1>3. CASE x.word = "text" /\ partial' = Append(partial, x) /\ UNCHANGED log
  <2> HIDE DEF x, rest
  <2>1. /\ partial' \in Seq(Pieces)
        /\ \A w, n : Pipe!Has(partial', w, n) <=> Pipe!Has(partial, w, n) \/ (Pipe!IsText(x, w) /\ x.arg = n)
        /\ \A w : Pipe!Ordered(partial, w) /\ (Pipe!IsText(x, w) => \A n : Pipe!Has(partial, w, n) => n < x.arg)
                   => Pipe!Ordered(partial', w)
    BY <1>1, <1>2, <1>3, AppendFacts
  <2>2. TextsOnly(partial')
    <3>1. \A i \in DOMAIN partial' : (i \in DOMAIN partial /\ partial'[i] = partial[i]) \/ partial'[i] = x
      BY <1>1, <1>3
    <3> QED
      BY <1>3, <3>1 DEF TextsAreKept, TextsOnly
  <2>3. ASSUME NEW w \in Pipe!Writers PROVE StreamOf(w)'
    <3>1. StreamOf(w)
      BY DEF TextsAreKept
    <3>2. Pipe!Ordered(partial', w) /\ Pipe!Ordered(rest, w)
      BY <1>2, <2>1, <3>1 DEF StreamOf, Below
    <3>3. Below(log, partial', w) /\ Below(log, rest, w) /\ Below(partial', rest, w)
      BY <1>2, <2>1, <3>1 DEF StreamOf, Below
    <3>4. \A n : Pipe!Has(log, w, n) \/ Pipe!Has(partial', w, n) \/ Pipe!Has(rest, w, n) <=> n \in 1 .. sent[w]
      BY <1>2, <2>1, <3>1 DEF StreamOf
    <3> QED
      BY <1>1, <1>3, <3>1, <3>2, <3>3, <3>4 DEF StreamOf
  <2> QED
    BY <1>1, <1>2, <1>3, <2>1, <2>2, <2>3 DEF TextsAreKept
<1>4. CASE partial' = <<>> /\ log' = (log \o partial) \o Pipe!Logged(x)
  <2> DEFINE u == Pipe!Logged(x)
             both == log \o partial
  <2>0. partial' = <<>> /\ log' = both \o u
    BY <1>4
  <2>1. /\ u \in Seq(Pieces) /\ \A w : Pipe!Ordered(u, w)
        /\ \A w, n : Pipe!Has(u, w, n) <=> Pipe!IsText(x, w) /\ x.arg = n
    BY <1>2, LoggedFacts
  <2>2. /\ both \in Seq(Pieces)
        /\ \A w, n : Pipe!Has(both, w, n) <=> Pipe!Has(log, w, n) \/ Pipe!Has(partial, w, n)
        /\ \A w : Pipe!Ordered(log, w) /\ Pipe!Ordered(partial, w) /\ Below(log, partial, w)
                   => Pipe!Ordered(both, w)
        /\ \A i \in DOMAIN log : \E j \in DOMAIN both : both[j] = log[i]
    BY <1>1, ConcatFacts
  <2> HIDE DEF x, rest, u, both
  <2>3. /\ log' \in Seq(Pieces)
        /\ \A w, n : Pipe!Has(log', w, n) <=> Pipe!Has(both, w, n) \/ Pipe!Has(u, w, n)
        /\ \A w : Pipe!Ordered(both, w) /\ Pipe!Ordered(u, w) /\ Below(both, u, w) => Pipe!Ordered(log', w)
        /\ \A i \in DOMAIN both : \E j \in DOMAIN log' : log'[j] = both[i]
    BY <2>0, <2>1, <2>2, ConcatFacts
  <2>4. \A i \in DOMAIN log : \E j \in DOMAIN log' : log'[j] = log[i]
    BY <2>2, <2>3
  <2>5. \A w, n : ~ Pipe!Has(partial', w, n)
    BY <2>0 DEF Pipe!Has
  <2>6. ASSUME NEW w \in Pipe!Writers PROVE StreamOf(w)'
    <3>1. StreamOf(w)
      BY DEF TextsAreKept
    <3>2. \A n : Pipe!Has(log', w, n) <=>
              (Pipe!Has(log, w, n) \/ Pipe!Has(partial, w, n) \/ (Pipe!IsText(x, w) /\ x.arg = n))
      BY <2>1, <2>2, <2>3
    <3>3. Below(both, u, w)
      BY <1>2, <2>1, <2>2, <3>1 DEF StreamOf, Below
    <3>4. Pipe!Ordered(log', w)
      BY <2>1, <2>2, <2>3, <3>1, <3>3 DEF StreamOf
    <3>5. Pipe!Ordered(rest, w) /\ Pipe!Ordered(partial', w)
      BY <1>2, <2>0, <3>1 DEF StreamOf, Pipe!Ordered
    <3>6. Below(log', rest, w)
      BY <1>2, <3>1, <3>2 DEF StreamOf, Below
    <3>7. \A n : Pipe!Has(log', w, n) \/ Pipe!Has(rest, w, n) <=> n \in 1 .. sent[w]
      BY <1>2, <3>1, <3>2 DEF StreamOf
    <3> QED
      BY <1>1, <2>5, <3>4, <3>5, <3>6, <3>7 DEF StreamOf, Below
  <2>7. TextsOnly(partial') /\ partial' \in Seq(Pieces)
    BY <2>0 DEF TextsOnly
  <2> QED
    BY <1>1, <1>2, <2>3, <2>4, <2>6, <2>7 DEF TextsAreKept
<1> QED
  BY <1>3, <1>4, ReadCases

\* What is known as long as rc_real_work runs.
LEMMA Running ==
    ASSUME PipeInv, p_pc # "gone"
    PROVE  p_status = Nil /\ ~ HasExit(pipe) /\ ~ HasExitZero(pipe) /\ ~ killed /\ p_status # 0
BY ScriptFacts DEF PipeInv, PipeTyped, WorkTyped, ExitIsLast, HasExit, HasExitZero

LEMMA PutMeta ==
    ASSUME PipeInv, NEW word \in Pipe!Words, NEW from \in CommandSet \cup {Nil}, NEW arg \in {0, 1},
           p_pc # "gone", Pipe!print_rc_metadata(word, from, arg), UNCHANGED sent
    PROVE  /\ TextsAreKept' /\ pipe' \in Seq(Pieces) /\ UNCHANGED <<partial, log, failures, p_status>>
           /\ ExitEnds(pipe') /\ (HasExit(pipe') <=> word = "exit")
           /\ HasExitZero(pipe') <=> word = "exit" /\ arg = 0
           /\ Known' = Known \cup (IF word = "cmd-status" /\ arg # 0 THEN {from} ELSE {})
           /\ word = "end" \/ (word # "cmd-status" /\ EndIn(pipe)) => EndIn(pipe')
<1> DEFINE x == Pipe!Meta(word, from, arg)
<1>1. x \in Pieces /\ x.word = word /\ x.from = from /\ x.arg = arg /\ x.nl = TRUE /\ word # "text"
  <2>1. x \in Pieces /\ x.word = word /\ word # "text" /\ x.from = from
    BY MetaIsPiece
  <2>2. x.arg = arg
    BY MetaIsPiece
  <2>3. x.nl = TRUE
    BY DEF Pipe!Meta
  <2> QED
    BY <2>1, <2>2, <2>3
<1>2. pipe' = Append(pipe, x) /\ UNCHANGED <<partial, log, failures, p_status>>
  BY DEF Pipe!print_rc_metadata, Pipe!Put, Pipe!post
<1> HIDE DEF x
<1>3. TextsAreKept' /\ pipe' \in Seq(Pieces)
  BY <1>1, <1>2, MetaKeepsTexts DEF PipeInv
<1>4. pipe \in Seq(Pieces) /\ ExitEnds(pipe) /\ ~ HasExit(pipe) /\ ~ HasExitZero(pipe)
  BY Running DEF PipeInv, PipeTyped, ExitIsLast
<1>5. /\ ExitEnds(pipe') /\ (HasExit(pipe') <=> word = "exit")
      /\ HasExitZero(pipe') <=> word = "exit" /\ arg = 0
      /\ Reported(pipe') = Reported(pipe) \cup (IF word = "cmd-status" /\ arg # 0 THEN {from} ELSE {})
      /\ word = "end" \/ (word # "cmd-status" /\ EndIn(pipe)) => EndIn(pipe')
  BY <1>1, <1>2, <1>4, AppendFacts
<1> QED
  BY <1>2, <1>3, <1>5 DEF Known

LEMMA PutText ==
    ASSUME PipeInv, NEW v \in Pipe!Writers, NEW nl \in BOOLEAN,
           Pipe!Put(Pipe!Text(v, sent[v] + 1, nl)), sent' = [sent EXCEPT ![v] = @ + 1], UNCHANGED Pipe!post,
           HasExit(pipe) => \A s \in Pipe!ScriptSet : v # Pipe!Fore(s)
    PROVE  /\ TextsAreKept' /\ pipe' \in Seq(Pieces) /\ sent' \in [Pipe!Writers -> Nat]
           /\ UNCHANGED <<partial, log, failures, p_status>>
           /\ ExitEnds(pipe') /\ (HasExit(pipe') <=> HasExit(pipe)) /\ (HasExitZero(pipe') <=> HasExitZero(pipe))
           /\ Known' = Known /\ (EndIn(pipe) => EndIn(pipe'))
<1> DEFINE x == Pipe!Text(v, sent[v] + 1, nl)
<1>1. x \in Pieces /\ x.word = "text" /\ x.from = v
  BY TextIsPiece DEF PipeInv, PipeTyped
<1>2. pipe' = Append(pipe, x) /\ UNCHANGED <<partial, log, failures, p_status>>
  BY DEF Pipe!Put, Pipe!post
<1>3. TextsAreKept' /\ pipe' \in Seq(Pieces) /\ sent' \in [Pipe!Writers -> Nat]
  BY <1>2, TextKeepsTexts DEF PipeInv
<1> HIDE DEF x
<1>4. pipe \in Seq(Pieces) /\ ExitEnds(pipe)
  BY DEF PipeInv, PipeTyped, ExitIsLast
<1>5. HasExit(pipe) => IsOfDaemon(x)
  BY <1>1 DEF IsOfDaemon
<1>6. /\ ExitEnds(pipe') /\ (HasExit(pipe') <=> HasExit(pipe)) /\ (HasExitZero(pipe') <=> HasExitZero(pipe))
      /\ Reported(pipe') = Reported(pipe) /\ (EndIn(pipe) => EndIn(pipe'))
  BY <1>1, <1>2, <1>4, <1>5, AppendFacts
<1> QED
  BY <1>2, <1>3, <1>6 DEF Known

\* rc_real_work and the nops write metadata.
LEMMA WorkWrites ==
    ASSUME PipeInv,
           Pipe!Start \/ Pipe!CmdName \/ Pipe!CmdStatus \/ Pipe!End \/ Pipe!Interrupt \/ Pipe!ExitLine \/ Pipe!Nop
    PROVE  PipeInv'
<1> USE ScriptFacts DEF PipeInv
<1>0. ASSUME p_pc # "gone", PipeTyped', TextsAreKept', UNCHANGED <<p_status, log, failed, killed>>,
             ExitEnds(pipe'), HasExit(pipe') => p_pc' = "gone" /\ ~ killed',
             p_pc' = "gone" => HasExit(pipe'), FailuresArrive',
             Ended' => failed' = {} \/ ListLogged \/ EndIn(pipe')
      PROVE  PipeInv'
  <2>1. p_status' = Nil /\ p_status' # 0
    BY <1>0, Running
  <2>2. ExitIsLast' /\ ScriptsAreRead'
    BY <1>0, <2>1 DEF ExitIsLast, ScriptsAreRead
  <2>3. FailuresAreListed'
    BY <1>0, <2>1 DEF FailuresAreListed, ListLogged
  <2> QED
    BY <1>0, <2>2, <2>3
<1>1. CASE Pipe!Start
  <2>1. p_pc = "start" /\ p_pc' = "name" /\ UNCHANGED <<p_at, sent, failed, killed>>
        /\ Pipe!print_rc_metadata("start", Nil, 0) /\ "start" \in Pipe!Words
    BY <1>1 DEF Pipe!Start, Pipe!Words
  <2>2. /\ TextsAreKept' /\ pipe' \in Seq(Pieces) /\ UNCHANGED <<partial, log, failures, p_status>>
        /\ ExitEnds(pipe') /\ ~ HasExit(pipe') /\ ~ HasExitZero(pipe') /\ Known' = Known
    BY <2>1, PutMeta
  <2>3. PipeTyped'
    BY <2>1, <2>2 DEF PipeTyped, WorkTyped
  <2>4. ~ Ended' /\ FailuresArrive'
    BY <2>1, <2>2, Running DEF Ended, FailuresArrive
  <2> QED
    BY <1>0, <2>1, <2>2, <2>3, <2>4
<1>2. CASE Pipe!CmdName
  <2>1. p_pc = "name" /\ p_pc' = "run" /\ p_at \in DOMAIN Pipe!Commands /\ UNCHANGED <<p_at, sent, failed, killed>>
        /\ Pipe!print_rc_metadata("cmd-name", Pipe!Commands[p_at], 0) /\ "cmd-name" \in Pipe!Words
    BY <1>2 DEF Pipe!CmdName, Pipe!Words
  <2>2. /\ TextsAreKept' /\ pipe' \in Seq(Pieces) /\ UNCHANGED <<partial, log, failures, p_status>>
        /\ ExitEnds(pipe') /\ ~ HasExit(pipe') /\ ~ HasExitZero(pipe') /\ Known' = Known
    BY <2>1, PutMeta
  <2>3. PipeTyped'
    BY <2>1, <2>2 DEF PipeTyped, WorkTyped
  <2>4. ~ Ended' /\ FailuresArrive'
    BY <2>1, <2>2, Running DEF Ended, FailuresArrive
  <2> QED
    BY <1>0, <2>1, <2>2, <2>3, <2>4
<1>3. CASE Pipe!CmdStatus
  <2> DEFINE c == Pipe!Commands[p_at]
             arg == IF c \in failed THEN 1 ELSE 0
  <2>1. p_pc = "status" /\ p_pc' = "name" /\ p_at' = p_at + 1 /\ UNCHANGED <<sent, failed, killed>>
        /\ Pipe!print_rc_metadata("cmd-status", c, arg) /\ "cmd-status" \in Pipe!Words
        /\ p_at \in DOMAIN Pipe!Commands /\ arg \in {0, 1}
    BY <1>3 DEF Pipe!CmdStatus, Pipe!Words, PipeTyped, WorkTyped
  <2>2. /\ TextsAreKept' /\ pipe' \in Seq(Pieces) /\ UNCHANGED <<partial, log, failures, p_status>>
        /\ ExitEnds(pipe') /\ ~ HasExit(pipe') /\ ~ HasExitZero(pipe')
        /\ Known' = Known \cup (IF c \in failed THEN {c} ELSE {})
    BY <2>1, PutMeta
  <2>3. PipeTyped'
    BY <2>1, <2>2 DEF PipeTyped, WorkTyped
  <2>4. ~ Ended' /\ FailuresArrive'
    BY <2>1, <2>2, Running DEF Ended, FailuresArrive
  <2> QED
    BY <1>0, <2>1, <2>2, <2>3, <2>4
<1>4. CASE Pipe!End
  <2>1. p_pc = "name" /\ p_pc' = "exit" /\ p_at = Len(Pipe!Commands) + 1 /\ UNCHANGED <<p_at, sent, failed, killed>>
        /\ Pipe!print_rc_metadata("end", Nil, 0) /\ "end" \in Pipe!Words
    BY <1>4 DEF Pipe!End, Pipe!Words
  <2>2. /\ TextsAreKept' /\ pipe' \in Seq(Pieces) /\ UNCHANGED <<partial, log, failures, p_status>>
        /\ ExitEnds(pipe') /\ ~ HasExit(pipe') /\ ~ HasExitZero(pipe') /\ Known' = Known /\ EndIn(pipe')
    BY <2>1, PutMeta
  <2>3. PipeTyped'
    BY <2>1, <2>2 DEF PipeTyped, WorkTyped
  <2>4. FailuresArrive'
    BY <2>1, <2>2, Running DEF Ended, FailuresArrive
  <2> QED
    BY <1>0, <2>1, <2>2, <2>3, <2>4
<1>5. CASE Pipe!Interrupt
  <2>1. p_pc \in {"name", "run", "asking", "status"} /\ p_pc' = "exit1" /\ UNCHANGED <<p_at, sent, failed, killed>>
        /\ Pipe!print_rc_metadata("interrupted", Nil, 0) /\ "interrupted" \in Pipe!Words
    BY <1>5 DEF Pipe!Interrupt, Pipe!Words
  <2>2. /\ TextsAreKept' /\ pipe' \in Seq(Pieces) /\ UNCHANGED <<partial, log, failures, p_status>>
        /\ ExitEnds(pipe') /\ ~ HasExit(pipe') /\ ~ HasExitZero(pipe') /\ Known' = Known
    BY <2>1, PutMeta
  <2>3. PipeTyped'
    BY <2>1, <2>2 DEF PipeTyped, WorkTyped
  <2>4. ~ Ended' /\ FailuresArrive'
    BY <2>1, <2>2, Running DEF Ended, FailuresArrive
  <2> QED
    BY <1>0, <2>1, <2>2, <2>3, <2>4
<1>6. CASE Pipe!ExitLine
  <2> DEFINE arg == IF p_pc = "exit" THEN 0 ELSE 1
  <2>1. p_pc \in {"exit", "exit1"} /\ p_pc' = "gone" /\ UNCHANGED <<p_at, sent, failed, killed>>
        /\ Pipe!print_rc_metadata("exit", Nil, arg) /\ "exit" \in Pipe!Words /\ arg \in {0, 1}
    BY <1>6 DEF Pipe!ExitLine, Pipe!Words
  <2>2. /\ TextsAreKept' /\ pipe' \in Seq(Pieces) /\ UNCHANGED <<partial, log, failures, p_status>>
        /\ ExitEnds(pipe') /\ HasExit(pipe') /\ (HasExitZero(pipe') <=> p_pc = "exit") /\ Known' = Known
        /\ (EndIn(pipe) => EndIn(pipe'))
    <3>0. p_pc # "gone" /\ (arg = 0 <=> p_pc = "exit")
      BY <2>1
    <3> HIDE DEF arg
    <3>1. /\ TextsAreKept' /\ pipe' \in Seq(Pieces) /\ UNCHANGED <<partial, log, failures, p_status>>
          /\ ExitEnds(pipe') /\ HasExit(pipe')
      BY <2>1, <3>0, PutMeta
    <3>2. (HasExitZero(pipe') <=> arg = 0) /\ Known' = Known
      BY <2>1, <3>0, PutMeta
    <3>3. EndIn(pipe) => EndIn(pipe')
      BY <2>1, <3>0, PutMeta
    <3> QED
      BY <3>0, <3>1, <3>2, <3>3
  <2>3. PipeTyped'
    BY <2>1, <2>2 DEF PipeTyped, WorkTyped
  <2>4. Ended' => Ended
    BY <2>1, <2>2, Running DEF Ended
  <2>5. FailuresArrive'
    BY <2>1, <2>2, <2>4, Running DEF FailuresArrive
  <2>6. Ended' => failed' = {} \/ ListLogged \/ EndIn(pipe')
    BY <2>1, <2>2, <2>4 DEF FailuresAreListed
  <2> QED
    BY <1>0, <2>1, <2>2, <2>3, <2>5, <2>6, Running
<1>7. CASE Pipe!Nop
  <2>1. p_pc # "gone" /\ UNCHANGED <<p_pc, p_at, sent, failed, killed>>
        /\ Pipe!print_rc_metadata("nop", Nil, 0) /\ "nop" \in Pipe!Words /\ 0 \in {0, 1}
    BY <1>7 DEF Pipe!Nop, Pipe!Words, Pipe!work
  <2>2. /\ TextsAreKept' /\ pipe' \in Seq(Pieces) /\ UNCHANGED <<partial, log, failures, p_status>>
        /\ ExitEnds(pipe') /\ ~ HasExit(pipe') /\ ~ HasExitZero(pipe') /\ Known' = Known
        /\ (EndIn(pipe) => EndIn(pipe'))
    <3>1. /\ TextsAreKept' /\ pipe' \in Seq(Pieces) /\ UNCHANGED <<partial, log, failures, p_status>>
          /\ ExitEnds(pipe') /\ ~ HasExit(pipe')
      BY <2>1, PutMeta
    <3>2. ~ HasExitZero(pipe') /\ Known' = Known
      BY <2>1, PutMeta
    <3>3. EndIn(pipe) => EndIn(pipe')
      BY <2>1, PutMeta
    <3> QED
      BY <3>1, <3>2, <3>3
  <2>3. PipeTyped'
    BY <2>1, <2>2 DEF PipeTyped, WorkTyped
  <2>4. Ended' => Ended
    BY <2>1, <2>2, Running DEF Ended
  <2>5. FailuresArrive'
    BY <2>1, <2>2, <2>4, Running DEF FailuresArrive
  <2>6. Ended' => failed' = {} \/ ListLogged \/ EndIn(pipe')
    BY <2>1, <2>2, <2>4 DEF FailuresAreListed
  <2> QED
    BY <1>0, <2>1, <2>2, <2>3, <2>5, <2>6
<1> QED
  BY <1>1, <1>2, <1>3, <1>4, <1>5, <1>6, <1>7

\* Scripts and daemons write texts.
LEMMA TextsKeep ==
    ASSUME PipeInv, Pipe!ScriptPrints \/ Pipe!DaemonPrints PROVE PipeInv'
<1> USE ScriptFacts DEF PipeInv
<1>0. ASSUME PipeTyped', TextsAreKept', UNCHANGED <<log, failures, failed, killed, p_status, p_at>>,
             p_pc' = p_pc \/ {p_pc, p_pc'} \subseteq {"run", "asking"}, p_status = Nil,
             ExitEnds(pipe'), HasExit(pipe') <=> HasExit(pipe), HasExitZero(pipe') <=> HasExitZero(pipe),
             Known' = Known, EndIn(pipe) => EndIn(pipe')
      PROVE  PipeInv'
  <2>1. (p_pc' = "gone" <=> p_pc = "gone") /\ (p_pc' = "exit" <=> p_pc = "exit") /\ (Ended' <=> Ended)
    BY <1>0 DEF Ended
  <2>2. ExitIsLast' /\ ScriptsAreRead'
    BY <1>0, <2>1 DEF ExitIsLast, ScriptsAreRead
  <2>3. FailuresArrive'
    BY <1>0, <2>1 DEF FailuresArrive
  <2>4. FailuresAreListed'
    BY <1>0, <2>1 DEF FailuresAreListed, ListLogged
  <2> QED
    BY <1>0, <2>2, <2>3, <2>4
<1>1. CASE Pipe!ScriptPrints
  <2> DEFINE w == Pipe!Fore(Pipe!Commands[p_at])
  <2>1. PICK nl \in BOOLEAN : /\ Pipe!Put(Pipe!Text(w, sent[w] + 1, nl)) /\ p_pc' = (IF nl THEN "run" ELSE "asking")
                             /\ sent' = [sent EXCEPT ![w] = @ + 1] /\ UNCHANGED Pipe!post
                             /\ p_pc = "run" /\ w \in Pipe!Writers /\ UNCHANGED <<p_at, failed, killed>>
    BY <1>1 DEF Pipe!ScriptPrints
  <2>2. p_status = Nil /\ ~ HasExit(pipe)
    BY <2>1, Running
  <2> HIDE DEF w
  <2>3. /\ TextsAreKept' /\ pipe' \in Seq(Pieces) /\ sent' \in [Pipe!Writers -> Nat]
        /\ UNCHANGED <<partial, log, failures, p_status>>
        /\ ExitEnds(pipe') /\ (HasExit(pipe') <=> HasExit(pipe)) /\ (HasExitZero(pipe') <=> HasExitZero(pipe))
        /\ Known' = Known /\ (EndIn(pipe) => EndIn(pipe'))
    BY <2>1, <2>2, PutText
  <2>4. p_pc' \in {"run", "asking"}
    BY <2>1
  <2>5. PipeTyped'
    BY <2>1, <2>3, <2>4 DEF PipeTyped, WorkTyped
  <2> QED
    BY <1>0, <2>1, <2>2, <2>3, <2>4, <2>5
<1>2. CASE Pipe!DaemonPrints
  <2>1. PICK s \in Leaving, nl \in BOOLEAN :
            /\ Pipe!Put(Pipe!Text(Pipe!Back(s), sent[Pipe!Back(s)] + 1, nl))
            /\ sent' = [sent EXCEPT ![Pipe!Back(s)] = @ + 1] /\ UNCHANGED Pipe!post
            /\ p_status = Nil /\ UNCHANGED <<p_pc, p_at, failed, killed>>
    BY <1>2 DEF Pipe!DaemonPrints, Pipe!work
  <2> DEFINE w == Pipe!Back(s)
  <2>2. w \in Pipe!Writers /\ \A v \in Pipe!ScriptSet : w # Pipe!Fore(v)
    BY <2>1
  <2> HIDE DEF w
  <2>3. /\ Pipe!Put(Pipe!Text(w, sent[w] + 1, nl)) /\ sent' = [sent EXCEPT ![w] = @ + 1]
    BY <2>1 DEF w
  <2>4. /\ TextsAreKept' /\ pipe' \in Seq(Pieces) /\ sent' \in [Pipe!Writers -> Nat]
        /\ UNCHANGED <<partial, log, failures, p_status>>
        /\ ExitEnds(pipe') /\ (HasExit(pipe') <=> HasExit(pipe)) /\ (HasExitZero(pipe') <=> HasExitZero(pipe))
        /\ Known' = Known /\ (EndIn(pipe) => EndIn(pipe'))
    BY <2>1, <2>2, <2>3, PutText
  <2>5. PipeTyped'
    BY <2>1, <2>4 DEF PipeTyped, WorkTyped
  <2> QED
    BY <1>0, <2>1, <2>4, <2>5
<1> QED
  BY <1>1, <1>2

\* Steps that neither write nor read.
LEMMA OthersKeep ==
    ASSUME PipeInv,
           Pipe!Answer \/ Pipe!CommandEnds \/ Pipe!Killed \/ Pipe!NopEnds \/ Pipe!DaemonGoes \/ Pipe!EndOfFile
    PROVE  PipeInv'
<1> USE ScriptFacts DEF PipeInv
<1>0. UNCHANGED <<pipe, sent, partial, log, failures>>
  BY DEF Pipe!Answer, Pipe!CommandEnds, Pipe!Killed, Pipe!NopEnds, Pipe!DaemonGoes, Pipe!EndOfFile, Pipe!post
<1>1. TextsAreKept' /\ Known' = Known /\ (\A w : Pipe!AllLogged(w)' <=> Pipe!AllLogged(w))
  BY <1>0 DEF TextsAreKept, StreamOf, Known, Pipe!AllLogged
<1>2. CASE Pipe!Answer \/ Pipe!NopEnds \/ Pipe!DaemonGoes
  <2>1. UNCHANGED <<p_at, failed, killed, p_status>> /\ (p_pc' = p_pc \/ (p_pc = "asking" /\ p_pc' = "run"))
    BY <1>2 DEF Pipe!Answer, Pipe!NopEnds, Pipe!DaemonGoes, Pipe!post, Pipe!work
  <2>2. PipeTyped'
    BY <1>0, <2>1 DEF PipeTyped, WorkTyped
  <2>3. (Ended' <=> Ended) /\ (p_pc' = "gone" <=> p_pc = "gone") /\ (p_pc' = "status" => p_pc = "status")
    BY <1>0, <2>1 DEF Ended
  <2>4. ExitIsLast' /\ ScriptsAreRead'
    BY <1>0, <1>1, <2>1, <2>3 DEF ExitIsLast, ScriptsAreRead
  <2>5. FailuresArrive'
    BY <1>0, <1>1, <2>1, <2>3 DEF FailuresArrive
  <2>6. FailuresAreListed'
    BY <1>0, <2>1, <2>3 DEF FailuresAreListed, ListLogged
  <2> QED
    BY <1>1, <2>2, <2>4, <2>5, <2>6
<1>3. CASE Pipe!CommandEnds
  <2>1. /\ p_pc = "run" /\ p_pc' = "status" /\ UNCHANGED <<p_at, killed, p_status>>
        /\ failed' = failed \/ failed' = failed \cup {Pipe!Commands[p_at]}
        /\ p_at \in DOMAIN Pipe!Commands
    BY <1>3 DEF Pipe!CommandEnds, Pipe!post, PipeTyped, WorkTyped
  <2>2. PipeTyped'
    BY <1>0, <2>1 DEF PipeTyped, WorkTyped
  <2>3. ~ Ended' /\ p_status = Nil /\ ~ killed /\ ~ HasExit(pipe)
    BY <1>0, <2>1, Running DEF Ended
  <2>4. ExitIsLast' /\ ScriptsAreRead'
    BY <1>0, <2>1, <2>3 DEF ExitIsLast, ScriptsAreRead
  <2>5. FailuresArrive'
    BY <1>0, <1>1, <2>1, <2>3 DEF FailuresArrive
  <2>6. FailuresAreListed'
    BY <2>3 DEF FailuresAreListed
  <2> QED
    BY <1>1, <2>2, <2>4, <2>5, <2>6
<1>4. CASE Pipe!Killed
  <2>1. p_pc # "gone" /\ p_pc' = "gone" /\ killed' = TRUE /\ UNCHANGED <<p_at, failed, p_status>>
    BY <1>4 DEF Pipe!Killed, Pipe!post
  <2>2. PipeTyped'
    BY <1>0, <2>1 DEF PipeTyped, WorkTyped
  <2>3. ~ Ended' /\ p_status = Nil /\ ~ HasExit(pipe)
    BY <1>0, <2>1, Running DEF Ended
  <2>4. ExitIsLast' /\ ScriptsAreRead'
    BY <1>0, <2>1, <2>3 DEF ExitIsLast, ScriptsAreRead
  <2>5. FailuresArrive'
    BY <1>0, <1>1, <2>1, <2>3 DEF FailuresArrive
  <2>6. FailuresAreListed'
    BY <2>3 DEF FailuresAreListed
  <2> QED
    BY <1>1, <2>2, <2>4, <2>5, <2>6
<1>5. CASE Pipe!EndOfFile
  <2>1. /\ p_status = Nil /\ pipe = <<>> /\ p_pc = "gone" /\ p_status' = 1
        /\ UNCHANGED <<p_pc, p_at, failed, killed>>
    BY <1>5 DEF Pipe!EndOfFile, Pipe!work
  <2>2. PipeTyped'
    BY <1>0, <2>1 DEF PipeTyped, WorkTyped
  <2>3. ~ HasExit(pipe) /\ ~ HasExitZero(pipe) /\ killed
    BY <2>1 DEF ExitIsLast, HasExit, HasExitZero
  <2>4. ~ Ended'
    BY <1>0, <2>1, <2>3 DEF Ended
  <2>5. ExitIsLast' /\ ScriptsAreRead'
    BY <1>0, <2>1, <2>3 DEF ExitIsLast, ScriptsAreRead
  <2>6. FailuresArrive'
    BY <1>0, <1>1, <2>1, <2>4 DEF FailuresArrive
  <2>7. FailuresAreListed'
    BY <2>4 DEF FailuresAreListed
  <2> QED
    BY <1>1, <2>2, <2>5, <2>6, <2>7
<1> QED
  BY <1>2, <1>3, <1>4, <1>5

\* The reader takes a piece.
LEMMA ReadKeeps == ASSUME PipeInv, Pipe!ReadPiece PROVE PipeInv'
<1> USE DEF PipeInv
<1> DEFINE x == Head(pipe)
           rest == Tail(pipe)
           told == IF x.word = "cmd-status" /\ x.arg # 0 THEN {x.from} ELSE {}
           u == Pipe!Logged(x)
<1>1. /\ p_status = Nil /\ pipe # <<>> /\ pipe \in Seq(Pieces) /\ pipe' = rest
      /\ UNCHANGED <<p_pc, p_at, failed, killed, sent>>
  BY ReadCases DEF PipeTyped
<1>2. \/ x.word = "text" /\ UNCHANGED <<log, failures, p_status>>
      \/ /\ partial' = <<>> /\ log' = (log \o partial) \o u /\ failures' = failures \cup told
         /\ p_status' = IF x.word = "exit" THEN x.arg ELSE p_status
  BY ReadCases
<1>3. /\ TextsAreKept' /\ pipe' \in Seq(Pieces) /\ partial' \in Seq(Pieces) /\ log' \in Seq(Pieces)
      /\ \A i \in DOMAIN log : \E j \in DOMAIN log' : log'[j] = log[i]
  BY ReadKeepsTexts
<1>4. /\ x \in Pieces
      /\ HasExit(pipe) <=> HasExit(rest) \/ x.word = "exit"
      /\ HasExitZero(rest) => HasExitZero(pipe)
      /\ x.word = "exit" /\ x.arg = 0 => HasExitZero(pipe)
      /\ ExitEnds(rest)
      /\ x.word = "exit" =>
             /\ x.arg \in {0, 1} /\ Reported(rest) = {} /\ ~ HasExit(rest) /\ ~ EndIn(pipe)
             /\ \A v \in Pipe!ScriptSet : \A n : ~ Pipe!Has(rest, Pipe!Fore(v), n)
      /\ EndIn(pipe) => EndIn(rest) \/ (x.word = "end" /\ Reported(rest) = {})
  BY <1>1, TailFacts DEF ExitIsLast
<1>5. Reported(pipe) = Reported(rest) \cup told
  BY <1>1, TailFacts
<1>6. ListLogged => ListLogged'
  BY <1>1, <1>3 DEF ListLogged
<1>7. /\ \A w, n : ~ (x.word = "text" /\ UNCHANGED log) /\ Pipe!Has(u, w, n) => Pipe!Has(log', w, n)
      /\ x.word = "end" /\ failures # {} =>
             \E i \in DOMAIN log' : log'[i].word = "failures" /\ log'[i].arg = failures
  <2>1. CASE x.word = "text" /\ UNCHANGED log
    BY <2>1
  <2>2. CASE log' = (log \o partial) \o u
    <3>1. /\ u \in Seq(Pieces)
          /\ x.word = "end" /\ failures # {} =>
                 \E i \in DOMAIN u : u[i].word = "failures" /\ u[i].arg = failures
      BY <1>4, LoggedFacts
    <3>2. log \o partial \in Seq(Pieces)
      BY ConcatFacts DEF PipeTyped
    <3>3. /\ \A w, n : Pipe!Has(log', w, n) <=> Pipe!Has(log \o partial, w, n) \/ Pipe!Has(u, w, n)
          /\ \A i \in DOMAIN u : \E j \in DOMAIN log' : log'[j] = u[i]
      BY <2>2, <3>1, <3>2, ConcatFacts
    <3> QED
      BY <3>1, <3>3
  <2> QED
    BY <1>2, <2>1, <2>2
<1> HIDE DEF x, rest, u
<1>8. CASE x.word = "exit"
  <2>1. p_status' = x.arg /\ p_status' \in {0, 1} /\ failures' = failures /\ partial' = <<>> /\ told = {}
    BY <1>2, <1>4, <1>8
  <2>2. p_pc = "gone" /\ ~ killed /\ HasExit(pipe)
    BY <1>4, <1>8 DEF ExitIsLast
  <2>3. Known = failures /\ Known' = failures /\ ~ HasExit(rest)
    BY <1>1, <1>4, <1>5, <1>8, <2>1 DEF Known
  <2>4. ~ HasExitZero(rest)
    BY <2>3 DEF HasExit, HasExitZero
  <2>5. Ended' => p_status' = 0
    BY <1>1, <2>2, <2>4 DEF Ended
  <2>6. p_status' = 0 => Ended
    BY <1>4, <1>8, <2>1 DEF Ended
  <2>7. PipeTyped'
    BY <1>1, <1>3, <2>1 DEF PipeTyped, WorkTyped
  <2>8. ExitIsLast'
    BY <1>1, <1>4, <2>1, <2>2, <2>3, ScriptFacts DEF ExitIsLast
  <2>9. FailuresArrive'
    BY <1>1, <2>2, <2>3, <2>1, <2>5, <2>6 DEF FailuresArrive
  <2>10. FailuresAreListed'
    BY <1>1, <1>4, <1>6, <1>8, <2>5, <2>6 DEF FailuresAreListed
  <2>11. ScriptsAreRead'
    <3>1. SUFFICES ASSUME NEW s \in Pipe!ScriptSet, NEW n \in 1 .. sent[Pipe!Fore(s)]
                   PROVE  Pipe!Has(log', Pipe!Fore(s), n)
      BY <1>1 DEF ScriptsAreRead, Pipe!AllLogged
    <3>2. StreamOf(Pipe!Fore(s))'
      BY <1>3, ScriptFacts DEF TextsAreKept
    <3>3. ~ Pipe!Has(partial', Pipe!Fore(s), n)
      BY <2>1 DEF Pipe!Has
    <3>4. ~ Pipe!Has(pipe', Pipe!Fore(s), n)
      BY <1>1, <1>4, <1>8
    <3> QED
      BY <1>1, <3>1, <3>2, <3>3, <3>4 DEF StreamOf
  <2> QED
    BY <1>3, <2>7, <2>8, <2>9, <2>10, <2>11
<1>9. CASE x.word # "exit"
  <2>1. p_status' = Nil /\ failures' = failures \cup told
    BY <1>1, <1>2, <1>9
  <2>2. Known' = Known
    BY <1>1, <1>5, <2>1 DEF Known
  <2>3. Ended' => Ended
    BY <1>1, <1>4, <2>1, ScriptFacts DEF Ended
  <2>4. failures' \subseteq CommandSet
    BY <1>5, <2>1 DEF FailuresArrive, Known, PipeTyped, WorkTyped
  <2>5. PipeTyped'
    BY <1>1, <1>3, <2>4 DEF PipeTyped, WorkTyped
  <2>6. ExitIsLast' /\ ScriptsAreRead'
    BY <1>1, <1>4, <1>9, <2>1, ScriptFacts DEF ExitIsLast, ScriptsAreRead
  <2>7. FailuresArrive'
    BY <1>1, <2>1, <2>2, <2>3, ScriptFacts DEF FailuresArrive
  <2>8. FailuresAreListed'
    <3>1. SUFFICES ASSUME Ended', failed # {}, ~ ListLogged', ~ EndIn(pipe') PROVE FALSE
      BY <1>1, <2>1 DEF FailuresAreListed
    <3>2. EndIn(pipe) /\ failed \subseteq Known /\ Known \subseteq failed
      BY <1>6, <2>3, <3>1 DEF FailuresAreListed, FailuresArrive
    <3>3. x.word = "end" /\ Reported(rest) = {}
      BY <1>1, <1>4, <3>1, <3>2
    <3>4. failures = failed
      BY <1>5, <3>2, <3>3 DEF Known
    <3> QED
      BY <1>1, <1>7, <3>1, <3>3, <3>4 DEF ListLogged
  <2> QED
    BY <1>3, <2>5, <2>6, <2>7, <2>8
<1> QED
  BY <1>8, <1>9

LEMMA InitPipeInv == Pipe!Init => PipeInv
<1>1. SUFFICES ASSUME Pipe!Init PROVE PipeInv
  OBVIOUS
<1>2. /\ p_pc = "start" /\ p_at = 1 /\ pipe = <<>> /\ failed = {} /\ killed = FALSE
      /\ partial = <<>> /\ log = <<>> /\ failures = {} /\ p_status = Nil
      /\ sent = [w \in Pipe!Writers |-> 0]
  BY <1>1 DEF Pipe!Init
<1>3. PipeTyped
  BY <1>2, ScriptFacts DEF PipeTyped, WorkTyped
<1>4. \A w, n : ~ Pipe!Has(<<>>, w, n)
  BY DEF Pipe!Has
<1>5. \A w : Pipe!Ordered(<<>>, w)
  BY DEF Pipe!Ordered
<1>6. \A w \in Pipe!Writers : 1 .. sent[w] = {}
  BY <1>2
<1>7. TextsAreKept
  <2>1. TextsOnly(partial) /\ LinesEnd(pipe)
    BY <1>2 DEF TextsOnly, LinesEnd
  <2> QED
    BY <1>2, <1>4, <1>5, <1>6, <2>1 DEF TextsAreKept, StreamOf, Below
<1>8. ~ HasExit(pipe) /\ ~ HasExitZero(pipe) /\ ExitEnds(pipe) /\ Reported(pipe) = {}
  BY <1>2 DEF HasExit, HasExitZero, ExitEnds, Reported
<1>9. ~ Ended /\ ExitIsLast /\ ScriptsAreRead
  BY <1>2, <1>8, ScriptFacts DEF Ended, ExitIsLast, ScriptsAreRead
<1>10. FailuresArrive /\ FailuresAreListed
  BY <1>2, <1>8, <1>9, ScriptFacts DEF FailuresArrive, FailuresAreListed, Known, Ended
<1> QED
  BY <1>3, <1>7, <1>9, <1>10 DEF PipeInv

LEMMA StepPipeInv == PipeInv /\ [Pipe!Next]_(Pipe!vars) => PipeInv'
<1> SUFFICES ASSUME PipeInv, [Pipe!Next]_(Pipe!vars) PROVE PipeInv'
  OBVIOUS
<1>1. CASE UNCHANGED Pipe!vars
  <2>1. UNCHANGED <<p_pc, p_at, pipe, sent, failed, killed, partial, log, failures, p_status>>
    BY <1>1 DEF Pipe!vars
  <2>2. PipeTyped' /\ TextsAreKept' /\ ExitIsLast'
    BY <2>1 DEF PipeInv, PipeTyped, WorkTyped, TextsAreKept, StreamOf, ExitIsLast
  <2>3. Known' = Known /\ (Ended' <=> Ended)
    BY <2>1 DEF Known, Ended
  <2>4. FailuresArrive' /\ FailuresAreListed' /\ ScriptsAreRead'
    BY <2>1, <2>3 DEF PipeInv, FailuresArrive, FailuresAreListed, ListLogged, ScriptsAreRead, Pipe!AllLogged
  <2> QED
    BY <2>2, <2>4 DEF PipeInv
<1> QED
  BY <1>1, WorkWrites, TextsKeep, OthersKeep, ReadKeeps DEF Pipe!Next

\* What the invariant says of the log and of the status.
LEMMA PipeInvReports == PipeInv => BootIsReported
<1> SUFFICES ASSUME PipeInv PROVE Pipe!ScriptsAreLogged /\ Pipe!ZeroIsComplete
  BY DEF BootIsReported, Pipe!BootIsReported
<1> USE ScriptFacts DEF PipeInv
<1>1. ASSUME NEW w \in Pipe!Writers
      PROVE  Pipe!Ordered(log, w) /\ \A m, n \in 1 .. sent[w] : m < n /\ Pipe!Has(log, w, n) => Pipe!Has(log, w, m)
  <2>1. StreamOf(w)
    BY DEF TextsAreKept
  <2>2. ASSUME NEW m \in 1 .. sent[w], NEW n \in 1 .. sent[w], m < n, Pipe!Has(log, w, n)
        PROVE  Pipe!Has(log, w, m)
    <3>1. ~ (n < m)
      BY <2>2
    <3> QED
      BY <2>1, <2>2, <3>1 DEF StreamOf, Below
  <2> QED
    BY <2>1, <2>2 DEF StreamOf
<1>2. Pipe!ScriptsAreLogged
  BY <1>1 DEF Pipe!ScriptsAreLogged, ScriptsAreRead
<1>3. Pipe!ZeroIsComplete
  BY DEF Pipe!ZeroIsComplete, Ended, ExitIsLast, FailuresArrive, FailuresAreListed, ListLogged
<1> QED
  BY <1>2, <1>3

(***************************************************************************)
(* The log has what every writer has said in its order and without a gap,  *)
(* all that the scripts said when the exit line has been read, and etc/rc  *)
(* says 0 only of a boot that ran to its end and has listed its failures,  *)
(* for every list of scripts and whatever the daemons write in between.    *)
(* (rc:279-459)                                                            *)
(***************************************************************************)
THEOREM BootsAreReported == Pipe!Spec => []BootIsReported
<1> QED
  BY InitPipeInv, StepPipeInv, PipeInvReports, PTL DEF Pipe!Spec

=============================================================================
