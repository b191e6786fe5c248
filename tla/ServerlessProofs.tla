-------------------------- MODULE ServerlessProofs --------------------------
(***************************************************************************)
(* Theorems about the start of both programs and the serverless client,    *)
(* for every value of the constants: any kinds, periods, edits, starts and *)
(* ticks.  The inductive invariant is Invariant, in Serverless; its first  *)
(* part, StartInvariant, is about the file and the periods alone.          *)
(***************************************************************************)
EXTENDS Serverless, TLAPS

-----------------------------------------------------------------------------
(* The start. *)

(* The periods a program may begin or fall back with are periods.          *)
LEMMA PeriodsTyped ==
  Zero \in Periods /\ AllDefault \in Periods /\ [Kinds -> Given] \subseteq Periods
  BY StartUpAssumption DEF Zero, AllDefault, Periods

(* The kinds of contents exclude each other.                               *)
LEMMA ContentsTyped ==
  ASSUME NEW f \in Contents
  PROVE  /\ f.is \in {"absent", "unreadable", "good", "broken"}
         /\ f.is \in {"good", "broken"} => f.periods \in Periods
  BY DEF Contents, Absent, Unreadable, Good, Broken

(* What UseDefaults makes of whatever Load left in Collect.                *)
LEMMA DefaultsWhole ==
  ASSUME StartTypeOK
  PROVE  UseDefaults(HalfLoaded) = AllDefault
<1>1. HalfLoaded \in Periods
  BY ContentsTyped DEF StartTypeOK, HalfLoaded
<1>2. DOMAIN HalfLoaded = Kinds
  BY <1>1 DEF Periods
<1> QED  BY <1>2 DEF UseDefaults, AllDefault

(* Every step of the start and of the operator keeps StartInvariant: the   *)
(* file tells what the program runs with, and no file that is good is      *)
(* written over (main, Collect.Load, UseDefaults, SaveJSON).               *)
LEMMA StartStep ==
  ASSUME StartInvariant,
         \/ Start \/ StartUpStep \/ OutputFails \/ OutputOpens \/ Stop \/ Edit
         \/ UNCHANGED startVars
  PROVE  StartInvariant'
<1> USE StartUpAssumption, PeriodsTyped
    DEF StartInvariant, StartTypeOK, PeriodsWhole, GoodFilesSeen, DefaultsSaved,
        RewritesNoGoodFile, FileTellsPeriods, WouldRunWith
<1>0. file.is = "good" => file.periods \in Periods
  BY ContentsTyped
<1>1. CASE Start
  BY <1>1 DEF Start
<1>2. CASE Load
  BY <1>0, <1>2 DEF Load, history
<1>3. CASE LoadFails
  BY <1>3, DefaultsWhole DEF LoadFails, history
<1>4. CASE LoadFatal
  BY <1>4 DEF LoadFatal, history
<1>5. CASE SaveFails
  BY <1>5 DEF SaveFails, history
<1>6. CASE SaveTruncates
  <2>1. file' \in Contents /\ file'.is = "broken"
    BY <1>6 DEF SaveTruncates, Truncated, Broken, Contents
  <2> QED  BY <1>6, <2>1 DEF SaveTruncates, history
<1>7. CASE SaveWrites
  <2>1. file' \in Contents /\ file'.is = "good" /\ file'.periods = collect
    BY <1>7 DEF SaveWrites, Saved, Good, Contents
  <2> QED  BY <1>7, <2>1 DEF SaveWrites, Saved
<1>8. CASE SaveWriteFails
  BY <1>8 DEF SaveWriteFails, history
<1>9. CASE OutputFails
  BY <1>9 DEF OutputFails, history
<1>10. CASE OutputOpens
  BY <1>10 DEF OutputOpens
<1>11. CASE Stop
  BY <1>11 DEF Stop, history
<1>12. CASE Edit
  <2>1. file' \in Contents /\ (file'.is = "good" => file'.periods \in seen')
    BY <1>12 DEF Edit, Contents, Absent, Unreadable, Good, Broken
  <2>2. seen' \subseteq Periods /\ seen \subseteq seen'
    BY <1>12 DEF Edit
  <2>3. /\ pc # "write" /\ edits < MaxEdits /\ edits' = edits + 1
        /\ ~clean' /\ clean' \in BOOLEAN /\ last' = None
        /\ UNCHANGED <<program, collect, pc, starts>>
    BY <1>12 DEF Edit
  <2> QED  BY <2>1, <2>2, <2>3
<1>13. CASE UNCHANGED startVars
  BY <1>13 DEF startVars, history
<1> QED
  BY <1>1, <1>2, <1>3, <1>4, <1>5, <1>6, <1>7, <1>8, <1>9, <1>10, <1>11, <1>12,
     <1>13 DEF StartUpStep

(* A step of the serverless client is one of these for the start.          *)
LEMMA StartPart ==
  ASSUME [Next]_vars
  PROVE  \/ Start \/ StartUpStep \/ OutputFails \/ OutputOpens \/ Stop \/ Edit
         \/ UNCHANGED startVars
<1>1. CASE UNCHANGED vars
  BY <1>1 DEF vars
<1>2. CASE StartProcess \/ SetDataOut
  BY <1>2 DEF StartProcess, SetDataOut
<1>3. CASE SystemInfo \/ CloseOut
  BY <1>3 DEF SystemInfo, CloseOut
<1>4. ASSUME NEW k \in Kinds, CollectorStep(k)
      PROVE  Stop \/ UNCHANGED startVars
  BY <1>4 DEF CollectorStep, BeginNot, Begin, BeginPanics, Fails, Take, WriteLine
<1> QED  BY <1>1, <1>2, <1>3, <1>4 DEF Next

-----------------------------------------------------------------------------
(* The two action properties of the start. *)

(* The output opens with the periods of the last run, if there was one     *)
(* since the last edit.                                                    *)
LEMMA SameAgainStep ==
  ASSUME StartInvariant, OutputOpens, last # None
  PROVE  collect = last
  BY DEF StartInvariant, FileTellsPeriods, WouldRunWith, OutputOpens

(* No step but the operator's changes a good file that is the program's    *)
(* own.                                                                    *)
LEMMA KeptStep ==
  ASSUME StartInvariant, [Next]_vars, clean, file.is = "good"
  PROVE  file' = file \/ edits' # edits
<1>1. CASE Edit
  BY <1>1 DEF Edit, StartInvariant, StartTypeOK
<1>2. CASE SaveTruncates \/ SaveWrites
  BY <1>2 DEF SaveTruncates, SaveWrites, StartInvariant, RewritesNoGoodFile
<1>3. CASE \/ Start \/ Load \/ LoadFails \/ LoadFatal \/ SaveFails \/ SaveWriteFails
           \/ OutputFails \/ OutputOpens \/ Stop \/ UNCHANGED startVars
  BY <1>3 DEF Start, Load, LoadFails, LoadFatal, SaveFails, SaveWriteFails,
              OutputFails, OutputOpens, Stop, startVars
<1> QED  BY <1>1, <1>2, <1>3, StartPart DEF StartUpStep

-----------------------------------------------------------------------------
(* The collectors and the data file. *)

(* The conjuncts of Invariant that are about a run.                        *)
RunInvariant ==
  /\ TypeOK
  /\ NothingBeforeRun /\ InfoBeforeCollectors /\ InfoWritten /\ LineHasTick
  /\ LinesFaithful

(* Each start has nothing of the run before it.                            *)
LEMMA FreshRun ==
  ASSUME TypeOK, StartTypeOK',
         UNCHANGED <<layout, startInfo>>,
         ~info', ~dataOpen', info' \in BOOLEAN, dataOpen' \in BOOLEAN, lines' = <<>>,
         cpc' = [k \in Kinds |-> "idle"], taken' = [k \in Kinds |-> 0]
  PROVE  RunInvariant'
<1> USE DEF RunInvariant
<1>1. TypeOK'
  BY ServerlessAssumption DEF TypeOK
<1>2. \A k \in Kinds : At(k)' = {} /\ Due(k)' = 0
  BY DEF At, Due
<1>3. LinesFaithful'
  BY <1>2 DEF LinesFaithful, InOrder, NoTickInvented, NoTickSkipped,
              NoneMissing, InfoFirst
<1> QED
  BY <1>1, <1>3 DEF NothingBeforeRun, InfoBeforeCollectors, InfoWritten, LineHasTick

(* A step of the start, of the operator or of the signal handler leaves    *)
(* the collectors and the lines alone; the file opens while there are none *)
(* (main, CloseOut).                                                       *)
LEMMA QuietStep ==
  ASSUME RunInvariant, StartTypeOK',
         UNCHANGED <<layout, startInfo, info, cpc, taken, lines>>,
         \/ dataOpen' = dataOpen /\ (pc' = pc \/ pc' = "off")
         \/ pc \notin {"run", "off"} /\ pc' \notin {"run", "off"} /\ dataOpen' = dataOpen
         \/ pc \notin {"run", "off"} /\ dataOpen' = TRUE /\ pc' = "run"
         \/ ~dataOpen' /\ dataOpen' \in BOOLEAN /\ pc' = pc
  PROVE  RunInvariant'
<1> USE DEF RunInvariant
<1>1. TypeOK'
  BY DEF TypeOK
<1>2. ASSUME NEW k \in Kinds PROVE At(k)' = At(k) /\ Due(k)' = Due(k)
  BY DEF At, Due
<1>3. ASSUME NEW k \in Kinds PROVE NoneMissing(k)'
  <2>1. CASE dataOpen' => dataOpen
    BY <1>2, <2>1 DEF NoneMissing, LinesFaithful
  <2>2. CASE pc \notin {"run", "off"}
    <3>1. Due(k)' = 0
      BY <2>2 DEF NothingBeforeRun, Due
    <3> QED  BY <3>1 DEF NoneMissing
  <2> QED  BY <2>1, <2>2
<1>4. LinesFaithful'
  BY <1>2, <1>3 DEF LinesFaithful, InOrder, NoTickInvented, NoTickSkipped, InfoFirst
<1>5. NothingBeforeRun' /\ InfoBeforeCollectors' /\ LineHasTick'
  BY DEF NothingBeforeRun, InfoBeforeCollectors, LineHasTick
<1>6. InfoWritten'
  BY DEF InfoWritten, NothingBeforeRun
<1> QED  BY <1>1, <1>4, <1>5, <1>6

(* The system information is the first line or none (SystemInfoServerless).*)
LEMMA SystemInfoStep ==
  ASSUME RunInvariant, StartTypeOK', UNCHANGED <<layout, startInfo>>, SystemInfo
  PROVE  RunInvariant'
<1> USE DEF RunInvariant, SystemInfo
<1>1. lines = <<>> /\ \A k \in Kinds : cpc[k] = "idle" /\ taken[k] = 0
  BY DEF InfoBeforeCollectors
<1>2. lines' = IF startInfo /\ dataOpen THEN <<Info>> ELSE <<>>
  BY <1>1 DEF Write
<1>3. TypeOK'
  <2>1. lines' \in Seq(Lines)
    <3>1. Info \in Lines
      BY DEF Lines
    <3> QED  BY <1>2, <3>1
  <2> QED  BY <2>1 DEF TypeOK
<1>4. \A i \in DOMAIN lines' : lines'[i] = Info /\ i = 1 /\ startInfo
  BY <1>2
<1>5. ASSUME NEW k \in Kinds PROVE At(k)' = {} /\ Due(k)' = 0
  BY <1>1, <1>4, ServerlessAssumption DEF At, Due, Info
<1>6. LinesFaithful'
  BY <1>4, <1>5 DEF LinesFaithful, InOrder, NoTickInvented, NoTickSkipped,
                    NoneMissing, InfoFirst
<1> QED
  BY <1>1, <1>2, <1>3, <1>6 DEF NothingBeforeRun, InfoBeforeCollectors, InfoWritten,
     LineHasTick, Collecting, startVars

(* A collector that begins, gives up or takes a tick writes nothing.       *)
LEMMA CollectorMoves ==
  ASSUME RunInvariant, StartTypeOK', UNCHANGED <<layout, startInfo>>, NEW k \in Kinds,
         BeginNot(k) \/ Begin(k) \/ Fails(k) \/ Take(k)
  PROVE  RunInvariant'
<1> USE DEF RunInvariant
<1>1. /\ info /\ pc = "run" /\ cpc[k] \in {"idle", "loop"}
      /\ UNCHANGED <<startVars, info, dataOpen, lines>>
  BY DEF BeginNot, Begin, Fails, Take, Collecting
<1>2. /\ TypeOK' /\ LineHasTick'
      /\ \A j \in Kinds : Due(j)' = Due(j)
  <2>1. cpc \in [Kinds -> {"idle", "loop", "line", "ended"}] /\ taken \in [Kinds -> Nat]
    BY ServerlessAssumption DEF TypeOK
  <2>2. CASE Take(k)
    <3>1. /\ taken[k] < MaxTicks /\ cpc[k] = "loop"
          /\ taken' = [taken EXCEPT ![k] = taken[k] + 1]
          /\ cpc' = [cpc EXCEPT ![k] = "line"]
      BY <2>2 DEF Take, To
    <3>2. taken[k] + 1 \in 0..MaxTicks
      BY <3>1, ServerlessAssumption DEF TypeOK
    <3>3. TypeOK' /\ LineHasTick'
      BY <1>1, <2>1, <3>1, <3>2 DEF TypeOK, LineHasTick
    <3>4. \A j \in Kinds : Due(j)' = Due(j)
      BY <2>1, <3>1 DEF Due
    <3> QED  BY <3>3, <3>4
  <2>3. CASE BeginNot(k) \/ Begin(k) \/ Fails(k)
    <3>1. /\ taken' = taken
          /\ \E w \in {"loop", "ended"} : cpc' = [cpc EXCEPT ![k] = w]
      BY <2>3 DEF BeginNot, Begin, Fails, To
    <3> QED  BY <1>1, <2>1, <3>1 DEF TypeOK, LineHasTick, Due
  <2> QED  BY <2>2, <2>3
<1>3. \A j \in Kinds : At(j)' = At(j)
  BY <1>1 DEF At
<1>4. LinesFaithful'
  BY <1>1, <1>2, <1>3 DEF LinesFaithful, InOrder, NoTickInvented,
                          NoTickSkipped, NoneMissing, InfoFirst
<1> QED
  BY <1>1, <1>2, <1>4 DEF NothingBeforeRun, InfoBeforeCollectors, InfoWritten, startVars

(* A collector writes the line of its tick: the next one of its kind,      *)
(* after the system information (CPUUtilizationLocal and its like).        *)
LEMMA WriteLineStep ==
  ASSUME RunInvariant, StartTypeOK', UNCHANGED <<layout, startInfo>>, NEW k \in Kinds,
         WriteLine(k)
  PROVE  RunInvariant'
<1> USE DEF RunInvariant
<1> DEFINE line == Line(k, IF UseTS THEN "nanoseconds" ELSE FormattedTime)
<1>1. /\ pc = "run" /\ cpc[k] = "line" /\ info /\ taken[k] > 0
      /\ cpc' = [cpc EXCEPT ![k] = "loop"]
      /\ UNCHANGED <<startVars, info, taken, dataOpen>>
      /\ lines' = IF dataOpen THEN Append(lines, line) ELSE lines
  BY DEF WriteLine, Collecting, To, InfoBeforeCollectors, LineHasTick, Write
<1>2. /\ line \in Lines /\ line # Info
      /\ line.kind = k /\ line.n = taken[k]
  BY <1>1, ServerlessAssumption
     DEF Line, Lines, Info, UseTS, FormattedTime, TypeOK
<1> HIDE DEF line
<1>3. TypeOK' /\ LineHasTick'
  BY <1>1, <1>2 DEF TypeOK, LineHasTick
<1>4. /\ \A j \in Kinds : Due(j) \in Int
      /\ Due(k) = taken[k] - 1 /\ Due(k)' = taken[k] /\ taken[k] \in Nat
      /\ \A j \in Kinds \ {k} : Due(j)' = Due(j)
  BY <1>1, ServerlessAssumption DEF Due, TypeOK
<1>5. lines \in Seq(Lines)
  BY DEF TypeOK
<1>6. CASE ~dataOpen
  <2>1. \A j \in Kinds : At(j)' = At(j) /\ At(j) \subseteq DOMAIN lines
    BY <1>1, <1>6 DEF At
  <2>2. \A j \in Kinds : \A i \in At(j) : lines[i].n \in Int
    BY <1>5, <2>1, ServerlessAssumption DEF Lines, Info, At
  <2>3. LinesFaithful'
    BY <1>1, <1>4, <1>6, <2>1, <2>2
       DEF LinesFaithful, InOrder, NoTickInvented, NoTickSkipped,
           NoneMissing, InfoFirst
  <2> QED
    BY <1>1, <1>3, <1>6, <2>3 DEF NothingBeforeRun, InfoBeforeCollectors, InfoWritten, startVars
<1>7. CASE dataOpen
  <2> DEFINE top == Len(lines) + 1
  <2>1. /\ Len(lines) \in Nat /\ DOMAIN lines = 1..Len(lines)
        /\ DOMAIN lines' = DOMAIN lines \cup {top} /\ top \notin DOMAIN lines
        /\ \A i \in DOMAIN lines : lines'[i] = lines[i] /\ i < top
        /\ lines'[top] = line
    BY <1>1, <1>2, <1>5, <1>7
  <2> HIDE DEF top
  <2>2. /\ At(k)' = At(k) \cup {top}
        /\ \A j \in Kinds \ {k} : At(j)' = At(j)
        /\ \A j \in Kinds : At(j) \subseteq DOMAIN lines
    BY <1>2, <2>1 DEF At
  <2>3. \A j \in Kinds : \A i \in At(j) : lines[i].n \in Int
    BY <1>5, ServerlessAssumption DEF Lines, Info, At
  <2>4. \A j \in Kinds : \A i \in At(j) : lines'[i] = lines[i]
    BY <2>1, <2>2
  <2>5. ASSUME NEW j \in Kinds \ {k}
        PROVE  /\ InOrder(j)' /\ NoTickInvented(j)'
               /\ NoTickSkipped(j)' /\ NoneMissing(j)'
    <3>1. At(j)' = At(j) /\ Due(j)' = Due(j) /\ \A i \in At(j) : lines'[i] = lines[i]
      BY <1>4, <2>2, <2>4
    <3>2. InOrder(j) /\ NoTickInvented(j) /\ NoTickSkipped(j) /\ NoneMissing(j)
      BY DEF LinesFaithful
    <3>3. InOrder(j)' /\ NoTickInvented(j)'
      BY <3>1, <3>2 DEF InOrder, NoTickInvented
    <3>4. NoTickSkipped(j)'
      BY <3>1, <3>2 DEF NoTickSkipped
    <3>5. NoneMissing(j)'
      BY <1>1, <3>1, <3>2 DEF NoneMissing
    <3> QED  BY <3>3, <3>4, <3>5
  <2>6. InOrder(k)'
    <3>1. \A i \in At(k) : lines[i].n < taken[k]
      BY <1>4, <2>3 DEF LinesFaithful, NoTickInvented
    <3>2. InOrder(k)
      BY DEF LinesFaithful
    <3>3. \A i \in At(k) : i \in Nat /\ top \in Nat /\ i < top
      BY <2>1, <2>2 DEF top
    <3>4. ASSUME NEW i \in At(k)', NEW j \in At(k)', i < j
          PROVE  lines'[i].n < lines'[j].n
      <4>1. i \in At(k)
        BY <2>2, <3>3, <3>4 DEF top
      <4>2. CASE j = top
        BY <1>2, <2>1, <2>4, <3>1, <4>1, <4>2
      <4>3. CASE j \in At(k)
        BY <2>4, <3>2, <3>4, <4>1, <4>3 DEF InOrder
      <4> QED  BY <2>2, <4>2, <4>3
    <3> QED  BY <3>4 DEF InOrder
  <2>7. NoTickInvented(k)'
    BY <1>2, <1>4, <2>1, <2>2, <2>3, <2>4 DEF LinesFaithful, NoTickInvented
  <2>8. \A n \in 1..taken[k] : \E i \in At(k)' : lines'[i].n = n
    BY <1>2, <1>4, <1>7, <2>1, <2>2, <2>4 DEF LinesFaithful, NoneMissing
  <2>9. NoTickSkipped(k)' /\ NoneMissing(k)'
    <3>1. \A i \in At(k)' : lines'[i].n \in Int /\ lines'[i].n <= taken[k]
      BY <1>4, <2>1, <2>2, <2>3, <2>4, <2>7, <1>2 DEF NoTickInvented
    <3>2. \A i \in At(k)' : \A n \in 1..lines'[i].n : n \in 1..taken[k]
      BY <1>4, <3>1
    <3> QED  BY <1>4, <2>8, <3>2 DEF NoTickSkipped, NoneMissing
  <2>10. InfoFirst'
    BY <1>1, <1>2, <1>7, <2>1 DEF LinesFaithful, InfoFirst, InfoWritten
  <2>11. LinesFaithful'
    BY <2>5, <2>6, <2>7, <2>9, <2>10 DEF LinesFaithful
  <2> QED
    BY <1>1, <1>3, <1>7, <2>1, <2>11
       DEF NothingBeforeRun, InfoBeforeCollectors, InfoWritten, startVars
<1> QED  BY <1>6, <1>7 DEF TypeOK

-----------------------------------------------------------------------------
(* The theorems. *)

(* The initial states satisfy the invariant.                               *)
LEMMA InvariantInit ==
  ASSUME Init
  PROVE  Invariant
<1>1. StartInvariant
  <2>1. Absent \in Contents /\ Absent.is = "absent"
    BY DEF Contents, Absent
  <2> QED
    BY <2>1, StartUpAssumption, PeriodsTyped
       DEF Init, StartInit, StartInvariant, StartTypeOK, PeriodsWhole, GoodFilesSeen,
           DefaultsSaved, RewritesNoGoodFile, FileTellsPeriods, WouldRunWith
<1>2. /\ cpc = [k \in Kinds |-> "idle"] /\ taken = [k \in Kinds |-> 0]
      /\ lines = <<>> /\ DOMAIN lines = {}
  BY DEF Init
<1>3. TypeOK
  <2>1. lines \in Seq(Lines) /\ cpc \in [Kinds -> {"idle", "loop", "line", "ended"}]
    BY <1>2
  <2>2. taken \in [Kinds -> 0..MaxTicks]
    BY <1>2, ServerlessAssumption
  <2>3. layout \in Layouts /\ startInfo \in BOOLEAN /\ info \in BOOLEAN /\ dataOpen \in BOOLEAN
    BY DEF Init
  <2> QED  BY <1>1, <2>1, <2>2, <2>3 DEF TypeOK, StartInvariant
<1>4. \A k \in Kinds : cpc[k] = "idle" /\ taken[k] = 0
  BY <1>2
<1>5. \A k \in Kinds : At(k) = {} /\ Due(k) = 0
  <2> SUFFICES ASSUME NEW k \in Kinds PROVE At(k) = {} /\ Due(k) = 0
    OBVIOUS
  <2>1. At(k) = {}
    BY <1>2 DEF At
  <2>2. Due(k) = 0
    BY <1>4 DEF Due
  <2> QED  BY <2>1, <2>2
<1>6. LinesFaithful
  BY <1>2, <1>5 DEF LinesFaithful, InOrder, NoTickInvented, NoTickSkipped,
                    NoneMissing, InfoFirst
<1> QED
  BY <1>1, <1>2, <1>3, <1>4, <1>6
     DEF Init, Invariant, NothingBeforeRun, InfoBeforeCollectors, InfoWritten, LineHasTick

(* Every step keeps it.                                                    *)
LEMMA InvariantStep ==
  ASSUME Invariant, [Next]_vars
  PROVE  Invariant'
<1>1. StartInvariant /\ RunInvariant
  BY DEF Invariant, RunInvariant
<1>2. StartInvariant' /\ StartTypeOK'
  BY <1>1, StartPart, StartStep DEF StartInvariant
<1> SUFFICES RunInvariant'
  BY <1>2 DEF Invariant, RunInvariant
<1>3. UNCHANGED <<layout, startInfo>>
  BY DEF Next, vars
<1>4. CASE StartProcess
  BY <1>1, <1>2, <1>3, <1>4, FreshRun DEF StartProcess, RunInvariant
<1>5. CASE SetDataOut
  BY <1>1, <1>2, <1>3, <1>5, QuietStep DEF SetDataOut, OutputOpens
<1>6. CASE SystemInfo
  BY <1>1, <1>2, <1>3, <1>6, SystemInfoStep
<1>7. CASE CloseOut
  BY <1>1, <1>2, <1>3, <1>7, QuietStep DEF CloseOut, Collecting, startVars
<1>8. CASE (StartUpStep \/ OutputFails \/ Stop \/ Edit) /\ UNCHANGED runVars
  <2>1. UNCHANGED <<layout, startInfo, info, cpc, taken, lines>> /\ dataOpen' = dataOpen
    BY <1>3, <1>8 DEF runVars
  <2>2. \/ pc' = pc \/ pc' = "off"
        \/ pc \notin {"run", "off"} /\ pc' \notin {"run", "off"}
    BY <1>8 DEF StartUpStep, Load, LoadFails, LoadFatal, SaveFails, SaveTruncates,
                SaveWrites, SaveWriteFails, OutputFails, Stop, Edit
  <2> QED  BY <1>1, <1>2, <2>1, <2>2, QuietStep
<1>9. ASSUME NEW k \in Kinds, CollectorStep(k) PROVE RunInvariant'
  <2>1. CASE BeginNot(k) \/ Begin(k) \/ Fails(k) \/ Take(k)
    BY <1>1, <1>2, <1>3, <2>1, CollectorMoves
  <2>2. CASE BeginPanics(k)
    BY <1>1, <1>2, <1>3, <2>2, QuietStep DEF BeginPanics, Stop, runVars
  <2>3. CASE WriteLine(k)
    BY <1>1, <1>2, <1>3, <2>3, WriteLineStep
  <2> QED  BY <1>9, <2>1, <2>2, <2>3 DEF CollectorStep
<1>10. CASE UNCHANGED <<startVars, runVars>>
  BY <1>1, <1>2, <1>3, <1>10, QuietStep DEF startVars, runVars
<1> QED
  BY <1>4, <1>5, <1>6, <1>7, <1>8, <1>9, <1>10 DEF Next, vars

(* The periods, the file and the lines of the data file, for any number of *)
(* starts, edits, kinds and ticks.                                         *)
THEOREM InvariantHolds == Spec => []Invariant
<1>1. Init => Invariant
  BY InvariantInit
<1>2. Invariant /\ [Next]_vars => Invariant'
  BY InvariantStep
<1> QED  BY <1>1, <1>2, PTL DEF Spec

(* Type correctness of the start, the collectors and the data file.        *)
THEOREM TypesHold == Spec => []TypeOK
<1>1. Invariant => TypeOK
  BY DEF Invariant
<1> QED  BY InvariantHolds, <1>1, PTL

(* No program runs with periods that are part default and part file        *)
(* (Collect.Load, UseDefaults).                                            *)
THEOREM PeriodsAreWhole == Spec => []PeriodsWhole
<1>1. Invariant => PeriodsWhole
  BY DEF Invariant, StartInvariant
<1> QED  BY InvariantHolds, <1>1, PTL

(* Each tick of a local collector is one line, in order, after the system  *)
(* information and none missing before the signal (CPUUtilizationLocal and *)
(* its like, SystemInfoServerless, CloseOut).                              *)
THEOREM LinesAreFaithful == Spec => []LinesFaithful
<1>1. Invariant => LinesFaithful
  BY DEF Invariant
<1> QED  BY InvariantHolds, <1>1, PTL

(* A program that runs again without an edit uses the same periods, through*)
(* kills and failed saves (main, SaveJSON).                                *)
THEOREM PeriodsAreTheSame == Spec => SamePeriodsAgain
<1>1. Invariant => [OutputOpens /\ last # None => collect = last]_startVars
  BY SameAgainStep DEF Invariant
<1> QED  BY InvariantHolds, <1>1, PTL DEF SamePeriodsAgain

(* Only the operator changes a well-formed file the program has left (main,*)
(* SaveJSON).                                                              *)
THEOREM GoodFilesAreKept == Spec => WellFormedKept
<1>1. Invariant /\ [Next]_vars
        => [clean /\ file.is = "good" => file' = file \/ edits' # edits]_startVars
  BY KeptStep DEF Invariant
<1> QED  BY InvariantHolds, <1>1, PTL DEF Spec, WellFormedKept
=============================================================================
