----------------------------- MODULE Serverless -----------------------------
(***************************************************************************)
(* autofact -serverless (cmd/autofact/main.go, client.go): when the start  *)
(* is over the system information is written to the data file, then one    *)
(* goroutine per kind of data writes a line at each tick, until a signal   *)
(* closes the file and ends the process.  autofactory starts the same way; *)
(* what it does then is Registration and Session.                          *)
(***************************************************************************)
EXTENDS StartUp, Sequences

CONSTANTS
  Layouts,  \* values of -tslayout: "epoch"; "constant" for a name that
            \* TimeLayout knows; "RFC3339Nano", also for a layout of
            \* the user's own that means something else in capitals
  MaxTicks  \* bound: ticks of one collector in one run

ASSUME ServerlessAssumption ==
  /\ Layouts \subseteq {"epoch", "constant", "RFC3339Nano"} /\ MaxTicks \in Nat
  /\ "systeminfo" \notin Kinds

VARIABLES
  layout,     \* tsLayout
  startInfo,  \* the flag -startinfo
  info,       \* the system information has been dealt with
  cpc,        \* cpc[k]: where collector k is
  taken,      \* taken[k]: ticks that collector k has received
  dataOpen,   \* the data file is open
  lines       \* what this run has written to it

runVars == <<info, cpc, taken, dataOpen, lines>>
vars == <<startVars, layout, startInfo, runVars>>

Info == [kind |-> "systeminfo"]
Lines == {Info} \cup
  [kind : Kinds, n : 1..MaxTicks, ts : {"nanoseconds", "time", "text"}]

TypeOK ==
  /\ StartTypeOK
  /\ layout \in Layouts /\ startInfo \in BOOLEAN
  /\ info \in BOOLEAN
  /\ cpc \in [Kinds -> {"idle", "loop", "line", "ended"}]
  /\ taken \in [Kinds -> 0..MaxTicks]
  /\ dataOpen \in BOOLEAN
  /\ lines \in Seq(Lines)

Init ==
  /\ StartInit
  /\ layout \in Layouts /\ startInfo \in BOOLEAN
  /\ info = FALSE
  /\ cpc = [k \in Kinds |-> "idle"] /\ taken = [k \in Kinds |-> 0]
  /\ dataOpen = FALSE /\ lines = <<>>

-----------------------------------------------------------------------------

(* Each start has its own goroutines; the lines of earlier runs stay in    *)
(* the file and out of this model.                                         *)
StartProcess ==
  /\ Start
  /\ info' = FALSE
  /\ cpc' = [k \in Kinds |-> "idle"] /\ taken' = [k \in Kinds |-> 0]
  /\ dataOpen' = FALSE /\ lines' = <<>>

SetDataOut ==
  /\ OutputOpens
  /\ dataOpen' = TRUE
  /\ UNCHANGED <<info, cpc, taken, lines>>

Collecting == pc = "run" /\ program = "autofact"

Write(line) == lines' = IF dataOpen THEN Append(lines, line) ELSE lines

(* SystemInfoServerless writes its data or its error. *)
SystemInfo ==
  /\ Collecting /\ ~info
  /\ IF startInfo THEN Write(Info) ELSE lines' = lines
  /\ info' = TRUE
  /\ UNCHANGED <<startVars, cpc, taken, dataOpen>>

To(k, where) == cpc' = [cpc EXCEPT ![k] = where]

(* A period of zero: the kind is not collected. *)
BeginNot(k) ==
  /\ Collecting /\ info /\ cpc[k] = "idle"
  /\ collect[k] = 0
  /\ To(k, "ended")
  /\ UNCHANGED <<startVars, info, taken, dataOpen, lines>>

Begin(k) ==
  /\ Collecting /\ info /\ cpc[k] = "idle"
  /\ collect[k] > 0
  /\ To(k, "loop")
  /\ UNCHANGED <<startVars, info, taken, dataOpen, lines>>

(* No ticker takes a negative period: the panic ends the process. *)
BeginPanics(k) ==
  /\ Collecting /\ info /\ cpc[k] = "idle"
  /\ collect[k] < 0
  /\ Stop
  /\ UNCHANGED runVars

(* NewTicker or LoadAvg returns an error, or the ticker closes its         *)
(* channel.  No other goroutine hears of it: doneCh stays open.            *)
Fails(k) ==
  /\ Collecting /\ info /\ cpc[k] = "loop"
  /\ To(k, "ended")
  /\ UNCHANGED <<startVars, info, taken, dataOpen, lines>>

Take(k) ==
  /\ Collecting /\ info /\ cpc[k] = "loop" /\ taken[k] < MaxTicks
  /\ taken' = [taken EXCEPT ![k] = @ + 1]
  /\ To(k, "line")
  /\ UNCHANGED <<startVars, info, dataOpen, lines>>

(* TimeLayout compares and returns the upper-cased name: it never finds    *)
(* RFC3339Nano, and what it returns for that is no layout of a time.       *)
UseTS == layout = "epoch"

FormattedTime == IF layout = "constant" THEN "time" ELSE "text"

LineNext(k, ts) == [kind |-> k, n |-> taken[k] + 1, ts |-> ts]  \* mutant

Line(k, ts) == [kind |-> k, n |-> taken[k], ts |-> ts]

WriteLineTwice(k) ==  \* mutant: the continue is forgotten
  /\ Collecting /\ cpc[k] = "line"
  /\ lines' = (IF UseTS THEN Append(lines, Line(k, "nanoseconds")) ELSE lines)
                \o <<Line(k, FormattedTime)>>
  /\ To(k, "loop")
  /\ UNCHANGED <<startVars, info, taken, dataOpen>>

(* A line to a closed file is lost without an error. *)
WriteLine(k) ==
  /\ Collecting /\ cpc[k] = "line"
  /\ Write(Line(k, IF UseTS THEN "nanoseconds" ELSE FormattedTime))
  /\ To(k, "loop")
  /\ UNCHANGED <<startVars, info, taken, dataOpen>>

(* handleSignals: CloseOut, then os.Exit; the collectors run on meanwhile. *)
CloseOut ==
  /\ Collecting /\ dataOpen
  /\ dataOpen' = FALSE
  /\ UNCHANGED <<startVars, info, cpc, taken, lines>>

-----------------------------------------------------------------------------

CollectorStep(k) ==
  \/ BeginNot(k) \/ Begin(k) \/ BeginPanics(k)
  \/ Fails(k) \/ Take(k) \/ WriteLine(k)

Next ==
  /\ UNCHANGED <<layout, startInfo>>
  /\ \/ StartProcess \/ SetDataOut \/ SystemInfo \/ CloseOut
     \/ (StartUpStep \/ OutputFails \/ Stop \/ Edit) /\ UNCHANGED runVars
     \/ \E k \in Kinds : CollectorStep(k)
     \/ pc = "off" /\ UNCHANGED <<startVars, runVars>>

Spec == Init /\ [][Next]_vars

-----------------------------------------------------------------------------
(* What the data file promises. *)

At(k) == {i \in DOMAIN lines : lines[i].kind = k}

(* Ticks of k that a line is due for. *)
Due(k) == taken[k] - (IF cpc[k] = "line" THEN 1 ELSE 0)

InOrder(k) == \A i, j \in At(k) : i < j => lines[i].n < lines[j].n

NoTickInvented(k) == \A i \in At(k) : lines[i].n <= Due(k)

NoTickSkipped(k) ==
  \A i \in At(k) : \A n \in 1..lines[i].n : \E j \in At(k) : lines[j].n = n

NoneMissing(k) ==
  dataOpen => \A n \in 1..Due(k) : \E i \in At(k) : lines[i].n = n

InfoFirst == \A i \in DOMAIN lines : i = 1 /\ startInfo <=> lines[i] = Info

(* The lines of a kind are its ticks, one each and in order, whatever the  *)
(* other collectors write; none is missing but after the signal; and the   *)
(* system information comes before them all (CPUUtilizationLocal and its   *)
(* like, SystemInfoServerless, CloseOut).                                  *)
LinesFaithful ==
  /\ \A k \in Kinds :
       InOrder(k) /\ NoTickInvented(k) /\ NoTickSkipped(k) /\ NoneMissing(k)
  /\ InfoFirst

(* Why it holds. *)

NothingBeforeRun ==
  pc \notin {"run", "off"} =>
    /\ ~info /\ ~dataOpen
    /\ \A k \in Kinds : cpc[k] = "idle" /\ taken[k] = 0

InfoBeforeCollectors ==
  ~info => lines = <<>> /\ \A k \in Kinds : cpc[k] = "idle" /\ taken[k] = 0

InfoWritten == info /\ startInfo /\ dataOpen => lines # <<>>

LineHasTick == \A k \in Kinds : cpc[k] = "line" => taken[k] > 0

(* Every reachable state satisfies it, and every step keeps it, from the   *)
(* read of the periods to the last line (main, Collect.Load, the local     *)
(* collectors).                                                            *)
Invariant ==
  /\ StartInvariant /\ TypeOK
  /\ NothingBeforeRun /\ InfoBeforeCollectors /\ InfoWritten /\ LineHasTick
  /\ LinesFaithful

-----------------------------------------------------------------------------
(* What a comment says and the code does not do. *)

(* A name of time.Constants stands for its layout, so that every line      *)
(* tells the time of its tick (util/util.go:154-155, cmd/autofact/main.go: *)
(* 68; RFC3339Nano is upper-cased, is not found, and is then taken for a   *)
(* layout itself).                                                         *)
LinesDated == \A k \in Kinds : \A i \in At(k) : lines[i].ts # "text"
=============================================================================
