------------------------------- MODULE StartUp -------------------------------
(***************************************************************************)
(* How the programs get their collection periods (conf/conf.go: Collect;   *)
(* cmd/autofact/main.go, cmd/autofactory/main.go): autofact -serverless    *)
(* and autofactory load a file, fall back to defaults and save those, open *)
(* their output and run.  They are started, killed and started again, and  *)
(* an operator edits the file.                                             *)
(***************************************************************************)
EXTENDS Integers

CONSTANTS
  Kinds,      \* the kinds of data that have a period
  Given,      \* periods an operator writes; 0 stands for a missing field too
  Default,    \* the default period (code: one for the healthbeat, one for
              \* the others)
  Programs,   \* "autofact" (with -serverless), "autofactory"
  None,       \* no periods
  MaxStarts,  \* bound: starts of the program
  MaxEdits    \* bound: edits of the file

ASSUME StartUpAssumption ==
  /\ Default \in Nat \ {0} /\ Given \subseteq Int /\ 0 \in Given
  /\ Programs \subseteq {"autofact", "autofactory"}
  /\ MaxStarts \in Nat /\ MaxEdits \in Nat

VARIABLES
  program,  \* which of the two it is
  file,     \* autocollect.json or autoclient.json
  collect,  \* c.Collect or srvr.Collect
  pc,       \* where main is
  starts,   \* starts so far
  edits,    \* edits so far
  seen,     \* the periods of every well-formed content the file has had
  clean,    \* the file has not been edited since the program started
  last      \* the periods the program last ran with, None after an edit

history == <<seen, clean, last>>
startVars == <<program, file, collect, pc, starts, edits, history>>

Periods == [Kinds -> Given \cup {Default}]
Zero == [k \in Kinds |-> 0]
AllDefault == [k \in Kinds |-> Default]

(* What a file may hold.  Unmarshal stops at the first error: what stood   *)
(* before it has been set.                                                 *)
Absent == [is |-> "absent"]
Unreadable == [is |-> "unreadable"]
Good(p) == [is |-> "good", periods |-> p]
Broken(p) == [is |-> "broken", periods |-> p]

(* Not even the beginning of a value. *)
Truncated == Broken(Zero)

Contents ==
  {Absent, Unreadable} \cup {Good(p) : p \in Periods} \cup {Broken(p) : p \in Periods}

StartTypeOK ==
  /\ program \in Programs
  /\ file \in Contents
  /\ collect \in Periods
  /\ pc \in {"off", "load", "save", "write", "output", "run"}
  /\ starts \in 0..MaxStarts /\ edits \in 0..MaxEdits
  /\ seen \subseteq Periods
  /\ clean \in BOOLEAN
  /\ last \in Periods \cup {None}

StartInit ==
  /\ program \in Programs
  /\ file = Absent
  /\ collect = Zero
  /\ pc = "off" /\ starts = 0 /\ edits = 0
  /\ seen = {} /\ clean = TRUE /\ last = None

-----------------------------------------------------------------------------

Start ==
  /\ pc = "off" /\ starts < MaxStarts
  /\ starts' = starts + 1
  /\ pc' = "load"
  /\ collect' = Zero
  /\ clean' = TRUE
  /\ UNCHANGED <<program, file, edits, seen, last>>

(* Mutant: the file is written anew although it is well-formed. *)
LoadRewrites ==
  /\ pc = "load" /\ file.is = "good"
  /\ collect' = file.periods
  /\ pc' = "save"
  /\ UNCHANGED <<program, file, starts, edits, history>>

Load ==
  /\ pc = "load" /\ file.is = "good"
  /\ collect' = file.periods
  /\ pc' = "output"
  /\ UNCHANGED <<program, file, starts, edits, history>>

(* What Load leaves in Collect with its error. *)
HalfLoaded == IF file.is = "broken" THEN file.periods ELSE collect

(* Mutant: only what is not set yet. *)
UseDefaultsIfUnset(c) == [k \in Kinds |-> IF c[k] = 0 THEN Default ELSE c[k]]

UseDefaults(c) == [k \in DOMAIN c |-> Default]

(* The client takes the defaults on any error of Load, the server if there *)
(* is no file.                                                             *)
LoadFails ==
  /\ pc = "load" /\ file.is # "good"
  /\ program = "autofact" \/ file = Absent
  /\ collect' = UseDefaults(HalfLoaded)
  /\ pc' = "save"
  /\ UNCHANGED <<program, file, starts, edits, history>>

(* Any other error is fatal for the server. *)
LoadFatal ==
  /\ pc = "load" /\ program = "autofactory"
  /\ file.is \in {"unreadable", "broken"}
  /\ pc' = "off"
  /\ UNCHANGED <<program, file, collect, starts, edits, history>>

(* SaveJSON: WriteFile does not get the file open, or what it writes       *)
(* cannot be read again.                                                   *)
SaveFails ==
  /\ pc = "save"
  /\ pc' = "output"
  /\ UNCHANGED <<program, file, collect, starts, edits, history>>

SaveTruncates ==
  /\ pc = "save" /\ file # Unreadable
  /\ file' = Truncated
  /\ pc' = "write"
  /\ UNCHANGED <<program, collect, starts, edits, history>>

(* Mutant: saved before the defaults are set. *)
SavedZero == Zero

(* MarshalIndent writes each period as the string UnmarshalJSON reads.     *)
Saved == collect

SaveWrites ==
  /\ pc = "write"
  /\ file' = Good(Saved)
  /\ seen' = seen \cup {Saved}
  /\ pc' = "output"
  /\ UNCHANGED <<program, collect, starts, edits, clean, last>>

(* The error is logged; what is in the file is no JSON. *)
SaveWriteFails ==
  /\ pc = "write"
  /\ pc' = "output"
  /\ UNCHANGED <<program, file, collect, starts, edits, history>>

(* The database, the data file or InfluxDB cannot be opened, or the data   *)
(* destination is unsupported.                                             *)
OutputFails ==
  /\ pc = "output"
  /\ pc' = "off"
  /\ UNCHANGED <<program, file, collect, starts, edits, history>>

OutputOpens ==
  /\ pc = "output"
  /\ pc' = "run"
  /\ last' = IF clean THEN collect ELSE None
  /\ UNCHANGED <<program, file, collect, starts, edits, seen, clean>>

(* A signal, a kill or a failure of the machine. *)
Stop ==
  /\ pc # "off"
  /\ pc' = "off"
  /\ UNCHANGED <<program, file, collect, starts, edits, history>>

(* Not while WriteFile has the file open. *)
Edit ==
  /\ edits < MaxEdits /\ pc # "write"
  /\ \/ file' \in {Absent, Unreadable} /\ seen' = seen
     \/ \E p \in [Kinds -> Given] :
          \/ file' = Good(p) /\ seen' = seen \cup {p}
          \/ (\E k \in Kinds : p[k] = 0) /\ file' = Broken(p) /\ seen' = seen
  /\ edits' = edits + 1
  /\ clean' = FALSE /\ last' = None
  /\ UNCHANGED <<program, collect, pc, starts>>

StartUpStep ==
  \/ Load \/ LoadFails \/ LoadFatal
  \/ SaveFails \/ SaveTruncates \/ SaveWrites \/ SaveWriteFails

-----------------------------------------------------------------------------
(* What the start promises. *)

(* A program never runs with periods that are part default and part file:  *)
(* they are all defaults, or all from one well-formed content, although    *)
(* Load leaves behind what it read before an error (Collect.Load,          *)
(* UseDefaults).                                                           *)
PeriodsWhole ==
  pc \in {"output", "run"} => collect = AllDefault \/ collect \in seen

(* A program that runs again without an edit of its file in between uses   *)
(* the same periods, through kills at every step, failed saves and outputs *)
(* that could not be opened (main, SaveJSON).                              *)
SamePeriodsAgain ==
  [][OutputOpens /\ last # None => collect = last]_startVars

(* A start changes a well-formed file only if the operator wrote it        *)
(* meanwhile: no kill and no failed write costs the operator's periods     *)
(* (main, SaveJSON).                                                       *)
WellFormedKept ==
  [][clean /\ file.is = "good" => file' = file \/ edits' # edits]_startVars

(* Why they hold.  A file that the program itself has left, and nobody     *)
(* else has touched, is what it would run with.                            *)
WouldRunWith(p) == IF file.is = "good" THEN p = file.periods ELSE p = AllDefault

GoodFilesSeen == file.is = "good" => file.periods \in seen

DefaultsSaved == pc \in {"save", "write"} => collect = AllDefault

RewritesNoGoodFile ==
  /\ pc = "write" => file.is # "good"
  /\ pc = "save" /\ clean => file.is # "good"

FileTellsPeriods ==
  /\ clean /\ pc \in {"output", "run"} => WouldRunWith(collect)
  /\ last # None => clean /\ WouldRunWith(last)

StartInvariant ==
  /\ StartTypeOK /\ PeriodsWhole
  /\ GoodFilesSeen /\ DefaultsSaved /\ RewritesNoGoodFile /\ FileTellsPeriods

-----------------------------------------------------------------------------
(* What a reader may expect and the code does not do. *)

(* A server that has run starts again as long as nobody touches its file:  *)
(* "a save error isn't fatal" (cmd/autofactory/main.go:154), but the file  *)
(* it leaves is at the next start.                                         *)
StartsAgain == [][LoadFatal => last = None]_startVars

(* The client takes the defaults when the file cannot be found             *)
(* (conf/conf.go:142-143), not when it has an error in it.                 *)
DefaultsIfAbsent == [][LoadFails => file = Absent]_startVars
=============================================================================
