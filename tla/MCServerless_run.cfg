\* Two kinds, two starts, two edits, two ticks.
SPECIFICATION Spec
CONSTANTS
  Kinds = {healthbeat, netusage}
  healthbeat = healthbeat
  netusage = netusage
  None = None
  Given <- SomePeriods
  Default = 1
  Programs = {"autofact", "autofactory"}
  MaxStarts = 2
  MaxEdits = 2
  Layouts = {"epoch", "RFC3339Nano"}
  MaxTicks = 2
SYMMETRY Symmetry
INVARIANTS
  TypeOK
  PeriodsWhole
  LinesFaithful
  Invariant
PROPERTIES
  SamePeriodsAgain
  WellFormedKept
