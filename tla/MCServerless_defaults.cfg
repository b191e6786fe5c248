\* The defaults stand for a file with an error too.
SPECIFICATION Spec
CONSTANTS
  Kinds = {healthbeat, netusage}
  healthbeat = healthbeat
  netusage = netusage
  None = None
  Given <- SomePeriods
  Default = 1
  Programs = {"autofact", "autofactory"}
  MaxStarts = 2
  MaxEdits = 2
  Layouts = {"epoch", "RFC3339Nano"}
  MaxTicks = 2
PROPERTY
  DefaultsIfAbsent
