\* A line whose -tslayout is the name RFC3339Nano does not tell the time.
SPECIFICATION Spec
CONSTANTS
  Kinds = {healthbeat, netusage}
  healthbeat = healthbeat
  netusage = netusage
  None = None
  Given <- SomePeriods
  Default = 1
  Programs = {"autofact"}
  MaxStarts = 1
  MaxEdits = 0
  Layouts = {"epoch", "constant", "RFC3339Nano"}
  MaxTicks = 1
INVARIANT
  LinesDated
