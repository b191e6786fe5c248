\* Two sessions share a channel of two, or the data file.
SPECIFICATION Spec
CONSTANTS
  Sessions = {s1, s2}
  Outputs = {"file", "influxdb"}
  Layouts = {"constant"}
  Kinds = {"stat", "ignored"}
  PointsCap = 2
  Periods <- SomePeriods
  Several = 0
  MaxData = 2
  MaxQueue = 2
SYMMETRY Symmetry
INVARIANTS
  TypeOK
  Accounted
  Invariant
