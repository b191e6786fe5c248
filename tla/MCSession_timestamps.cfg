\* Lines of the data file with the default -tslayout.
SPECIFICATION Spec
CONSTANTS
  Sessions = {s1, s2}
  Outputs = {"file"}
  Layouts = {"epoch"}
  Kinds = {"cpu", "stat", "net"}
  PointsCap = 1
  Periods = {0, 1}
  Several = 0
  MaxData = 2
  MaxQueue = 1
INVARIANTS
  LinesDated
