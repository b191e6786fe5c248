\* The Client of a known id has no logger.
SPECIFICATION Spec
CONSTANTS
  Sessions = {s1, s2}
  Outputs = {"file"}
  Layouts = {"constant"}
  Kinds = {"stat", "net"}
  PointsCap = 1
  Periods = {0, 1}
  Several = 0
  MaxData = 1
  MaxQueue = 1
INVARIANTS
  LoggerForFile
