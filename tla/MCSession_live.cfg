\* Fair goroutines, two sessions with data, a channel of one.
SPECIFICATION FairSpec
CONSTANTS
  Sessions = {s1, s2}
  Outputs = {"influxdb"}
  Layouts = {"constant"}
  Kinds = {"stat"}
  PointsCap = 1
  Periods = {0, 1}
  Several = 0
  MaxData = 2
  MaxQueue = 1
PROPERTIES
  SessionEnds
  DataSettles
  ImplementsPipe
