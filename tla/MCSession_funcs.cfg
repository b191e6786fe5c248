\* NetUsage goes to the file with InfluxDB as the output.
SPECIFICATION Spec
CONSTANTS
  Sessions = {s1, s2}
  Outputs = {"influxdb"}
  Layouts = {"constant"}
  Kinds = {"stat", "net", "ignored"}
  PointsCap = 1
  Periods = {0, 1}
  Several = 0
  MaxData = 1
  MaxQueue = 1
INVARIANTS
  FuncsMatchOutput
