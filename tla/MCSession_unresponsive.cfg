\* Nobody looks at the answers to the health requests.
SPECIFICATION FairSpec
CONSTANTS
  Sessions = {s1}
  Outputs = {"influxdb"}
  Layouts = {"constant"}
  Kinds = {"stat", "net", "ignored"}
  PointsCap = 1
  Periods = {0, 1}
  Several = 2
  MaxData = 1
  MaxQueue = 1
PROPERTIES
  UnresponsiveClosed
