\* Two sessions of one client at the output.
SPECIFICATION Spec
CONSTANTS
  Collectors = {cpu}
  BufCap = 1
  ReconnectTries = 2
  MaxMsgs = 2
  MaxDials = 2
  Outputs = {"file", "influxdb"}
  PointsCap = 1
INVARIANT
  StoredInOrder
