\* Fair goroutines, one message, two connections, channels of one.
SPECIFICATION FairSpec
CONSTANTS
  Collectors = {cpu}
  BufCap = 1
  ReconnectTries = 2
  MaxMsgs = 1
  MaxDials = 2
  Outputs = {"file", "influxdb"}
  PointsCap = 1
PROPERTIES
  CollectedIsStored
  ClientRecovers
  NoSessionStays
