\* One collector, two messages, two connections, channels of one.
SPECIFICATION Spec
CONSTANTS
  Collectors = {cpu}
  BufCap = 1
  ReconnectTries = 1
  MaxMsgs = 2
  MaxDials = 2
  Outputs = {"file", "influxdb"}
  PointsCap = 1
INVARIANTS
  TypeOK
  OnePlace
  NothingMissing
  Invariant
PROPERTIES
  ClientIsAgent
  ServerIsSession
