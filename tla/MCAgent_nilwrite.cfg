\* A message written to the nil connection of a failed dial.
SPECIFICATION Spec
CONSTANTS
  Collectors = {cpu, mem}
  BufCap = 1
  ReconnectTries = 2
  MaxMsgs = 1
  MaxDials = 2
  MaxRequests = 1
INVARIANT
  WritesToConnection
