\* A message that passed the check while the client was connected.
SPECIFICATION Spec
CONSTANTS
  Collectors = {cpu, mem}
  BufCap = 1
  ReconnectTries = 2
  MaxMsgs = 1
  MaxDials = 2
  MaxRequests = 1
INVARIANT
  SendsOnlyConnected
