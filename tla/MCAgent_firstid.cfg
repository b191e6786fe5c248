\* A data frame gets onto a new connection before the id.
SPECIFICATION Spec
CONSTANTS
  Collectors = {cpu, mem}
  BufCap = 1
  ReconnectTries = 2
  MaxMsgs = 1
  MaxDials = 2
  MaxRequests = 1
INVARIANT
  FirstMessageIsId
