\* The loadavg data is sent a second time as text.
SPECIFICATION Spec
CONSTANTS
  Collectors = {cpu, mem}
  BufCap = 1
  ReconnectTries = 2
  MaxMsgs = 1
  MaxDials = 2
  MaxRequests = 1
INVARIANT
  NoTextExpected
