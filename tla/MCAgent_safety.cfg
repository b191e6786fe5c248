\* Two collectors, a channel of two, two connections.
SPECIFICATION Spec
CONSTANTS
  Collectors = {cpu, mem}
  BufCap = 2
  ReconnectTries = 1
  MaxMsgs = 2
  MaxDials = 2
  MaxRequests = 1
SYMMETRY Symmetry
INVARIANTS
  TypeOK
  OrderKept
  RepliesMatchRequests
  Invariant
