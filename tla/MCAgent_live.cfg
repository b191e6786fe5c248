\* Fair goroutines, one collector, a channel of one.
SPECIFICATION FairSpec
CONSTANTS
  Collectors = {cpu}
  BufCap = 1
  ReconnectTries = 2
  MaxMsgs = 3
  MaxDials = 2
  MaxRequests = 0
PROPERTIES
  DataArrives
  CollectorsRun
  ReconnectsOrEnds
  ImplementsPipe
