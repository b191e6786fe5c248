\* An id taken by Reconnect is not saved.
SPECIFICATION Spec
CONSTANTS
  Clients = {c1}
  Conns = {k1, k2}
  Ids = {i1, i2}
  Foreign = {}
  Confs = {p1}
  None = None
  ConnectTries = 2
  ReconnectTries = 2
  MaxWipes = 1
PROPERTY
  ReconnectPersistsId
