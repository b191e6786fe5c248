\* A crash in Conn.Save makes a known client a newcomer.
SPECIFICATION FairSpec
CONSTANTS
  Clients = {c1}
  Conns = {k1, k2}
  Ids = {i1, i2}
  Foreign = {f1}
  Confs = {p1}
  None = None
  ConnectTries = 2
  ReconnectTries = 2
  MaxWipes = 0
PROPERTY
  SendsItsId
