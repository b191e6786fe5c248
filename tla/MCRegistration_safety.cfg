\* Two clients, two connections, no removal of the database.
SPECIFICATION Spec
CONSTANTS
  Clients = {c1, c2}
  Conns = {k1, k2}
  Ids = {i1, i2}
  Foreign = {f1}
  Confs = {p1, p2}
  None = None
  ConnectTries = 1
  ReconnectTries = 2
  MaxWipes = 0
SYMMETRY Symmetry
INVARIANTS
  TypeOK
  UniqueIdentity
  DurableIdentity
  InventoryCoherent
  OwnConfiguration
  Invariant
  HandshakeInStep
PROPERTIES
  StableIdentity
  ImplementsIdentity
