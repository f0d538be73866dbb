SPECIFICATION Spec
CONSTANTS
  c1 = c1
  c2 = c2
  c3 = c3
  Conns <- ThreeConns
  Backlog = 1
  MaxProcs = 3
  Parent = Parent
  Listener = Listener
  NoConn = NoConn
INVARIANTS
  TypeOK
  OwnConnectionOnly
  EofAfterService
  PortReleased
  ParentHoldsOne
PROPERTIES
  Implements
  Released
  Served
  ExitsWithNextClient
CHECK_DEADLOCK FALSE
