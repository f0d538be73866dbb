SPECIFICATION Spec
CONSTANTS
  c1 = c1
  c2 = c2
  c3 = c3
  Conns <- TwoConns
  Backlog = 1
  MaxProcs = 2
  Parent = Parent
  Listener = Listener
  NoConn = NoConn
PROPERTIES
  DroppedOnlyWhenBusy
CHECK_DEADLOCK FALSE
