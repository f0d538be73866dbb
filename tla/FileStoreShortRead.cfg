SPECIFICATION Spec
CONSTANTS
  p1 = p1
  p2 = p2
  g1 = g1
  Posts <- MCPosts
  Gets <- MCGets
  Length <- MCLength
  Old = Old
  NoFile = NoFile
  Junk = Junk
  Nuls <- MCNuls
  Unknown = Unknown
INVARIANTS
  ShortReadIsAnError
CHECK_DEADLOCK FALSE
