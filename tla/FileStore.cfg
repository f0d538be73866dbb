SPECIFICATION Spec
CONSTANTS
  p1 = p1
  p2 = p2
  g1 = g1
  Posts <- MCPosts
  Gets <- MCGets
  Length <- MCLength
  Old = Old
  NoFile = NoFile
  Junk = Junk
  Nuls <- MCNuls
  Unknown = Unknown
INVARIANTS
  TypeOK
  AckedStored
  MixtureNeedsOverlap
  BytesInPlace
  GetExact
  GetMixesWhoMet
PROPERTIES
  Implements
CHECK_DEADLOCK FALSE
