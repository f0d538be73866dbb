SPECIFICATION Spec
CONSTANTS
  CR = CR
  LF = LF
  SP = SP
  NUL = NUL
  RequestLine = RequestLine
  ua = ua
  gz = gz
  gd = gd
  br = br
  host = host
  word = word
  Uninit = Uninit
  None = None
  Offers <- MCOffers
  AgentLen <- MCAgentLen
  Requests <- MCRequests
  BufSize = 15
  TokenLimit = 3
  TextLen = 2
  ZipLen = 5
  FileLen = 3
INVARIANTS
  EncodingTrue
CHECK_DEADLOCK FALSE
