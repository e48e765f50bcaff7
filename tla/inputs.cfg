SPECIFICATION Spec
CONSTANTS
  NI = 2  NQ = 2  NM = 0  NT = 0  NS = 0
  BYTESIZE = 4
  Modulus = 2
  RO = {}  DOWN = {}  ONDELAY = {}
  P <- NoTable  S <- NoTable  BlinkS <- NoTable
  Images <- IoImages
  Values = {0}
  StoreImages <- IoStores
  ProgQ = {0}
  ForceIn = {0}  ForceOut = {0}
  MaxOps = 1
PROPERTY InputsFollowBuffer
