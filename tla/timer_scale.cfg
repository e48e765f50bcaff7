SPECIFICATION HSpec
CONSTANTS
  NI = 1  NQ = 1  NM = 0  NT = 1  NS = 0
  BYTESIZE = 4
  Modulus = 2
  RO = {}  DOWN = {}  ONDELAY = {}
  P <- TwoCycles  S <- TwoCycles  BlinkS <- NoTable
  Images = {{}, {1}}
  Values = {0}
  StoreImages = {}
  ProgQ = {}
  ForceIn = {}  ForceOut = {}
  MaxOps = 0
PROPERTY TimerKeepsScale
