SPECIFICATION FairSpec
CONSTANTS
  NI = 2  NQ = 1  NM = 0  NT = 2  NS = 1
  BYTESIZE = 4
  Modulus = 2
  RO = {}  DOWN = {}  ONDELAY = {0}
  P <- TwoPresets  S <- TwoScales  BlinkS <- OneBlink
  Images <- TaskImages
  Values = {0}
  StoreImages = {}
  ProgQ = {}
  ForceIn = {1}  ForceOut = {}
  MaxOps = 1
INVARIANTS TimerHonest
PROPERTIES TimerElapses BlinkerToggles
