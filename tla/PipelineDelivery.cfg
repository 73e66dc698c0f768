SPECIFICATION MCSpec
CONSTANTS
  f1 = f1
  f2 = f2
  Files = {f1,f2}
  MaxPos = 2
  MaxInode = 2
  MaxCaptures = 5
  Noise = {}
  PriorInstall <- OnePrior
  CaptureBytes = 2
  RetriableBreak = 2
  DrainCap = 3
  SoftPause = 2
  SoftResume = 1
  Kinds = {"crash","lost_reply","invalid","worker","unreadable","excluded","retention","setup"}
  MaxMishaps = 1
  Stuck = {}
  BatchRate = 1
  RateWindow = 2
  ByteRate = 2
  ByteWindow = 3
  Payloads = {0, 1, 3}
  RetryAfters = {1, 3}
  Multiplier = 2
  MaxBackoff = 3
  FirstDelay = 1
  LongestDelay = 2
  MaxSteps = 2
  SetBacks = 1
  SetBack = 2
INVARIANTS TypesOK NoLoss UploadInOrder PaceHeld
PROPERTIES LinesSettle RetryAfterHonoured AcquireEnds
