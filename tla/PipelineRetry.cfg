SPECIFICATION FairSpec
CONSTANTS
  f1 = f1
  f2 = f2
  Files = {f1}
  MaxPos = 3
  MaxInode = 2
  MaxCaptures = 4
  Noise = {1}
  PriorInstall <- NoPrior
  CaptureBytes = 2
  RetriableBreak = 2
  DrainCap = 3
  SoftPause = 4
  SoftResume = 3
  Kinds = {"crash","lost_reply","lost_request","unavailable","invalid","worker","unreadable","excluded","rotation","collect","unauthorized","setup"}
  MaxMishaps = 2
  Stuck = {1}
PROPERTIES PendingSettles BufferFullClears
