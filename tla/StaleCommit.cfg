\* One failed watermark sync is enough for a stale commit.
SPECIFICATION FairSpec
CONSTANTS
  f1 = f1
  f2 = f2
  Files = {f1}
  MaxPos = 3
  MaxInode = 1
  MaxCaptures = 4
  Noise = {}
  PriorInstall <- OnePrior
  CaptureBytes = 2
  RetriableBreak = 2
  DrainCap = 2
  SoftPause = 4
  SoftResume = 3
  Kinds = {"sync"}
  MaxMishaps = 1
  Stuck = {}
PROPERTY CommitCoversAdvance
