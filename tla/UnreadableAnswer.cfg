\* One unreadable answer.
SPECIFICATION Spec
CONSTANTS
  f1 = f1
  f2 = f2
  Files = {f1}
  MaxPos = 2
  MaxInode = 1
  MaxCaptures = 4
  Noise = {}
  PriorInstall <- NoPrior
  CaptureBytes = 2
  RetriableBreak = 2
  DrainCap = 2
  SoftPause = 4
  SoftResume = 3
  Kinds = {"unreadable"}
  MaxMishaps = 1
  Stuck = {}
INVARIANT FailedMeansRefused
