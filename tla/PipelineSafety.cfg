SPECIFICATION MCSpec
CONSTANTS
  f1 = f1
  f2 = f2
  Files = {f1}
  MaxPos = 3
  MaxInode = 2
  MaxCaptures = 4
  Noise = {2}
  PriorInstall <- OnePrior
  CaptureBytes = 2
  RetriableBreak = 2
  DrainCap = 3
  SoftPause = 2
  SoftResume = 1
  Kinds = {"crash", "rotation", "sync", "worker", "collect", "excluded", "lost_request", "lost_reply", "unavailable", "invalid", "unreadable", "unauthorized", "sentinel", "retention", "setup"}
  MaxMishaps = 2
  Stuck = {}
  MaxTroubles = 2
INVARIANTS TypesOK Accounted LooksAreTrue
PROPERTIES LifecycleSpec HelpArrives
