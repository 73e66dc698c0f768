SPECIFICATION MCSpec
CONSTANTS
  Loops = {"capture", "drain"}
  DrainLoop = "drain"
  Keys = {k1, k2}
  FirstKey = k1
  MaxRetries = 2
  MaxCrashes = 2
  Kinds = {"revoke", "restore", "setup", "verify_error", "gate_throws", "kill", "sigterm"}
  MaxMishaps = 2
  WorkerSources = {"codex"}
  DirectSources = {"gemini"}
  MaxWritten = 2
  MaxOrphans = 1
  MaxThrown = 1
  SoftPause = 2
  SoftResume = 1
  Sentinels = {"auth-failed", "update-available"}
  Payloads = {"first", "second"}
  MaxChanged = 2
INVARIANTS
  DaemonTypeOK
  OneCycle
  CapturedOnce
  RegistryMirrors
  ShadowsFollow
PROPERTIES
  ShutdownCompletes
  PauseEnds
  PressureHolds
  SourcesServed
CHECK_DEADLOCK FALSE
