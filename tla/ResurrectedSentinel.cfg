SPECIFICATION FairSpec
CONSTANTS
  Loops = {"drain"}
  DrainLoop = "drain"
  Keys = {k1}
  FirstKey = k1
  MaxRetries = 1
  MaxCrashes = 3
  Kinds = {"revoke", "restore", "setup"}
  MaxMishaps = 3
PROPERTIES SetupResumes
