SPECIFICATION FairSpec
CONSTANTS
  Loops = {"drain"}
  DrainLoop = "drain"
  Keys = {k1, k2}
  FirstKey = k1
  MaxRetries = 1
  MaxCrashes = 3
  Kinds = {"revoke", "setup"}
  MaxMishaps = 2
PROPERTIES SetupResumes
