SPECIFICATION MCSpec
CONSTANTS
  Platforms = {"launchd", "systemd", "schtasks"}
  MaxEvents = 2
  Systems = {"launchd", "systemd", "schtasks"}
  Sources = {"brew", "github"}
  MaxReleases = 2
  MaxMoves = 3
  MaxTroubles = 2
  MaxResets = 1
  MaxAtOnce = 2
  MaxCommands = 2
  MaxEdits = 1
  EditedSections = {"account", "capture"}
INVARIANTS ServiceTypeOK StopHolds BoundedLaunches StoppedDevIsRecorded MarkedIsMoved
PROPERTIES RestartsOnlyUnmoved PromisesKept RescueComes DevComesBack RelocationEnds
CHECK_DEADLOCK FALSE
