SPECIFICATION LineSpec
CONSTANTS
    Apps = {"claude-desktop"}
    Cut = {"claude-desktop"}
    Kinds = {"talk"}
    MaxLines = 3
    MaxEvents = 1
    MaxWaiting = 2
    MaxFaults = 0
    Synced = 0
INVARIANT NoLineLost
CHECK_DEADLOCK FALSE
