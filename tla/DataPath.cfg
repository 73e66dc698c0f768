SPECIFICATION MCSpec
CONSTANTS
    Apps = {"codex", "gemini", "claude-desktop"}
    Cut = {"codex"}
    Kinds = {"talk", "tool", "huge"}
    MaxLines = 3
    MaxEvents = 1
    MaxWaiting = 2
    MaxFaults = 1
    Synced = 1
    Stores = {"global", "workspace", "tokens", "state"}
    RowKinds = {"talk", "secret", "big"}
    MaxRows = 3
    MaxChanges = 1
    MaxToggles = 1
    MaxQueued = 2
    MaxThrows = 1
    Agents = {"claude-code", "claude-desktop", "codex", "gemini", "cursor"}
    MaxEntries = 2
    MaxItems = 2
    MaxRecords = 2
    MaxTicks = 3
    ReceiptRetention = 1
    FailedRetention = 0
    MaxUpsets = 1
INVARIANTS
    DataTypeOK
    NoLineLost
    NoRowSkipped
    InspectIsTrue
    FramesTrue
    StateRowCurrent
PROPERTIES
    ReadWhenAllowed
CHECK_DEADLOCK FALSE
