CONSTANTS
    Threads = {"a", "b"}
    Callbacks = {}
    SafeMode = TRUE
    MaxStops = 2
    MaxEntries = 2
SPECIFICATION DebugSpec
INVARIANTS
    UnlockedByHolder
CHECK_DEADLOCK FALSE
