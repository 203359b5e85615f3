CONSTANTS
    MaxFrames = 1
    MaxDefers = 1
    MaxPanics = 1
    MaxExits = 0
    MaxFaults = 0
SPECIFICATION UnwindSpec
INVARIANTS
    PanicSuspendsFrames
