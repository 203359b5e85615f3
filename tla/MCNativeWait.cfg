CONSTANTS
    Main = main
    Spawned = {}
    Callbacks = {k}
    Chans = {c}
    ForeignChan = foreign
    Operations <- MCOps
    Modes = {TRUE, FALSE}
    MaxGoroutines = 1
    MaxParks = 1
    MaxEvents = 3
    Free = free
SPECIFICATION ExecutionSpec
PROPERTIES NativeWaitSpared
CHECK_DEADLOCK FALSE
