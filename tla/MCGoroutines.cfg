CONSTANTS
    Main = main
    Spawned = {g1}
    Callbacks = {k}
    Chans = {c}
    ForeignChan = foreign
    Operations <- MCOps
    Modes = {TRUE, FALSE}
    MaxGoroutines = 1
    MaxParks = 3
    MaxEvents = 1
    Free = free
SPECIFICATION ExecutionFairSpec
INVARIANTS ExecutionSound
PROPERTIES DeadlockReal 
CHECK_DEADLOCK FALSE
