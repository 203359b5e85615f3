CONSTANTS
    Callers = {c1, c2, c3}
    Gates = {g1, g2}
    Tenants = {t1, t2}
    MaxKeys = 1
    NoCaller = NoCaller
    NoGate = NoGate
    NoTenant = NoTenant
    MaxFrames = 1
    MaxDefers = 2
    MaxPanics = 2
    MaxExits = 1
    MaxFaults = 1
    Invokers = {i1, i2}
    MaxVMs = 3
    MaxExecutions = 2
    CostBudget = 4
    CostChunk = 2
    Costs = {1, 3}
    Clients = {k1, k2}
    NumShards = 2
    InitialCapacity = 1
    MaxCapacity = 2
    MaxObjects = 3
    Threads = {"a", "b", "c"}
    Callbacks = {"c"}
    SafeMode = FALSE
    MaxStops = 2
    MaxEntries = 2
    Machines = {m1, m2}
    Entry = m1
    NoMachine = NoMachine
    QueueDepth = 1
    EventCap = 1
    MaxPauses = 1
    MaxAsked = 1
    Submitters = {"s", "t"}
    SourceSizes = {1, 2}
    MaxSourceBytes = 2
    MaxOutputBytes = 1
    SubmissionCost = 2
    SessionSource = 3
    SessionOutput = 1
    SessionCost = 3
    MaxSubmissions = 2
    Names = {"f", "g"}
    Inits = {"i", "j"}
    MaxSubmits = 3
    EvalBudget = 3
    StageCost = 1
    Runners = {"p", "q"}
    Scripts = {"s", "t"}
    Claims = {"read", "exec"}
    MaxRuns = 2
    Profiles <- MCProfiles
    BankSize = 2
    LivenessBudget = 3
    MaxHoists = 16
    MaxRounds = 4
    MaxThreadSteps = 8
SPECIFICATION ComponentsSpec
INVARIANTS
    TableSound
    WorkingFrameLive
    CallbacksSound
    EachObjectOnce
    BarrierSound
    AdapterSound
    SessionHeld
    SessionTablesSound
    PassesPreserve
    LinesKept
    AnalysesSound
PROPERTIES
    DefersOnceInOrder
    PauseHolds
    PublishMerges
CHECK_DEADLOCK FALSE
