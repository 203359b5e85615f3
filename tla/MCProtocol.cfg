CONSTANTS
    Callers = {c1, c2, c3}
    Gates = {g1, g2}
    NoCaller = NoCaller
    NoGate = NoGate
    MaxCallsPerRun = 3
    MaxOutstandingCalls = 2
    Ids = {0, 1, 2, 3, 4, 5}
    Users = {u1, u2, u3}
    Submissions = 2
    NoSource = NoSource
    Routines = {"f", "g"}
    Requests <- MCRequests
    CallLimits = {1, 2}
    Outstanding = 1
    Quota = 3
    DefaultCalls = 2
    MaxInvokes = 2
SPECIFICATION ProtocolSpec
INVARIANTS
    LeaseConserved
    LedgerInv
    ProtocolHeld
    OutcomeHonest
    ExchangeOutcome
PROPERTIES
    QueuedServed
    ImplementsSlot
    CallsReturn
    ExchangeReturns
