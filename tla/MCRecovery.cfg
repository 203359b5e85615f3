CONSTANTS
    Hosts = {r1, r2}
    Journals = {TRUE, FALSE}
    MaxRecoveryFaults = 3
    MaxRecoveryCrashes = 2
    Paths = {p}
    MaxCalls = 3
    MaxFaults = 2
    MaxCrashes = 2
    MaxForeign = 1
SPECIFICATION CrashSpec
INVARIANTS
    MarkerSound
    WriteAhead
    CleanupComplete
    RecoveryAdmitted
    DoneIsPublished
PROPERTIES
    RecoveryCareful
    FilesystemReclaimed
    SparesOthers
    CleanedUp
