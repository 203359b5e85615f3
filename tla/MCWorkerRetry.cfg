CONSTANTS
    Hosts = {r1, r2}
    Journals = {FALSE}
    MaxRecoveryFaults = 1
    MaxRecoveryCrashes = 0
SPECIFICATION RecoveryFairSpec
PROPERTIES
    ResourcesReclaimed
