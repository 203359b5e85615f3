CONSTANTS
    Profiles <- MCShortJumps
    BankSize = 2
    LivenessBudget = 3
    MaxHoists = 16
    MaxRounds = 4
    MaxThreadSteps = 8
SPECIFICATION PassSpec
INVARIANTS
    CompactionPreserves
CHECK_DEADLOCK FALSE
