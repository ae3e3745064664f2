CONSTANTS
    PidOrder <- MCPidOrder
    MaxStarts = 4
    Programs <- OneApp
    Daemons = {}
    CwdSimilarity <- MCCwdSimilarity
    ArgSimilarity <- MCArgSimilarity
    Threshold = 75
    SuppressionTTL = 1
    RestartWindow = 2
    RestartThreshold = 3
    SameStart = 0
    DistantStart = 2
    MaxTracked = 40
    Horizon = 2
    Flags = {}
    Volatile = {}
    Harmless = {}
    Words = {}
    Entries = {}
    Dynamics = {}
    Nothing = Nothing
    MaxUnits = 0
    SecurityEnabled = FALSE
    ExcessiveCpu = 85
    CpuThreshold = 90
    RamThreshold = 1024
    IdleThreshold = 2
SPECIFICATION MCSpec
CHECK_DEADLOCK FALSE
INVARIANT LoopsRestarted
