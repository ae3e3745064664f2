CONSTANTS
    PidOrder <- MCPidOrder
    MaxStarts = 3
    Programs <- Mixed
    Daemons <- Masters
    CwdSimilarity <- MCCwdSimilarity
    ArgSimilarity <- MCArgSimilarity
    Threshold = 75
    SuppressionTTL = 1
    RestartWindow = 1
    RestartThreshold = 3
    SameStart = 0
    DistantStart = 2
    MaxTracked = 40
    Horizon = 2
    Flags = {"-v", "--port", "--reload"}
    Volatile = {"--port"}
    Harmless = {"--reload"}
    Words = {"app.py", "web:app", "serve"}
    Entries = {"app.py", "web:app"}
    Dynamics = {"8000", "8001"}
    Nothing = Nothing
    MaxUnits = 3
    SecurityEnabled = TRUE
    ExcessiveCpu = 85
    CpuThreshold = 90
    RamThreshold = 1024
    IdleThreshold = 2
SPECIFICATION MCSpec
CHECK_DEADLOCK FALSE
INVARIANTS
    MCTypeOK
    GroupsAreDisjoint
    LineageIsNotDuplicate
    DuplicatesWereReported
    
PROPERTIES
    NoRepeatInsideWindow
    WorseNeverScoresLess
    
