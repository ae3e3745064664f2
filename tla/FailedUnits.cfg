CONSTANTS
    AlertKeys <- UnitKeys
    Units = {1, 2}
    Cooldown = 2
    FirstUptime = 2
    Horizon = 4
    MaxEpochs = 2
    MaxFaults = 1
    LastChange = 4
    MaxChanges = 2
SPECIFICATION UnitsSpec
CHECK_DEADLOCK FALSE
INVARIANTS
    RowsAreSpaced
    FailureIsTriedFirst
PROPERTIES
    LogOnlyGrows
    NewFailureIsOnRecord
    CatchesUp
