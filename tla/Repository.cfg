CONSTANTS
    Writers = {daemon, web}
    Pids = {2, 3}
    Stale = 1
    Interval = 1
    Retention = 1
    MaxStarts = 3
    MaxShared = 2
    MaxRestarts = 0
    Horizon = 2
    Agents = {daemon, web}
    Tables = {"processes", "kills"}
    Columns <- MCColumns
    Migrated <- MCMigrated
    OldSchemas <- MCOldSchemas
    MaxCrashes = 1
SPECIFICATION MCSpec
CHECK_DEADLOCK FALSE
INVARIANTS
    MCTypeOK
    OneRowPerPid
    SamplesAreSpaced
    UpsertsFailForAReason
    MigrationsAreWhole
PROPERTIES
    FreshRowsAreKept
    LiveProcessesGetRows
    ImplementsTable
    StartsSucceed
