CONSTANTS
    Writers = {daemon}
    Pids = {2}
    Stale = 1
    Interval = 1
    Retention = 3
    MaxRestarts = 1
    MaxStarts = 1
    MaxShared = 1
    Horizon = 2
SPECIFICATION Spec
CHECK_DEADLOCK FALSE
INVARIANT RestartsCountReuse
