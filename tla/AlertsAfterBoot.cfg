CONSTANTS
    AlertKeys = {k1, k2}
    Cooldown = 2
    FirstUptime = 0
    Horizon = 4
    MaxEpochs = 2
    MaxFaults = 0
SPECIFICATION Spec
CHECK_DEADLOCK FALSE
PROPERTY DeclinedMeansPersisted
