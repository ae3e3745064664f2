CONSTANTS
    Groups = {1, 2}
    TTL = 1
    Cooldown = 1
    Maintenance = 1
    MaxTracked = 4
    MaxFaults = 1
SPECIFICATION Spec
CHECK_DEADLOCK FALSE
INVARIANTS
    TypeOK
    AlertsHaveGroups
PROPERTIES
    LastingDuplicatesAreReported
    StopEnds
