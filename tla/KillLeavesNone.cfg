CONSTANTS
    Handlers = {h1}
    Pids = {2, 3}
    Programs = {app}
    Untouchable = {}
    StaleScans = 1
    MaxStarts = 2
    MaxRequests = 1
    MaxMishaps = 1
SPECIFICATION Spec
CHECK_DEADLOCK FALSE
PROPERTY AliveMemberIsKept
