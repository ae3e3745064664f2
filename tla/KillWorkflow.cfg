CONSTANTS
    Handlers = {h1, h2}
    Pids = {2, 3}
    Programs = {app, root}
    Untouchable = {root}
    StaleScans = 0
    MaxStarts = 3
    MaxRequests = 2
    MaxMishaps = 1
    Callers = {r1, r2}
    RemotePids = {7}
    Owners = {me, root}
    Account = me
    MaxRemoteStarts = 3
    MaxRemoteKills = 2
    Projects = {"shop", "blog"}
    Services = {"nginx"}
    ServiceUnits = {"shop", "nginx"}
    NoName = NoName
    ListLimit = 3
    KillLimit = 2
    MaxRows = 4
    Candidates <- MCCandidates
SPECIFICATION MCSpec
CHECK_DEADLOCK FALSE
INVARIANTS
    MCTypeOK
    
    KillFollowsTerm
    LogClaimsNoMore
    RemoteAnswersAreTrue
PROPERTIES
    KillAppEmptiesItsGroup
SYMMETRY HandlerSymmetry
CONSTRAINT SomethingIsAsked
ACTION_CONSTRAINT PrivateStepsFirst
