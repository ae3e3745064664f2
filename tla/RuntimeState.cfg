CONSTANTS
    Keys = {k1, k2, k3}
    TTL = 2
    MaxSize = 2
    Horizon = 7
    Fingerprints = {f1, f2, f3}
    Window = 2
    MaxFingerprints = 1
    LastStart = 4
    Clients = {c1, c2}
    RateWindow = 2
    RateLimit = 1
    MaxRequests = 4
    RateHorizon = 4
    ScanPids = {1}
    Executables = {x, y}
    Ports = {80}
    MinInterval = 2
    Refresh = 2
    MaxHashes = 1
    ScanTime = 1
    ScanHorizon = 4
    Threads = {t1, t2}
    Passwords = {"old", "new"}
    HostNames = {vps}
    Unset = Unset
    SessionAge = 1
    MaxLogins = 1
    MaxSaves = 3
    MaxBoots = 1
    SettingsHorizon = 1
SPECIFICATION MCSpec
CHECK_DEADLOCK FALSE
INVARIANTS
    MCTypeOK
    LoopsAreCounted
    RequestsAreLimited
    PortsAreRecent
    LossesAreSingle
    
PROPERTIES
    ImplementsWindow
    
