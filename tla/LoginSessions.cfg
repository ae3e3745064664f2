CONSTANTS
    Threads = {t1}
    Passwords = {"old", "new"}
    HostNames = {vps}
    Unset = Unset
    SessionAge = 1
    MaxLogins = 1
    MaxSaves = 1
    MaxBoots = 1
    SettingsHorizon = 1
SPECIFICATION SettingsSpec
CHECK_DEADLOCK FALSE
PROPERTY LoginOpensDashboard
