CONSTANTS
    Callers = {r1}
    RemotePids = {7}
    Owners = {me, root}
    Account = me
    MaxRemoteStarts = 2
    MaxRemoteKills = 1
SPECIFICATION RemoteSpec
CHECK_DEADLOCK FALSE
INVARIANT GoneIsGone
