SPECIFICATION FairSpec
CONSTANTS
    Parts = {"session", "watchdog", "export"}
    Off = Off
    Clients = {c1, c2}
    NoClient = NoClient
    Operators = {o1}
    Settings = {s1}
    N = 1
    Required = {1}
    Capacity = 1
    Host = Host
    NoThread = NoThread
    Seen = {"ONLINE", "OFFLINE"}
    MaxChanges = 1
    Refreshers = {w1}
    Resources = {"cues", "group_membership"}
    Keys = {k1, k2}
    NoItem = NoItem
    MaxSession = 2
    Late = FALSE
    NoRequest = NoRequest
    Whole = 3
    Kinds = {"group"}
    Threads = {t1, t2}
    Requests = {r1, r2}
    Nobody = Nobody
    Empty = Empty
PROPERTIES
    Reconnects
    WaitsEnd
    LossIsShown
CHECK_DEADLOCK FALSE
