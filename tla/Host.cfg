SPECIFICATION Spec
CONSTANTS
    Parts = {"session", "watchdog", "cache", "export", "mailbox"}
    Off = Off
    Clients = {c1, c2}
    NoClient = NoClient
    Operators = {o1, o2}
    Settings = {s1,s2}
    N = 2
    Required = {1}
    Capacity = 2
    Host = Host
    NoThread = NoThread
    Seen = {"ONLINE", "OFFLINE"}
    MaxChanges = 1
    Refreshers = {w1}
    Resources = {"cues", "group_membership"}
    Keys = {k1, k2}
    NoItem = NoItem
    MaxSession = 2
    Late = FALSE
    NoRequest = NoRequest
    Whole = 4
    Kinds = {"group", "preset"}
    Threads = {t1, t2}
    Requests = {r1, r2}
    Nobody = Nobody
    Empty = Empty
SYMMETRY Symmetry
INVARIANTS
    ReadyMeans
    OneSession
    EventsAgree
    CacheIsTrue
    ExportsWhole
    MailboxOwn
PROPERTIES
    WorkingStays
    NeverBackwards
CHECK_DEADLOCK FALSE
