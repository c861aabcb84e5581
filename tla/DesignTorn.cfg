SPECIFICATION Spec
CONSTANTS
    Parts = {"run"}
    Off = Off
    N = 3
    Profiles <- MCProfiles
    Widths <- MCWidths
    Requests = {r1}
    Contexts <- MCContexts
    LiveShow = LiveShow
    OtherLiveShow = OtherLiveShow
    NoShow = NoShow
    Old = Old
    New = New
    Gone = Gone
    Torn = Torn
    MaxCalls = 2
    MaxStops = 1
    MaxAttempts = 2
    Restarts = {FALSE}
    Faults = {"write"}
    Ids = {i1}
    MaxCycles = 2
    None = None
    Order <- MCOrder
    Others <- MCOthers
    Cues <- MCCues
    Plans <- MCPlans
    Rows <- MCRows
    Edits <- MCEdits
    MergeKinds = {"position", "dynamic", "resources"}
    Fine = FALSE
    MaxEdits = 1
    MaxIgnored = 1
INVARIANT AlwaysResumes
