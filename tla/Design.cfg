SPECIFICATION Spec
CONSTANTS
    Parts = {"router", "run", "revision", "merge"}
    Off = Off
    N = 3
    Profiles <- MCProfiles
    Widths <- MCWidths
    Requests = {r1, r2}
    Contexts <- MCContexts
    LiveShow = LiveShow
    OtherLiveShow = OtherLiveShow
    NoShow = NoShow
    Old = Old
    New = New
    Gone = Gone
    Torn = Torn
    MaxCalls = 3
    MaxStops = 1
    MaxAttempts = 2
    Restarts = {TRUE, FALSE}
    Faults = {"write", "archive"}
    Ids = {i1}
    MaxCycles = 2
    None = None
    Order <- MCOrder
    Others <- MCOthers
    Cues <- MCCues
    Plans <- MCPlans
    Rows <- MCRows
    Edits <- MCEdits
    MergeKinds = {"position", "dynamic", "resources"}
    Fine = FALSE
    MaxEdits = 1
    MaxIgnored = 1
INVARIANTS BestAnswers OneRun Resumes ReviewIsTrue VerifiedIsApproved UndisturbedVerifies
PROPERTIES NeverOverwritten Ends
