SPECIFICATION Spec
CONSTANTS
    Jobs = {j, k}
    NoJob = NoJob
    Malformed = Malformed
    MaxPosts = 2
    MaxStops = 1
INVARIANTS
    RecordedIsPublished
    ExecutionsAccounted
    RunningIsExplained
PROPERTY PostedIsRecorded
