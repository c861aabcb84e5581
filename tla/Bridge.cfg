SPECIFICATION AllSpec
CONSTANTS
    RequestIds = {a, b, c}
    Arguments = {x, y}
    NoArgument = NoArgument
    Capacity = 2
    StatusMayFail = TRUE
    Parts = {"bridge", "evidence"}
    Off = Off
    Fixtures = {f1, f2}
    Presets = {1, 2}
    Slots = {1}
    Probes = {"raw", "application", "calibration"}
    Shows <- OtherShows
    None = None
    MaxTasks = 3
    MaxMishaps = 1
SYMMETRY Symmetry
INVARIANTS
    AnswerFits
    InStep
    RetryIsIdempotent
    EvidenceIsTrue
    OfferedIsCurrent
    QuietVerifies
