SPECIFICATION AllSpec
CONSTANTS
    RequestIds = {a, b, c}
    Arguments = {x, y}
    NoArgument = NoArgument
    Capacity = 2
    StatusMayFail = FALSE
    Parts = {"bridge"}
    Off = Off
    Fixtures = {f1, f2}
    Presets = {1, 2}
    Slots = {1}
    Probes = {"raw"}
    Shows = {}
    None = None
    MaxTasks = 1
    MaxMishaps = 1
INVARIANT DuplicateGetsOriginal
