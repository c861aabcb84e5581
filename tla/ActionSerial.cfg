SPECIFICATION Spec
CONSTANTS
    Ids = {a, b}
    NoId = NoId
    Threads = {t1}
    Kinds = {"dynamic_merge", "position_merge", "program_song", "raw_poc", "calibration", "seq302", "song", "direct", "program_direct"}
    Phases = 2
INVARIANTS
    ActiveIsTheOpenAction
    ExecutedExactly
    RootOutcome
PROPERTY KeepsContract
