SPECIFICATION Spec
CONSTANTS
    Ids = {a, b}
    NoId = NoId
    Threads = {t1, t2}
    Kinds = {"raw_poc"}
    Phases = 1
INVARIANT OneExecutor
