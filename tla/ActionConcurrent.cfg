SPECIFICATION Spec
CONSTANTS
    Ids = {a, b}
    NoId = NoId
    Threads = {t1, t2}
    Kinds = {"dynamic_merge", "direct"}
    Phases = 1
INVARIANTS
    NoWriteBeforeApproval
    ExecutedIsOnTheShow
    ApprovedHasExecutor
PROPERTY ApprovedConcludes
