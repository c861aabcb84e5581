SPECIFICATION Spec
CONSTANTS
    N = 2
    Answers = {"down", "bare", "idle", "ready", "fault"}
    Threads = {t1}
    Host = Host
    NoThread = NoThread
INVARIANTS
    OneWriter
    RegistryAsHeard
PROPERTY ChangesAreNoticed
