\* One thread locks and unlocks a VXI-11 session; no answer is lost.
CHECK_DEADLOCK FALSE
SPECIFICATION Spec
CONSTANTS
    Sessions = {s1, s2}
    NoSession = NoSession
    Threads = {t1}
    Backends = {"vxi11"}
    LoseAnswers = FALSE
    MaxCalls = 3
INVARIANTS
    NotLockedMeansNoLock
