\* A call of viLock and one of viTerminate are enough; no answer is lost.
CHECK_DEADLOCK FALSE
SPECIFICATION Spec
CONSTANTS
    Sessions = {s1, s2}
    NoSession = NoSession
    Threads = {t1, t2}
    Backends = {"hislip", "vxi11"}
    LoseAnswers = FALSE
    MaxCalls = 3
INVARIANTS
    RemoteLockFollowsLocal
