\* Two threads, three sessions on two resources, three calls of acquire.
\* Threads may all wait with an infinite timeout, as in the program.
CHECK_DEADLOCK FALSE
SPECIFICATION LockFairSpec
CONSTANTS
    s1 = s1
    s2 = s2
    s3 = s3
    r1 = r1
    r2 = r2
    Sessions = {s1, s2, s3}
    NoSession = NoSession
    Resources = {r1, r2}
    ResourceOf <- MCResourceOf
    Callers = {t1, t2}
    NoThread = NoThread
    MaxCalls = 3
INVARIANTS
    LevelsMatchCallers
    NoLostCancel
    NoLostRelease
PROPERTIES
    ImplementsResourceLock
    AcquireReturns
