\* Two threads, two sessions of one HiSLIP, VXI-11 or other resource, three calls and the
\* two closes.
\* A behaviour ends when the calls are used up and the sessions closed.
CHECK_DEADLOCK FALSE
SPECIFICATION FairSpec
CONSTANTS
    Sessions = {s1, s2}
    NoSession = NoSession
    Threads = {t1, t2}
    Backends = {"hislip", "vxi11", "local"}
    LoseAnswers = TRUE
    MaxCalls = 3
INVARIANTS
    ClosedIsQuiet
    QuietSessionsAgree
PROPERTIES
    BlockedCallsReturn
