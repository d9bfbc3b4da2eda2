\* The last reference to a connection dropped by the event thread.
CHECK_DEADLOCK FALSE
SPECIFICATION FairSpec
CONSTANTS
    None = None
    s1 = s1
    s2 = s2
    d1 = d1
    d2 = d2
    Sessions = {s1, s2}
    Devices = {d1, d2}
    Settings <- MCSettings
    Threads = {1, 2}
    MaxPlugs = 2
    MaxTransfers = 1
    MaxTerminates = 1
INVARIANTS
    HotplugDoesNotBlock
