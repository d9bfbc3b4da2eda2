\* Two sessions on one interface, with equal or different alternate settings; the
\* device is unplugged and plugged in once; a transfer each, one termination.
\* A behaviour ends when both sessions are closed and the device stays as it is.
CHECK_DEADLOCK FALSE
SPECIFICATION FairSpec
CONSTANTS
    None = None
    s1 = s1
    s2 = s2
    d1 = d1
    d2 = d2
    Sessions = {s1, s2}
    Devices = {d1, d2}
    Settings <- MCSettings
    Threads = {1, 2}
    MaxPlugs = 2
    MaxTransfers = 1
    MaxTerminates = 1
INVARIANTS
    UsesClaim
    OneTransfer
    NoLateOpen
    EventsServed
PROPERTIES
    TerminatedReturns
    CloseReturns
