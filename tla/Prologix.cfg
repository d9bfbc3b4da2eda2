\* Session o1 reads, and then reads, writes or drops what was left over; session o2 opens,
\* writes, clears, triggers or polls, through one adapter, on TCP or a serial line;
\* one fault at any point.  A behaviour ends when the calls are made, or wait for a
\* silent adapter.
CHECK_DEADLOCK FALSE
SPECIFICATION FairSpec
CONSTANTS
    None = None
    o1 = o1
    o2 = o2
    Owners = {o1, o2}
    Address <- MCAddress
    Plan <- MCPlan
    Connections = {"tcp", "serial"}
    MaxResponse = 3
    Answers = {2, 4}
    MaxConnects = 2
    MaxFaults = 1
INVARIANTS
    RightInstrument
    OwnResponse
PROPERTIES
    CancelledReturns
