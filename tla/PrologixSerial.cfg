\* The same on a serial line alone: the version line of a handshake that was given
\* up is still to come when the next one has begun, and ends in the next answer.
CHECK_DEADLOCK FALSE
SPECIFICATION FairSpec
CONSTANTS
    None = None
    o1 = o1
    o2 = o2
    Owners = {o1, o2}
    Address <- MCAddress
    Plan <- MCPlan
    Connections = {"serial"}
    MaxResponse = 3
    Answers = {2, 4}
    MaxConnects = 2
    MaxFaults = 1
INVARIANTS
    OwnResponseOnAnyLine
