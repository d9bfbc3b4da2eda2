\* The USBTMC session alone: a write that fails half way, and the next one.
CHECK_DEADLOCK FALSE
SPECIFICATION Spec
CONSTANTS
    Kinds = {"usbtmc"}
    Length = 3
    Termchars = {1}
    Counts = {2, 4}
    LastStatusTag = 6
    MaxCalls = 4
    MaxWrites = 3
    MaxFaults = 1
INVARIANTS
    FailedWritesDoNotMix
