\* The raw session alone, without faults: one answer of four bytes, the first two of
\* which equal the termination character.
CHECK_DEADLOCK FALSE
SPECIFICATION Spec
CONSTANTS
    Kinds = {"raw"}
    Length = 4
    Termchars = {1, 2}
    Counts = {2, 4}
    LastStatusTag = 6
    MaxCalls = 4
    MaxWrites = 1
    MaxFaults = 0
INVARIANTS
    RawBytesInOrder
