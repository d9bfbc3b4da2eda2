\* A serial port: two reads, one of them with a termchar, of three bytes from the
\* device, or two writes, with one flush or clear.
\* A behaviour ends when the calls are used up, or wait for a silent device.
CHECK_DEADLOCK FALSE
SPECIFICATION FairSpec
CONSTANTS
    Reads = {1, 2}
    Writes = {3, 4}
    Scenarios = {{1, 2}, {3, 4}}
    Count = 2
    Length = 2
    TermReads = {1}
    TermBytes = {2}
    MaxBytes = 3
    MaxFlushes = 1
    Serial = TRUE
INVARIANTS
    BytesInOrder
    QueueIsServed
    WritesDoNotMix
PROPERTIES
    StreamCallsReturn
