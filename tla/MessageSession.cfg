\* Every kind of session; answers of three bytes of which the first equals the
\* termination character, so that counts of 2 and 4 leave bytes and END marks behind;
\* the first answer is there from the start, two more writes may follow.  A session
\* whose calls are made stops: deadlock is not checked.
CHECK_DEADLOCK FALSE
SPECIFICATION Spec
CONSTANTS
    Kinds = {"hislip", "vxi11", "usbtmc", "raw", "gpib"}
    Length = 3
    Termchars = {1}
    Counts = {2, 4}
    LastStatusTag = 6
    MaxCalls = 4
    MaxWrites = 3
    MaxFaults = 3
INVARIANTS
    BytesInOrder
    MessagesSeparate
    OwnAnswer
    ClearIsAnnounced
    WritesDoNotMix
    StatusByteIsOwn
