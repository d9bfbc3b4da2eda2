\* Requests one after the other, cancelled or timed out at any point: a VXI-11 call,
\* whose answer may be too long, a HiSLIP write, which has no answer of its own, and a
\* HiSLIP read, which sends nothing; and the destroy_link of VXI-11's close(), which
\* races with them and can only time out.
\* A behaviour ends when all exchanges have returned, or wait for a silent device.
CHECK_DEADLOCK FALSE
SPECIFICATION FairSpec
CONSTANTS
    N = 4
    Silent = {2}
    Empty = {3}
    Oversized = {1}
    Unserialised = {4}
    Cancellable = {1, 3}
    Kinds = {TRUE, FALSE}
INVARIANTS
    AnsweredOnce
    OneRequestOnTheWire
    ResponsesDrained
PROPERTIES
    CancelledExchangeReturns
