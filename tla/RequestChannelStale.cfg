\* A request cancelled while it is being written, and the next one.
CHECK_DEADLOCK FALSE
SPECIFICATION Spec
CONSTANTS
    N = 2
    Silent = {}
    Empty = {}
    Oversized = {}
    Unserialised = {}
    Cancellable = {1, 2}
    Kinds = {TRUE}
INVARIANTS
    NoStaleResponse
