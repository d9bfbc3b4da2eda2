\* A cancelled request behind, or next to, the destroy_link of close().
CHECK_DEADLOCK FALSE
SPECIFICATION Spec
CONSTANTS
    N = 2
    Silent = {}
    Empty = {}
    Oversized = {}
    Unserialised = {2}
    Cancellable = {1}
    Kinds = {TRUE}
INVARIANTS
    ActiveNotRestarted
