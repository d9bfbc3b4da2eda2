\* Two workers, the fewest IoRuntime starts, and two sessions cancelled together.
CHECK_DEADLOCK FALSE
SPECIFICATION PoolFairSpec
CONSTANTS
    Workers = {w1, w2}
    Sessions = {s1, s2}
    Free = Free
PROPERTIES
    CancelReturns
