\* Three workers and two sessions: an observer may wait in each session, and one
\* worker is left.  A behaviour ends when the calls have returned or nobody acts.
CHECK_DEADLOCK FALSE
SPECIFICATION PoolFairSpec
CONSTANTS
    Workers = {w1, w2, w3}
    Sessions = {s1, s2}
    Free = Free
PROPERTIES
    CancelReturns
