\* Two workers and one session: its observer waits for two reads of the side channel.
CHECK_DEADLOCK FALSE
SPECIFICATION PoolFairSpec
CONSTANTS
    Workers = {w1, w2}
    Sessions = {s1}
    Free = Free
PROPERTIES
    TerminateWakes
