\* Four objects in three slots of two generations: slots are reused and retired.
\* A behaviour ends when the four objects are used up and closed.
CHECK_DEADLOCK FALSE
SPECIFICATION FairSpec
CONSTANTS
    Objects = {1, 2, 3, 4}
    NoObject = NoObject
    MaxSlots = 3
    MaxGeneration = 2
    Threads = {t1, t2}
INVARIANTS
    HandleNamesItsObject
    ClosedOnceAndUnreachable
    NoOrphan
    ChildrenAreAlive
PROPERTIES
    StaleHandlesStayDead
    RemovedIsClosed
