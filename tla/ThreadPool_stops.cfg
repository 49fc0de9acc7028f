SPECIFICATION FairSpec
CONSTANTS
    threadNum = 2
    Task = {t1, t2}
    QueSize = 2
    Level = {0, 1}
    End = End
    NoMessage = NoMessage
    Garbage = Garbage
    MaxStart = 2
CHECK_DEADLOCK FALSE
INVARIANTS TypeOK TokenPerMessage RunsOnce
PROPERTIES TaskSettles StopReturns IsTaskPool
