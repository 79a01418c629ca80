SPECIFICATION FairSpec
CONSTANTS
    Threads = {t1, t2, t3}
    CondVars = {cv1}
    NoCv = NoCv
    NoThread = NoThread
    Modes = {TRUE, FALSE}
    WaitMayReturn = {t1}
    SendMayFail = FALSE
INVARIANTS TypeOK StateCountsHolders QueueMatchesStacks NoLostWakeup DoneIsNotified
PROPERTIES RefinesRwLock FreeLockTaken WaiterWoken
\* every thread may wait for a signal nobody is left to give
CHECK_DEADLOCK FALSE
