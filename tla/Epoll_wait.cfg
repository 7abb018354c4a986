SPECIFICATION FairSpec
CONSTANTS
    Threads = {t1, t2}
    Items = {i1, i2}
    MaxEvents = 1
    FreshReady = {TRUE, FALSE}
    FreshNum <- MCFreshNum
    Nil = Nil
INVARIANTS TypeOK ListedOnce NoLostWakeup
PROPERTIES CountsList SleeperReturns
CHECK_DEADLOCK FALSE
