SPECIFICATION FairSpec
CONSTANTS
    Threads = {t1, t2}
    Conns = {c1, c2, c3}
    Head = Head
    Nil = Nil
INVARIANTS TypeOK NoneSkipped
PROPERTIES HandsOutNext AcceptReturns
CHECK_DEADLOCK FALSE
