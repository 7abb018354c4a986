CONSTANTS
    Callers = {c1}
    Ops = {o1, o2, o3, o4}
    Nil = Nil
SPECIFICATION FairSpec
INVARIANT NoLostOp
PROPERTY ImplementsFairSyncCall
