SPECIFICATION FairSteadySpec
CONSTANTS
    Callers = {c1, c2}
    Ops = {o1, o2}
    Nil = Nil
INVARIANTS TypeOK QueueSound ServesWaitingCaller
PROPERTIES ImplementsSyncCall EnqueueCompletes
