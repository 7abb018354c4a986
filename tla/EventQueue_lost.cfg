CONSTANTS
    Callers = {c1, c2}
    Ops = {o1}
    Nil = Nil
SPECIFICATION FairSteadySpec
PROPERTY CallsReturn
