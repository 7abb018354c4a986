SPECIFICATION Spec
CONSTANTS
    Callers = {c1, c2}
    Types = {create, bind}
    Address = Address
    Nil = Nil
INVARIANT DispatchesPosted
CHECK_DEADLOCK FALSE
