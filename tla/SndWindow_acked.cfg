CONSTANTS
    SeqMod = 9
    RcvWnd = 1
    Iss = 1
    RingSize = 3
    Windows = {1, 2}
    Length = 3
    None = None
SPECIFICATION Spec
CHECK_DEADLOCK FALSE
INVARIANT AcknowledgedIsRemoved
