CONSTANTS
    SeqMod = 5
    RcvWnd = 1
    Iss = 1
    RingSize = 3
    Windows = {0, 1, 3, 4}
    Length = 6
    None = None
SPECIFICATION Spec
CHECK_DEADLOCK FALSE
INVARIANTS TypeOK RingHoldsLatest RepeatsWhatWasSent SentInOrder
