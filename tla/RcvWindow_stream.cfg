SPECIFICATION FairSpec
CONSTANTS
    SeqMod = 8
    RcvWnd = 3
    Irs = 5
    Wires <- MCBinary
    Length = 7
    Ahead = 5
    Lag = 4
    None = None
INVARIANTS TypeOK SlotsFit AcceptsTheWindow 
PROPERTIES MovesAsText  
CHECK_DEADLOCK FALSE
