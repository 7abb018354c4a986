CONSTANTS
    Slots = {s1, s2, s3}
    Peers = {p1}
    Ports = {80, 88}
    SeqMod = 3
    RcvWnd = 1
    MaxBurst = 1
    Unbound = Unbound
    NoPeer = NoPeer
    FlagSets <- MCFlagSets
    Iss <- MCIss
SPECIFICATION Spec
INVARIANTS TypeOK  LookupUnique ConnectionsOnRegisteredPorts
PROPERTIES AcksOnlySent 
SYMMETRY Symmetry
