CONSTANTS
    Socks = {1, 2, 3, 4, 5, 6, 7, 8}
    Sought = {4}
    Nil = Nil
SPECIFICATION Spec
INVARIANTS TypeOK HoldsRegistered Balanced PointersExist QuietFindIsRight
