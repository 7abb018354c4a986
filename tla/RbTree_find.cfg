CONSTANTS
    Socks = {1, 2, 3}
    Sought = {1, 2, 3}
    Nil = Nil
SPECIFICATION Spec
INVARIANT RegisteredIsFound
