CONSTANTS
    Keys = {k1}
    Callers = {c1, c2}
    None = None
    Me = 1
    Peer = 2
    Budget = 1
    Deletes = {2}
    MaxTime = 3
SPECIFICATION Spec
PROPERTY TimestampOrderDecides
SYMMETRY Symmetry
