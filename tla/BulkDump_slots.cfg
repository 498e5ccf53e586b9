CONSTANTS
    Peers = {p1, p2}
    Channels = {Dated, ValueOnly}
    Keys = {k1, k2}
    None = None
    Budget = 1
    MaxCompares = 3
SPECIFICATION DumpSpec
INVARIANTS SlotsAccounted NothingForgotten
PROPERTIES ActiveTaskDrains 
CHECK_DEADLOCK FALSE
