CONSTANTS
    Peers = {p1}
    Channels = {Dated}
    Keys = {k1}
    None = None
    Budget = 1
    MaxCompares = 2
SPECIFICATION DumpSpec
PROPERTIES StashIsDrained
CHECK_DEADLOCK FALSE
