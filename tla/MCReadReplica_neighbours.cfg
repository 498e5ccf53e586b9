CONSTANTS
    Self = 0
    Peers = {1, 2}
    Readers = {3, 4}
    Nets = {1, 2}
    Host = 0
    Within <- MCWithin
    Keys = {1, 2}
    MaxNets = 2
    RemoteInterval = 2
    RemoteFanout = 1
    MaxRepairAttempts = 2
    MissThreshold = 2
    Floor = 3
    MaxInFlight = 1
    None = None
    Setups <- MCSetups
SPECIFICATION FairSpec
INVARIANTS
    OnlyLongAbsentDropped
    ReadersNeverGate

    
    
    
