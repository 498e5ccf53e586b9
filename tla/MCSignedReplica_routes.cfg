CONSTANTS
    Authorities = {1, 2}
    Readers = {3}
    Addresses = {1, 2, 3, 4}
    Keys = {1, 2}
    Frames <- MCFrames
    Turns = 2
    None = None
    Setups <- MCSetups
SPECIFICATION FairSpec
INVARIANTS
    StableWasReceived
    OutsidersHaveNoHold

    
    
